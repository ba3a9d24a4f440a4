-------------------------- MODULE JsonParse_proofs ---------------------------
(***************************************************************************)
(* json_decode frees nothing twice and loses nothing, whatever the text    *)
(* and however deep it nests.  The invariant says who holds each node and  *)
(* each key that is allocated; the nodes are forests, so that the node a   *)
(* call deletes takes with it exactly the keys attached below it.          *)
(*                                                                         *)
(* And it accepts exactly the texts that are JSON.  The invariant says of  *)
(* the active calls that what they have read is the beginning of a value   *)
(* (Sound), and that what follows is the rest of one if the text is JSON   *)
(* (Complete); both speak of the text without its blanks.                  *)
(***************************************************************************)
EXTENDS JsonParse, Reach_proofs, SequenceTheorems

Calls == [fn : {"array", "object"}, ret : Places \cup {NULL}, key : Places \cup {NULL}]

TypeOK ==
  /\ text \in Seq(Symbols) /\ Len(text) <= MaxLen /\ out \in BOOLEAN
  /\ pc \in {"value", "first", "key", "colon", "separator", "returned", "failed",
             "accepted", "rejected"}
  /\ at \in 1..(Len(text) + 1)
  /\ frames \in Seq(Calls) /\ val \in Places \cup {NULL}

ForestTypeOK ==
  /\ alive \in SUBSET Places
  /\ kids \in [Places -> Seq(Places)] /\ names \in [Places -> Places \cup {NULL}]

(* Which call is running.                                                  *)
Control ==
  /\ pc \in {"first", "key", "colon", "separator"} => frames # <<>>
  /\ pc \in {"key", "colon"} => Top.fn = "object"
  /\ pc \in {"accepted", "rejected"} => frames = <<>>
  /\ \A i \in 1..Len(frames) : frames[i].fn = "array" => frames[i].key = NULL

(* What the calls and the caller hold, and where the keys are.             *)
Rets     == {frames[i].ret : i \in 1..Len(frames)}
InHand   == IF pc \in {"returned", "accepted"} THEN {val} ELSE {}
Roots    == {n \in alive : F!IsRoot(n)}
Owned    == {i \in 1..Len(frames) : OwnsKey(i)}
Local    == {frames[i].key : i \in Owned}
Attached == {names[n] : n \in alive} \ {NULL}

(* The children of p.                                                      *)
Kids(p) == F!ToSet(kids[p])

(* The nodes are forests, and what is not alive is as new; who has a name  *)
(* has a parent, and no two have the same.                                 *)
Trees ==
  /\ \A n \in Places \ alive : kids[n] = <<>> /\ names[n] = NULL
  /\ \A n \in Roots : names[n] = NULL
  /\ \A p \in Places : Kids(p) \subseteq alive
  /\ \A p, q \in Places : Kids(p) \cap Kids(q) # {} => p = q
  /\ \A m, n \in alive : names[m] = names[n] /\ names[m] # NULL => m = n

(* No two hold the same node, and no two have the same key.                *)
Apart ==
  /\ \A i, j \in 1..Len(frames) : frames[i].ret = frames[j].ret => i = j
  /\ pc = "returned" => val \notin Rets
  /\ \A i, j \in Owned : frames[i].key = frames[j].key => i = j

(* A place that has not been reached names neither a node nor a key.       *)
Fresh == \A x \in alive \cup keys : x < at

(* Each root is held once, each key is in one place: what NothingLost says *)
(* of json_decode.                                                         *)
Kept ==
  /\ Roots = Rets \cup InHand
  /\ keys = Local \cup Attached /\ Local \cap Attached = {}

Held == Kept /\ Trees /\ Apart /\ Fresh /\ keys \subseteq Places

ParseInv ==
  /\ TypeOK /\ ForestTypeOK /\ Control /\ NoFault
  /\ IF out THEN Held ELSE alive = {} /\ keys = {}

-----------------------------------------------------------------------------
(* Reading.                                                                *)

(* The text that is being read.                                            *)
Reads == text \in Seq(Symbols) /\ Len(text) \in Nat /\ Len(text) <= MaxLen /\ MaxLen \in Nat

LEMMA ChIs ==
  ASSUME Reads, NEW i \in Nat
  PROVE  /\ i > Len(text) => Ch(i) = "end"
         /\ i \in 1..Len(text) => Ch(i) = text[i] /\ Ch(i) \in Symbols
BY SMT DEF Ch, Reads

LEMMA SkipIs ==
  ASSUME Reads, NEW S, "end" \notin S, NEW i \in 1..(Len(text) + 1)
  PROVE  /\ SkipAll(S, i) \in i..(Len(text) + 1)
         /\ Ch(SkipAll(S, i)) \notin S
<1> DEFINE T == {j \in i..(Len(text) + 1) : Ch(j) \notin S}
<1>1. Len(text) + 1 \in T
  BY ChIs, SMT DEF Reads
<1>2. T \in SUBSET Nat /\ T # {}
  BY <1>1, SMT DEF Reads
<1> HIDE DEF T
<1>3. PICK j \in T : \A k \in T : j <= k
  BY <1>2, Least
<1>4. j \in i..(Len(text) + 1) /\ Ch(j) \notin S
  BY <1>3 DEF T
<1>5. ASSUME NEW m \in i..(j - 1) PROVE Ch(m) \in S
  <2>1. m \in i..(Len(text) + 1) /\ ~(j <= m)
    BY <1>4, SMT DEF Reads
  <2>2. m \notin T
    BY <1>3, <2>1
  <2>3. QED
    BY <2>1, <2>2 DEF T
<1>6. QED
  BY <1>4, <1>5 DEF SkipAll

(* Where a run of digits, a number and a scalar end.                       *)
Behind(e, i) == e = 0 \/ e \in (i + 1)..(Len(text) + 1)

LEMMA DigitsEndIs ==
  ASSUME Reads, NEW i \in Nat \ {0}
  PROVE  Behind(DigitsEnd(i), i)
<1>1. "end" \notin Digits
  BY DEF Digits
<1>2. CASE Ch(i) \in Digits
  <2>1. i \in 1..(Len(text) + 1)
    BY <1>1, <1>2, ChIs, SMT DEF Reads
  <2>2. SkipAll(Digits, i) \in i..(Len(text) + 1) /\ SkipAll(Digits, i) # i
    BY <1>1, <1>2, <2>1, SkipIs
  <2> DEFINE e == SkipAll(Digits, i)
  <2>3. e \in (i + 1)..(Len(text) + 1)
    <3>1. e \in i..(Len(text) + 1) /\ e # i
      BY <2>2
    <3> HIDE DEF e
    <3>2. QED
      BY <3>1, SMT DEF Reads
  <2>4. QED
    BY <1>2, <2>3 DEF DigitsEnd, Behind
<1>3. CASE Ch(i) \notin Digits
  BY <1>3 DEF DigitsEnd, Behind
<1>4. QED
  BY <1>2, <1>3

LEMMA NumberEndIs ==
  ASSUME Reads, NEW i \in 1..(Len(text) + 1)
  PROVE  Behind(NumberEnd(i), i)
<1> DEFINE first    == IF Ch(i) = "-" THEN i + 1 ELSE i
           integer  == IF Ch(first) = "0" THEN first + 1 ELSE DigitsEnd(first)
           fraction == IF integer = 0 \/ Ch(integer) # "." THEN integer
                       ELSE DigitsEnd(integer + 1)
           sign     == IF Ch(fraction + 1) \in {"+", "-"} THEN fraction + 2 ELSE fraction + 1
<1>1. NumberEnd(i) = IF fraction = 0 \/ Ch(fraction) \notin {"e", "E"} THEN fraction
                     ELSE DigitsEnd(sign)
  BY DEF NumberEnd
<1>2. first \in Nat \ {0} /\ i <= first
  BY SMT DEF Reads
<1> HIDE DEF first
<1>3. Behind(integer, first)
  <2>1. CASE Ch(first) = "0"
    <3>1. first <= Len(text)
      BY <1>2, <2>1, ChIs, SMT DEF Reads
    <3>2. QED
      BY <1>2, <2>1, <3>1, SMT DEF Behind, Reads
  <2>2. CASE Ch(first) # "0"
    BY <1>2, <2>2, DigitsEndIs
  <2>3. QED
    BY <2>1, <2>2
<1> HIDE DEF integer
<1>4. Behind(fraction, first)
  <2>1. CASE integer = 0 \/ Ch(integer) # "."
    BY <1>3, <2>1
  <2>2. CASE ~(integer = 0 \/ Ch(integer) # ".")
    <3>1. integer + 1 \in Nat \ {0} /\ first <= integer + 1 /\ integer + 1 \in Int
      BY <1>2, <1>3, <2>2, SMT DEF Behind, Reads
    <3>2. Behind(DigitsEnd(integer + 1), integer + 1)
      BY <3>1, DigitsEndIs
    <3> DEFINE e == DigitsEnd(integer + 1)
    <3>3. Behind(e, integer + 1)
      BY <3>2
    <3> HIDE DEF e
    <3>4. Behind(e, first)
      BY <1>2, <3>1, <3>3, SMT DEF Behind, Reads
    <3>5. QED
      BY <2>2, <3>4 DEF e
  <2>3. QED
    BY <2>1, <2>2
<1> HIDE DEF fraction
<1>5. CASE fraction = 0 \/ Ch(fraction) \notin {"e", "E"}
  BY <1>1, <1>2, <1>4, <1>5, SMT DEF Behind, Reads
<1>6. CASE ~(fraction = 0 \/ Ch(fraction) \notin {"e", "E"})
  <2>1. sign \in Nat \ {0} /\ first <= sign
    BY <1>2, <1>4, <1>6, SMT DEF Behind, Reads
  <2> HIDE DEF sign
  <2> DEFINE e == DigitsEnd(sign)
  <2>2. Behind(e, sign)
    BY <2>1, DigitsEndIs
  <2> HIDE DEF e
  <2>3. Behind(e, i)
    BY <1>2, <2>1, <2>2, SMT DEF Behind, Reads
  <2>4. QED
    BY <1>1, <1>6, <2>3 DEF e
<1>7. QED
  BY <1>5, <1>6

LEMMA ScalarEndIs ==
  ASSUME Reads, NEW i \in 1..(Len(text) + 1), ScalarEnd(i) # 0
  PROVE  i \in Places /\ ScalarEnd(i) \in (i + 1)..(Len(text) + 1)
<1>1. ScalarEnd(i) \in (i + 1)..(Len(text) + 1)
  <2>1. CASE Ch(i) \in Strings \cup Words
    <3>1. i \in 1..Len(text)
      BY <2>1, ChIs, SMT DEF Strings, Words, Reads
    <3>2. QED
      BY <2>1, <3>1, SMT DEF ScalarEnd, Reads
  <2>2. CASE Ch(i) \notin Strings \cup Words
    <3>1. ScalarEnd(i) = NumberEnd(i)
      BY <2>2 DEF ScalarEnd
    <3>2. QED
      BY <3>1, NumberEndIs DEF Behind
  <2>3. QED
    BY <2>1, <2>2
<1> DEFINE e == ScalarEnd(i)
<1>2. e \in (i + 1)..(Len(text) + 1)
  BY <1>1
<1> HIDE DEF e
<1>3. i \in Places
  BY <1>2, SMT DEF Reads, Places
<1>4. QED
  BY <1>2, <1>3 DEF e

(* A mark is a place of the text, and the text goes on behind it.          *)
LEMMA MarkIs ==
  ASSUME Reads, NEW i \in 1..(Len(text) + 1), Ch(i) # "end"
  PROVE  /\ i \in Places /\ i + 1 \in 1..(Len(text) + 1)
         /\ SkipSpace(i + 1) \in (i + 1)..(Len(text) + 1)
<1>1. i \in Places /\ i + 1 \in 1..(Len(text) + 1)
  BY ChIs, SMT DEF Reads, Places
<1>2. SkipAll({"sp"}, i + 1) \in (i + 1)..(Len(text) + 1)
  BY <1>1, SkipIs
<1>3. QED
  BY <1>1, <1>2 DEF SkipSpace

-----------------------------------------------------------------------------
(* Trees.                                                                  *)

LEMMA PlacesAre ==
  /\ MaxLen \in Nat /\ IsFiniteSet(Places) /\ Cardinality(Places) \in Nat
  /\ NULL \notin Places /\ \A i \in Places : i \in Nat \ {0}
<1>1. MaxLen \in Nat
  BY JsonParseAssumption
<1>2. IsFiniteSet(Places)
  BY <1>1, FS_Interval DEF Places
<1>3. Cardinality(Places) \in Nat
  BY <1>2, FS_CardinalityType
<1>4. NULL \notin Places /\ \A i \in Places : i \in Nat \ {0}
  BY <1>1, SMT DEF Places, NULL
<1>5. QED
  BY <1>1, <1>2, <1>3, <1>4

LEMMA SubtreeReads ==
  ASSUME alive \subseteq Places,
         NEW n \in alive, NEW g \in [alive -> SUBSET alive],
         \A p \in alive : g[p] = Kids(p),
         NEW f \in [0..Cardinality(Places) -> SUBSET alive],
         Grows(f, n, g, Cardinality(Places))
  PROVE  F!Subtree(n) = f[Cardinality(Places)]
<1> DEFINE C == Cardinality(Places)
           step(h, i) == IF i = 0 THEN {n}
                         ELSE UNION {{m} \cup F!ToSet(kids[m]) : m \in h[i - 1]}
           reach == CHOOSE h : h = [i \in 0..C |-> step(h, i)]
<1>1. C \in Nat
  BY PlacesAre
<1>2. F!Subtree(n) = reach[C]
  <2>1. F!Cardinality(Places) = Cardinality(Places)
    BY DEF F!Cardinality, Cardinality
  <2>2. QED
    BY <2>1 DEF F!Subtree
<1> HIDE DEF C
<1>3. ASSUME NEW h, NEW i \in 1..C, h[i - 1] = f[i - 1] PROVE step(h, i) = f[i]
  <2>1. i # 0 /\ i - 1 \in 0..C
    BY <1>1, SMT
  <2>2. f[i - 1] \subseteq alive
    BY <2>1 DEF C
  <2>3. f[i] = UNION {{m} \cup g[m] : m \in f[i - 1]}
    BY DEF Grows, Grown, C
  <2>4. UNION {{m} \cup F!ToSet(kids[m]) : m \in f[i - 1]}
          = UNION {{m} \cup g[m] : m \in f[i - 1]}
    BY <2>2 DEF Kids
  <2>5. QED
    BY <1>3, <2>1, <2>3, <2>4
<1> HIDE DEF reach
<1>4. \A i \in 0..C : step(f, i) = f[i]
  <2> SUFFICES ASSUME NEW i \in 0..C PROVE step(f, i) = f[i]
    OBVIOUS
  <2>1. i # 0 => i \in 1..C
    BY <1>1, SMT
  <2>2. CASE i = 0
    BY <2>2 DEF Grows
  <2>3. CASE i # 0
    <3> HIDE DEF step
    <3>1. QED
      BY <1>3, <2>1, <2>3
  <2>4. QED
    BY <2>2, <2>3
<1>5. f = [i \in 0..C |-> step(f, i)]
  <2> HIDE DEF step
  <2>1. f = [i \in 0..C |-> f[i]]
    BY DEF C
  <2>2. QED
    BY <1>4, <2>1
<1>6. reach = [i \in 0..C |-> step(reach, i)]
  <2> HIDE DEF step
  <2>1. QED
    BY <1>5 DEF reach
<1>7. \A i \in 0..C : reach[i] = step(reach, i)
  <2> HIDE DEF step
  <2>1. QED
    BY <1>6
<1>8. 0 \in 0..C /\ C \in 0..C /\ \A i \in 1..C : i \in 0..C
  BY <1>1, SMT
<1>9. reach[0] = f[0]
  BY <1>7, <1>8 DEF Grows
<1> HIDE DEF step
<1>10. \A i \in 1..C : reach[i - 1] = f[i - 1] => reach[i] = f[i]
  BY <1>3, <1>7, <1>8
<1>11. Alike(reach, f, C)
  BY <1>1, <1>9, <1>10, SameSteps DEF Together
<1>12. QED
  BY <1>2, <1>8, <1>11 DEF C, Alike

(* What json_delete frees has n, nothing that is not alive, the children   *)
(* of all that it has and a parent of each but n.                          *)
LEMMA SubtreeIs ==
  ASSUME alive \subseteq Places, Trees, NEW n \in alive
  PROVE  /\ n \in F!Subtree(n) /\ F!Subtree(n) \subseteq alive
         /\ \A p \in F!Subtree(n) : Kids(p) \subseteq F!Subtree(n)
         /\ \A m \in F!Subtree(n) : m = n \/ \E p \in F!Subtree(n) : m \in Kids(p)
<1> DEFINE C == Cardinality(Places)
           g == [p \in alive |-> Kids(p)]
<1>1. C \in Nat /\ IsFiniteSet(alive) /\ Cardinality(alive) <= C
  BY PlacesAre, FS_Subset
<1>2. g \in [alive -> SUBSET alive] /\ \A p \in alive : g[p] = Kids(p)
  BY DEF Trees
<1> HIDE DEF C, g
<1>3. PICK f \in [0..C -> SUBSET alive] : Grows(f, n, g, C)
  BY <1>1, <1>2, Unfolds
<1>4. F!Subtree(n) = f[C]
  BY <1>2, <1>3, SubtreeReads DEF C
<1>5. /\ f[C] \in SUBSET alive /\ n \in f[C]
      /\ \A m \in f[C] : g[m] \subseteq f[C]
      /\ \E rank \in [alive -> Nat] : Nearer(rank, f[C], n, g)
  BY <1>1, <1>2, <1>3, Closed
<1>6. \A m \in f[C] : m = n \/ \E p \in f[C] : m \in g[p]
  BY <1>5 DEF Nearer
<1>7. \A p \in f[C] : g[p] = Kids(p)
  BY <1>2, <1>5
<1>8. QED
  BY <1>4, <1>5, <1>6, <1>7

(* A root is in no list of children, so there is nothing to take out.      *)
LEMMA WithoutIs ==
  ASSUME kids \in [Places -> Seq(Places)], NEW n, F!IsRoot(n)
  PROVE  F!Without(n) = kids
<1>1. ASSUME NEW p \in Places PROVE F!RemoveFirst(kids[p], n) = kids[p]
  <2>1. kids[p] \in Seq(Places) /\ n \notin F!ToSet(kids[p])
    BY DEF F!IsRoot
  <2>2. DOMAIN kids[p] = 1..Len(kids[p])
    BY <2>1, SMT
  <2>3. \A i \in 1..Len(kids[p]) : kids[p][i] # n
    BY <2>1, <2>2 DEF F!ToSet
  <2>4. QED
    BY <2>3 DEF F!RemoveFirst
<1>2. QED
  BY <1>1 DEF F!Without

LEMMA Appended ==
  ASSUME NEW S, NEW s \in Seq(S), NEW c \in S
  PROVE  /\ Append(s, c) \in Seq(S) /\ Len(Append(s, c)) = Len(s) + 1 /\ Len(s) \in Nat
         /\ \A i \in 1..Len(s) : Append(s, c)[i] = s[i]
         /\ Append(s, c)[Len(s) + 1] = c
BY SMT

LEMMA KidsJoined ==
  ASSUME NEW s \in Seq(Places), NEW c \in Places
  PROVE  /\ Append(s, c) \in Seq(Places)
         /\ F!ToSet(Append(s, c)) = F!ToSet(s) \cup {c}
         /\ F!ToSet(<<>>) = {}
<1> DEFINE t == Append(s, c)
<1>1. /\ t \in Seq(Places) /\ Len(t) = Len(s) + 1 /\ Len(s) \in Nat
      /\ \A i \in 1..Len(s) : t[i] = s[i]
      /\ t[Len(s) + 1] = c
  BY Appended
<1>2. DOMAIN s = 1..Len(s) /\ DOMAIN t = 1..(Len(s) + 1)
  BY <1>1, SMT
<1> HIDE DEF t
<1>3. 1..(Len(s) + 1) = 1..Len(s) \cup {Len(s) + 1}
  BY <1>1, SMT
<1>4. F!ToSet(t) = F!ToSet(s) \cup {c}
  BY <1>1, <1>2, <1>3 DEF F!ToSet
<1>5. F!ToSet(<<>>) = {}
  <2>1. DOMAIN <<>> = {}
    BY SMT
  <2>2. QED
    BY <2>1 DEF F!ToSet
<1>6. QED
  BY <1>1, <1>4, <1>5 DEF t

LEMMA NodeMade ==
  ASSUME ForestTypeOK, Trees, NEW n \in Places, NEW t, F!Make(n, t)
  PROVE  /\ ForestTypeOK' /\ Trees' /\ n \notin alive /\ alive' = alive \cup {n}
         /\ Roots' = Roots \cup {n} /\ Attached' = Attached
<1>1. /\ n \notin alive /\ alive' = alive \cup {n} /\ kids' = kids /\ names' = names
  BY DEF F!Make
<1>2. \A p \in Places : n \notin Kids(p)
  BY <1>1 DEF Trees
<1>3. Roots' = Roots \cup {n}
  BY <1>1, <1>2 DEF Roots, F!IsRoot, Kids
<1>4. names[n] = NULL
  BY <1>1 DEF Trees
<1>5. Attached' = Attached
  BY <1>1, <1>4 DEF Attached
<1>6. ForestTypeOK'
  BY <1>1 DEF ForestTypeOK
<1>7. Trees'
  <2>1. \A p \in Places : Kids(p)' = Kids(p)
    BY <1>1 DEF Kids
  <2>2. \A m \in Places \ alive' : kids'[m] = <<>> /\ names'[m] = NULL
    BY <1>1 DEF Trees
  <2>3. \A m \in Roots' : names'[m] = NULL
    BY <1>1, <1>3, <1>4 DEF Trees
  <2>4. \A p \in Places : Kids(p) \subseteq alive'
    BY <1>1 DEF Trees
  <2>5. \A m, q \in alive' : names'[m] = names'[q] /\ names'[m] # NULL => m = q
    BY <1>1, <1>4 DEF Trees
  <2>6. QED
    BY <2>1, <2>2, <2>3, <2>4, <2>5 DEF Trees
<1>8. QED
  BY <1>1, <1>3, <1>5, <1>6, <1>7

LEMMA NodeAdded ==
  ASSUME ForestTypeOK, Trees, NEW p \in Places, NEW c \in Places,
         NEW k \in Places \cup {NULL}, k \notin Attached, c # p, F!AddLast(p, c, k)
  PROVE  /\ ForestTypeOK' /\ Trees' /\ alive' = alive
         /\ Roots' = Roots \ {c} /\ Attached' = Attached \cup ({k} \ {NULL})
<1>1. /\ p \in alive /\ c \in alive /\ c \in Roots /\ alive' = alive
      /\ names' = [names EXCEPT ![c] = k]
      /\ kids' = [kids EXCEPT ![p] = Append(@, c)]
  BY DEF F!AddLast, F!Join, Roots
<1>2. \A q \in Places : kids[q] \in Seq(Places)
  BY DEF ForestTypeOK
<1>3. /\ kids' \in [Places -> Seq(Places)]
      /\ \A q \in Places : Kids(q)' = IF q = p THEN Kids(q) \cup {c} ELSE Kids(q)
  <2>1. Append(kids[p], c) \in Seq(Places) /\ F!ToSet(Append(kids[p], c)) = Kids(p) \cup {c}
    BY <1>2, KidsJoined DEF Kids
  <2>2. \A q \in Places : kids'[q] = IF q = p THEN Append(kids[p], c) ELSE kids[q]
    BY <1>1 DEF ForestTypeOK
  <2>3. kids' \in [Places -> Seq(Places)]
    <3>1. kids' = [q \in Places |-> IF q = p THEN Append(kids[p], c) ELSE kids[q]]
      BY <1>1 DEF ForestTypeOK
    <3>2. QED
      BY <1>2, <2>1, <3>1
  <2>4. QED
    BY <2>1, <2>2, <2>3 DEF Kids
<1>4. \A m \in Places : names'[m] = IF m = c THEN k ELSE names[m]
  BY <1>1 DEF ForestTypeOK
<1>5. names[c] = NULL /\ \A q \in Places : c \notin Kids(q)
  BY <1>1 DEF Trees, Roots, F!IsRoot, Kids
<1>6. Roots' = Roots \ {c}
  <2>1. \A m : F!IsRoot(m)' <=> m # c /\ F!IsRoot(m)
    <3>1. \A m : F!IsRoot(m)' <=> \A q \in Places : m \notin Kids(q)'
      BY DEF F!IsRoot, Kids
    <3>2. \A m : F!IsRoot(m) <=> \A q \in Places : m \notin Kids(q)
      BY DEF F!IsRoot, Kids
    <3>3. QED
      BY <1>3, <3>1, <3>2
  <2>2. QED
    BY <1>1, <2>1 DEF Roots
<1>7. alive \subseteq Places
  BY DEF ForestTypeOK
<1>8. Attached' = Attached \cup ({k} \ {NULL})
  <2>1. {names'[m] : m \in alive} \cup {NULL} = {names[m] : m \in alive} \cup {k, NULL}
    BY <1>1, <1>4, <1>5, <1>7
  <2>2. QED
    BY <1>1, <2>1 DEF Attached
<1>9. ForestTypeOK'
  BY <1>1, <1>3 DEF ForestTypeOK
<1>10. Trees'
  <2>1. \A m \in Places \ alive' : kids'[m] = <<>> /\ names'[m] = NULL
    <3>1. \A m \in Places \ alive : kids'[m] = kids[m]
      BY <1>1 DEF ForestTypeOK
    <3>2. QED
      BY <1>1, <1>4, <3>1 DEF Trees
  <2>2. \A m \in Roots' : names'[m] = NULL
    BY <1>4, <1>6, <1>7 DEF Trees, Roots
  <2>3. \A q \in Places : Kids(q)' \subseteq alive'
    BY <1>1, <1>3 DEF Trees
  <2>4. \A q, r \in Places : Kids(q)' \cap Kids(r)' # {} => q = r
    <3> SUFFICES ASSUME NEW q \in Places, NEW r \in Places, NEW m \in Kids(q)', m \in Kids(r)'
                 PROVE  q = r
      OBVIOUS
    <3>1. CASE m = c
      BY <1>3, <1>5, <3>1
    <3>2. CASE m # c
      <4>1. m \in Kids(q) \cap Kids(r)
        BY <1>3, <3>2
      <4>2. QED
        BY <4>1 DEF Trees
    <3>3. QED
      BY <3>1, <3>2
  <2>5. \A m, n \in alive' : names'[m] = names'[n] /\ names'[m] # NULL => m = n
    <3> SUFFICES ASSUME NEW m \in alive, NEW n \in alive, names'[m] = names'[n], names'[m] # NULL
                 PROVE  m = n
      BY <1>1
    <3>1. ASSUME NEW x \in alive, x # c, names'[x] = k, k # NULL PROVE FALSE
      BY <1>4, <1>7, <3>1 DEF Attached
    <3>2. CASE m = c \/ n = c
      BY <1>4, <1>7, <3>1, <3>2
    <3>3. CASE m # c /\ n # c
      BY <1>4, <1>7, <3>3 DEF Trees
    <3>4. QED
      BY <3>2, <3>3
  <2>6. QED
    BY <2>1, <2>2, <2>3, <2>4, <2>5 DEF Trees
<1>11. QED
  BY <1>1, <1>6, <1>8, <1>9, <1>10

(* The keys below n.                                                       *)
Below(n) == {names[m] : m \in F!Subtree(n)} \ {NULL}

LEMMA NodeDeleted ==
  ASSUME ForestTypeOK, Trees, NEW n \in Roots, F!Delete(n)
  PROVE  /\ ForestTypeOK' /\ Trees' /\ alive' \subseteq alive
         /\ Roots' = Roots \ {n}
         /\ Attached' = Attached \ Below(n) /\ Below(n) \subseteq Attached
<1> DEFINE gone == F!Subtree(n)
<1>1. n \in alive /\ F!IsRoot(n) /\ alive \subseteq Places
  BY DEF Roots, ForestTypeOK
<1>2. /\ alive' = alive \ gone
      /\ kids' = [m \in Places |-> IF m \in gone THEN <<>> ELSE F!Without(n)[m]]
      /\ names' = [m \in Places |-> IF m \in gone THEN NULL ELSE names[m]]
  BY DEF F!Delete
<1>3. F!Without(n) = kids
  BY <1>1, WithoutIs DEF ForestTypeOK
<1>4. /\ n \in gone /\ gone \subseteq alive
      /\ \A p \in gone : Kids(p) \subseteq gone
      /\ \A m \in gone : m = n \/ \E p \in gone : m \in Kids(p)
  BY <1>1, SubtreeIs
<1>5. Below(n) = {names[m] : m \in gone} \ {NULL}
  BY DEF Below
<1> HIDE DEF gone
<1>6. /\ \A m \in Places : kids'[m] = IF m \in gone THEN <<>> ELSE kids[m]
      /\ \A m \in Places : names'[m] = IF m \in gone THEN NULL ELSE names[m]
  BY <1>2, <1>3
<1>7. \A p \in Places : Kids(p)' = IF p \in gone THEN {} ELSE Kids(p)
  <2>1. F!ToSet(<<>>) = {}
    BY <1>1, KidsJoined DEF ForestTypeOK
  <2>2. QED
    BY <1>6, <2>1 DEF Kids
<1>8. ForestTypeOK'
  <2>1. kids' \in [Places -> Seq(Places)]
    <3>1. <<>> \in Seq(Places)
      BY SMT
    <3>2. QED
      BY <1>2, <1>3, <3>1 DEF ForestTypeOK
  <2>2. QED
    BY <1>2, <2>1 DEF ForestTypeOK
<1>9. Roots' = Roots \ {n}
  <2>1. \A m : F!IsRoot(m)' <=> \A q \in Places : m \notin Kids(q)'
    BY DEF F!IsRoot, Kids
  <2>2. \A m : F!IsRoot(m) <=> \A q \in Places : m \notin Kids(q)
    BY DEF F!IsRoot, Kids
  <2>3. ASSUME NEW m \in alive \ gone PROVE F!IsRoot(m)' <=> F!IsRoot(m)
    BY <1>4, <1>7, <2>1, <2>2, <2>3
  <2>4. ASSUME NEW m \in gone, F!IsRoot(m) PROVE m = n
    BY <1>1, <1>4, <2>2, <2>4
  <2>5. QED
    BY <1>2, <1>4, <2>3, <2>4 DEF Roots
<1>10. /\ Attached' = Attached \ Below(n) /\ Below(n) \subseteq Attached
  <2>1. Below(n) \subseteq Attached
    BY <1>4, <1>5 DEF Attached
  <2>2. \A m \in alive \ gone, x \in gone : names[m] # NULL => names[m] # names[x]
    BY <1>4 DEF Trees
  <2>3. \A m \in alive \ gone : names'[m] = names[m]
    BY <1>1, <1>6
  <2>4. QED
    BY <1>2, <1>5, <2>1, <2>2, <2>3 DEF Attached
<1>11. Trees'
  <2>1. \A m \in Places \ alive' : kids'[m] = <<>> /\ names'[m] = NULL
    BY <1>2, <1>6 DEF Trees
  <2>2. \A m \in Roots' : names'[m] = NULL
    BY <1>1, <1>6, <1>9 DEF Trees, Roots
  <2>3. ASSUME NEW p \in Places PROVE Kids(p)' \subseteq alive'
    <3>1. CASE p \in gone
      BY <1>7, <3>1
    <3>2. CASE p \notin gone
      <4>1. \A m \in Kids(p) : m \in alive /\ m # n
        BY <1>1 DEF Trees, F!IsRoot, Kids
      <4>2. ASSUME NEW m \in Kids(p), m \in gone PROVE FALSE
        <5>1. PICK q \in gone : m \in Kids(q)
          BY <1>4, <4>1, <4>2
        <5>2. q \in Places
          BY <1>1, <1>4
        <5>3. q = p
          BY <4>2, <5>1, <5>2 DEF Trees
        <5>4. QED
          BY <3>2, <5>1, <5>3
      <4>3. QED
        BY <1>2, <1>7, <3>2, <4>1, <4>2
    <3>3. QED
      BY <3>1, <3>2
  <2>4. \A q, r \in Places : Kids(q)' \cap Kids(r)' # {} => q = r
    BY <1>7 DEF Trees
  <2>5. \A x, m \in alive' : names'[x] = names'[m] /\ names'[x] # NULL => x = m
    BY <1>1, <1>2, <1>6 DEF Trees
  <2>6. QED
    BY <2>1, <2>2, <2>3, <2>4, <2>5 DEF Trees
<1>12. QED
  BY <1>2, <1>8, <1>9, <1>10, <1>11

-----------------------------------------------------------------------------
(* Active calls.                                                           *)

LEMMA TopIs ==
  ASSUME frames \in Seq(Calls), frames # <<>>
  PROVE  /\ Len(frames) \in Nat \ {0} /\ Len(frames) \in 1..Len(frames)
         /\ Top = frames[Len(frames)] /\ Top \in Calls
         /\ Top.fn \in {"array", "object"} /\ Top.ret \in Places \cup {NULL}
         /\ Top.key \in Places \cup {NULL}
<1>1. /\ Len(frames) \in Nat \ {0} /\ Len(frames) \in 1..Len(frames)
      /\ frames[Len(frames)] \in Calls
  BY SMT
<1>2. \A c \in Calls : /\ c.fn \in {"array", "object"} /\ c.ret \in Places \cup {NULL}
                       /\ c.key \in Places \cup {NULL}
  BY DEF Calls
<1>3. QED
  BY <1>1, <1>2 DEF Top

LEMMA Popped ==
  ASSUME frames \in Seq(Calls), frames # <<>>
  PROVE  /\ Pop \in Seq(Calls) /\ Len(Pop) = Len(frames) - 1
         /\ \A i \in 1..Len(Pop) : Pop[i] = frames[i] /\ i \in 1..Len(frames) /\ i # Len(frames)
<1> DEFINE N == Len(frames)
           p == SubSeq(frames, 1, N - 1)
<1>1. N \in Nat \ {0} /\ N - 1 \in Nat /\ N - 1 <= N
  BY TopIs, SMT
<1>2. p \in Seq(Calls) /\ Len(p) = N - 1 /\ \A i \in 1..(N - 1) : p[i] = frames[i]
  <2>1. \A i \in 1..(N - 1) : frames[i] \in Calls
    BY <1>1, SMT
  <2>2. p = [i \in 1..(N - 1) |-> frames[i]]
    BY <1>1, SMT
  <2> HIDE DEF N, p
  <2>3. QED
    BY <1>1, <2>1, <2>2, SMT
<1>3. \A i \in 1..(N - 1) : i \in 1..N /\ i # N
  BY <1>1, SMT
<1>4. Pop = p
  BY DEF Pop
<1>5. QED
  BY <1>2, <1>3, <1>4

(* g is the calls with the key of the last one set to x.                   *)
KeyGiven(g, x) ==
  /\ g \in Seq(Calls) /\ Len(g) = Len(frames) /\ g # <<>>
  /\ \A i \in 1..Len(frames) : i # Len(frames) => g[i] = frames[i]
  /\ g[Len(frames)].fn = Top.fn /\ g[Len(frames)].ret = Top.ret
  /\ g[Len(frames)].key = x

LEMMA Keyed ==
  ASSUME frames \in Seq(Calls), frames # <<>>, NEW x \in Places,
         NEW g, g = [frames EXCEPT ![Len(frames)].key = x]
  PROVE  KeyGiven(g, x)
<1> DEFINE N == Len(frames)
           c == [Top EXCEPT !.key = x]
<1>1. N \in Nat \ {0} /\ N \in 1..N /\ Top = frames[N] /\ Top \in Calls
  BY TopIs
<1>2. c \in Calls /\ c.fn = Top.fn /\ c.ret = Top.ret /\ c.key = x
  BY <1>1 DEF Calls
<1>3. g = [frames EXCEPT ![N] = c]
  BY <1>1
<1> HIDE DEF c
<1>4. /\ g \in Seq(Calls) /\ Len(g) = N /\ g # <<>> /\ g[N] = c
      /\ \A i \in 1..N : i # N => g[i] = frames[i]
  BY <1>1, <1>2, <1>3, SMT
<1>5. QED
  BY <1>2, <1>4 DEF KeyGiven

(* A step leaves the calls as they are, begins one or ends the last one.   *)
LEMMA Arrays ==
  ASSUME frames \in Seq(Calls), Control
  PROVE  /\ \A i \in 1..Len(frames) : frames[i].fn = "array" => frames[i].key = NULL
         /\ frames # <<>> => (Top.fn = "array" => Top.key = NULL)
BY TopIs DEF Control

LEMMA Reading ==
  ASSUME TypeOK
  PROVE  /\ Reads /\ at \in 1..(Len(text) + 1) /\ frames \in Seq(Calls)
         /\ SkipSpace(at) \in at..(Len(text) + 1)
         /\ SkipSpace(at) \in 1..(Len(text) + 1)
<1>1. Reads /\ at \in 1..(Len(text) + 1) /\ frames \in Seq(Calls)
  <2>1. text \in Seq(Symbols) /\ Len(text) \in Nat
    BY DEF TypeOK
  <2>2. QED
    BY <2>1, PlacesAre DEF TypeOK, Reads
<1>2. SkipAll({"sp"}, at) \in at..(Len(text) + 1)
  BY <1>1, SkipIs
<1> DEFINE e == SkipSpace(at)
<1>3. e \in at..(Len(text) + 1)
  BY <1>2 DEF SkipSpace
<1> HIDE DEF e
<1>4. e \in 1..(Len(text) + 1)
  BY <1>1, <1>3, SMT DEF Reads
<1>5. QED
  BY <1>1, <1>3, <1>4 DEF e

(* What a step does to the calls and to the place.                         *)
SameCalls == UNCHANGED <<text, out, frames>> /\ at' \in 1..(Len(text) + 1) /\ at <= at'

LEMMA QuietControl ==
  ASSUME TypeOK, Control, SameCalls, val' \in Places \cup {NULL},
         pc' \in {"value", "first", "key", "colon", "separator", "returned", "failed",
                  "accepted", "rejected"},
         pc' \in {"first", "key", "colon", "separator"} => frames # <<>>,
         pc' \in {"key", "colon"} => Top.fn = "object",
         pc' \in {"accepted", "rejected"} => frames = <<>>
  PROVE  TypeOK' /\ Control'
BY DEF TypeOK, Control, SameCalls, Top

LEMMA PushControl ==
  ASSUME TypeOK, Control, NEW c \in Calls, frames' = Append(frames, c), c.key = NULL,
         pc' = "first", UNCHANGED <<text, out, val>>, at' \in 1..(Len(text) + 1)
  PROVE  TypeOK' /\ Control'
<1>1. /\ frames' \in Seq(Calls) /\ Len(frames') = Len(frames) + 1 /\ Len(frames) \in Nat
      /\ \A i \in 1..Len(frames) : frames'[i] = frames[i]
      /\ frames'[Len(frames) + 1] = c
  BY Appended DEF TypeOK
<1>2. frames' # <<>>
  BY <1>1, SMT
<1>3. 1..Len(frames') = 1..Len(frames) \cup {Len(frames) + 1}
  BY <1>1, SMT
<1>4. \A i \in 1..Len(frames') : frames'[i].fn = "array" => frames'[i].key = NULL
  BY <1>1, <1>3 DEF Control
<1>5. QED
  BY <1>1, <1>2, <1>4 DEF TypeOK, Control

LEMMA PopControl ==
  ASSUME TypeOK, Control, frames # <<>>, frames' = Pop, pc' \in {"returned", "failed"},
         UNCHANGED <<text, out>>, at' \in 1..(Len(text) + 1), val' \in Places \cup {NULL}
  PROVE  TypeOK' /\ Control'
<1>1. /\ frames' \in Seq(Calls)
      /\ \A i \in 1..Len(frames') : frames'[i] = frames[i] /\ i \in 1..Len(frames)
  BY Popped DEF TypeOK
<1>2. QED
  BY <1>1 DEF TypeOK, Control

LEMMA GiveUpControl ==
  ASSUME TypeOK, Control, frames # <<>>, NEW freed, GiveUp(freed)
  PROVE  TypeOK' /\ Control' /\ at' = at
<1>1. frames' = Pop /\ pc' = "failed" /\ UNCHANGED <<text, out, at, val>>
  BY DEF GiveUp
<1>2. at' \in 1..(Len(text) + 1) /\ val' \in Places \cup {NULL}
  BY <1>1 DEF TypeOK
<1>3. QED
  BY <1>1, <1>2, PopControl

LEMMA StepControl ==
  ASSUME TypeOK, Control, [Next]_vars
  PROVE  TypeOK' /\ Control' /\ at' >= at
<1>1. /\ Reads /\ at \in 1..(Len(text) + 1) /\ frames \in Seq(Calls) /\ at \in Nat
      /\ SkipSpace(at) \in 1..(Len(text) + 1) /\ at <= SkipSpace(at)
  BY Reading, SMT DEF Reads
<1>2. ASSUME NEW e \in (at + 1)..(Len(text) + 1) PROVE e \in 1..(Len(text) + 1) /\ at <= e
  BY <1>1, SMT DEF Reads
<1>3. Ch(at) # "end" => /\ at \in Places
                        /\ at + 1 \in 1..(Len(text) + 1) /\ at <= at + 1
                        /\ SkipSpace(at + 1) \in 1..(Len(text) + 1) /\ at <= SkipSpace(at + 1)
  <2>1. at <= at + 1
    BY <1>1, SMT
  <2>2. QED
    BY <1>1, <1>2, <2>1, MarkIs
<1>4. val \in Places \cup {NULL} /\ at <= at /\ at >= at
  BY <1>1, SMT DEF TypeOK
<1>5. CASE ParseScalar
  <2>1. /\ ScalarEnd(at) # 0 /\ at' = ScalarEnd(at) /\ pc' = "returned"
        /\ val' \in {at, NULL} /\ UNCHANGED <<text, out, frames>>
    BY <1>5 DEF ParseScalar
  <2>2. at \in Places /\ ScalarEnd(at) \in (at + 1)..(Len(text) + 1)
    BY <1>1, <2>1, ScalarEndIs
  <2>3. at' \in 1..(Len(text) + 1) /\ at <= at'
    BY <1>2, <2>1, <2>2
  <2>4. TypeOK' /\ Control'
    BY <2>1, <2>2, <2>3, QuietControl DEF SameCalls
  <2>5. QED
    BY <1>1, <2>3, <2>4, SMT DEF TypeOK
<1>6. CASE NoValue
  BY <1>1, <1>4, <1>6, QuietControl DEF NoValue, SameCalls
<1>7. CASE OpenContainer
  <2>1. /\ Ch(at) # "end" /\ at' = SkipSpace(at + 1) /\ pc' = "first"
        /\ UNCHANGED <<text, out, val>>
    BY <1>7 DEF OpenContainer
  <2> DEFINE c == [fn |-> IF Ch(at) = "[" THEN "array" ELSE "object",
                   ret |-> IF out THEN at ELSE NULL, key |-> NULL]
  <2>2. frames' = Append(frames, c)
    BY <1>7 DEF OpenContainer
  <2>3. c \in Calls /\ c.key = NULL
    BY <1>3, <2>1 DEF Calls
  <2> HIDE DEF c
  <2>4. TypeOK' /\ Control'
    BY <1>3, <2>1, <2>2, <2>3, PushControl
  <2>5. QED
    BY <1>1, <1>3, <2>1, <2>4, SMT DEF TypeOK
<1>8. ASSUME pc \in {"first", "separator"}, frames # <<>>
      PROVE  /\ LoopStart \in {"value", "key"} /\ (LoopStart = "key" => Top.fn = "object")
  BY <1>1, <1>8, TopIs DEF LoopStart
<1>9. CASE NotEmpty
  <2>1. frames # <<>> /\ pc = "first" /\ pc' = LoopStart /\ UNCHANGED <<text, out, frames, at, val>>
    BY <1>9 DEF NotEmpty, Control
  <2>2. QED
    BY <1>1, <1>4, <1>8, <2>1, QuietControl DEF SameCalls
<1>10. CASE Close
  <2>1. /\ frames # <<>> /\ Ch(at) # "end" /\ at' = at + 1 /\ val' = Top.ret
        /\ frames' = Pop /\ pc' = "returned" /\ UNCHANGED <<text, out>>
    BY <1>10 DEF Close, Control, Closer
  <2>2. val' \in Places \cup {NULL}
    BY <1>1, <2>1, TopIs
  <2>3. TypeOK' /\ Control'
    BY <1>3, <2>1, <2>2, PopControl
  <2>4. QED
    BY <1>1, <2>1, <2>3, SMT
<1>11. CASE ParseKey
  <2>1. /\ frames # <<>> /\ Top.fn = "object" /\ Ch(at) # "end"
        /\ at' = SkipSpace(at + 1) /\ pc' = "colon" /\ UNCHANGED <<text, out, val>>
        /\ frames' = frames \/ frames' = [frames EXCEPT ![Len(frames)].key = at]
    BY <1>11 DEF ParseKey, Control, Strings
  <2>2. at' \in 1..(Len(text) + 1) /\ at <= at'
    BY <1>3, <2>1
  <2>3. CASE frames' = frames
    <3>1. TypeOK' /\ Control'
      BY <1>4, <2>1, <2>2, <2>3, QuietControl DEF SameCalls
    <3>2. QED
      BY <1>1, <2>2, <3>1, SMT DEF TypeOK
  <2>4. CASE frames' = [frames EXCEPT ![Len(frames)].key = at]
    <3>1. KeyGiven(frames', at)
      BY <1>1, <1>3, <2>1, <2>4, Keyed
    <3>2. Top'.fn = "object"
      BY <2>1, <3>1 DEF Top, KeyGiven
    <3>3. \A i \in 1..Len(frames') : frames'[i].fn = "array" => frames'[i].key = NULL
      BY <2>1, <3>1 DEF Control, KeyGiven
    <3>4. TypeOK' /\ Control'
      BY <2>1, <2>2, <3>1, <3>2, <3>3 DEF TypeOK, Control, KeyGiven
    <3>5. QED
      BY <1>1, <2>2, <3>4, SMT DEF TypeOK
  <2>5. QED
    BY <2>1, <2>3, <2>4
<1>12. CASE Colon
  <2>1. /\ frames # <<>> /\ Ch(at) # "end" /\ at' = SkipSpace(at + 1) /\ pc' = "value"
        /\ UNCHANGED <<text, out, frames, val>>
    BY <1>12 DEF Colon, Control
  <2>2. TypeOK' /\ Control'
    BY <1>3, <1>4, <2>1, QuietControl DEF SameCalls
  <2>3. QED
    BY <1>1, <1>3, <2>1, <2>2, SMT DEF TypeOK
<1>13. CASE AppendValue
  <2>1. /\ frames # <<>> /\ at' = SkipSpace(at) /\ pc' = "separator"
        /\ UNCHANGED <<text, out, frames, val>>
    BY <1>13 DEF AppendValue
  <2>2. TypeOK' /\ Control'
    BY <1>1, <1>4, <2>1, QuietControl DEF SameCalls
  <2>3. QED
    BY <1>1, <2>1, <2>2, SMT DEF TypeOK
<1>14. CASE Comma
  <2>1. /\ pc = "separator" /\ frames # <<>> /\ Ch(at) # "end" /\ at' = SkipSpace(at + 1)
        /\ pc' = LoopStart /\ UNCHANGED <<text, out, frames, val>>
    BY <1>14 DEF Comma, Control
  <2>2. TypeOK' /\ Control'
    BY <1>3, <1>4, <1>8, <2>1, QuietControl DEF SameCalls
  <2>3. QED
    BY <1>1, <1>3, <2>1, <2>2, SMT DEF TypeOK
<1>15. CASE NoKey \/ NoColon \/ NoComma \/ ValueFailed
  <2>1. frames # <<>> /\ \E freed : GiveUp(freed)
    BY <1>15 DEF NoKey, NoColon, NoComma, ValueFailed, Control
  <2>2. QED
    BY <1>4, <2>1, GiveUpControl
<1>16. CASE Accept
  <2>1. frames = <<>> /\ at' = SkipSpace(at) /\ pc' = "accepted" /\ UNCHANGED <<text, out, frames, val>>
    BY <1>16 DEF Accept, Return
  <2>2. TypeOK' /\ Control'
    BY <1>1, <1>4, <2>1, QuietControl DEF SameCalls
  <2>3. QED
    BY <1>1, <2>1, <2>2, SMT DEF TypeOK
<1>17. CASE RejectRest
  <2>1. frames = <<>> /\ at' = SkipSpace(at) /\ pc' = "rejected" /\ UNCHANGED <<text, out, frames, val>>
    BY <1>17 DEF RejectRest, Return
  <2>2. TypeOK' /\ Control'
    BY <1>1, <1>4, <2>1, QuietControl DEF SameCalls
  <2>3. QED
    BY <1>1, <2>1, <2>2, SMT DEF TypeOK
<1>18. CASE Reject
  <2>1. frames = <<>> /\ at' = at /\ pc' = "rejected" /\ UNCHANGED <<text, out, frames, val>>
    BY <1>18 DEF Reject, Return
  <2>2. QED
    BY <1>1, <1>4, <2>1, QuietControl DEF SameCalls
<1>19. CASE UNCHANGED vars
  <2>1. /\ UNCHANGED <<text, out, pc, at, frames, val>>
    BY <1>19 DEF vars
  <2>2. QED
    BY <1>4, <2>1 DEF TypeOK, Control, Top
<1>20. QED
  BY <1>5, <1>6, <1>7, <1>9, <1>10, <1>11, <1>12, <1>13, <1>14, <1>15, <1>16, <1>17, <1>18, <1>19
     DEF Next

-----------------------------------------------------------------------------
(* What the calls own.                                                     *)

LEMMA NothingLostIs ==
  NothingLost <=> IF out THEN Kept ELSE alive = {} /\ keys = {}
BY DEF NothingLost, Kept, Roots, Rets, InHand, Owned, Local, Attached

(* Where a call that parses an object has its key in hand.                 *)
Holding == {"colon", "value", "returned", "failed"}

LEMMA OwnedIs ==
  ASSUME frames \in Seq(Calls)
  PROVE  /\ Len(frames) \in Nat
         /\ \A i \in 1..Len(frames) :
              i \in Owned <=> frames[i].fn = "object" /\ (i # Len(frames) \/ pc \in Holding)
<1>1. Len(frames) \in Nat
  BY SMT
<1>2. \A i \in 1..Len(frames) : i < Len(frames) <=> i # Len(frames)
  BY <1>1, SMT
<1>3. QED
  BY <1>1, <1>2 DEF Owned, OwnsKey, Holding

LEMMA OwnedNext ==
  ASSUME frames' \in Seq(Calls)
  PROVE  /\ Len(frames') \in Nat
         /\ \A i \in 1..Len(frames') :
              i \in Owned' <=> frames'[i].fn = "object" /\ (i # Len(frames') \/ pc' \in Holding)
<1>1. Len(frames') \in Nat
  BY SMT
<1>2. \A i \in 1..Len(frames') : i < Len(frames') <=> i # Len(frames')
  BY <1>1, SMT
<1>3. QED
  BY <1>1, <1>2 DEF Owned, OwnsKey, Holding

(* The last call's key, if it is its own.                                  *)
LastKey == IF Len(frames) \in Owned THEN {Top.key} ELSE {}

LEMMA SameOwners ==
  ASSUME frames \in Seq(Calls), frames' = frames,
         frames = <<>> \/ Top.fn = "array" \/ (pc \in Holding <=> pc' \in Holding)
  PROVE  Rets' = Rets /\ Owned' = Owned /\ Local' = Local
<1>1. Rets' = Rets
  BY DEF Rets
<1>2. Len(frames) \in Nat /\ (frames = <<>> => 1..Len(frames) = {})
  BY SMT
<1>3. \A i \in 1..Len(frames) : i \in Owned' <=> i \in Owned
  BY <1>2, OwnedIs, OwnedNext DEF Top
<1>4. Owned' = Owned
  BY <1>3 DEF Owned
<1>5. QED
  BY <1>1, <1>4 DEF Local

LEMMA PushOwners ==
  ASSUME frames \in Seq(Calls), NEW c \in Calls, frames' = Append(frames, c),
         pc \in Holding, pc' \notin Holding, Apart, c.ret \notin Rets
  PROVE  /\ Rets' = Rets \cup {c.ret} /\ Owned' = Owned /\ Local' = Local
         /\ pc' # "returned" => Apart'
<1> DEFINE N == Len(frames)
<1>1. /\ frames' \in Seq(Calls) /\ Len(frames') = N + 1 /\ N \in Nat
      /\ \A i \in 1..N : frames'[i] = frames[i]
      /\ frames'[N + 1] = c
  BY Appended
<1>2. 1..(N + 1) = 1..N \cup {N + 1} /\ \A i \in 1..N : i # N + 1 /\ i \in 1..(N + 1)
  BY <1>1, SMT
<1>3. Rets' = Rets \cup {c.ret}
  BY <1>1, <1>2 DEF Rets
<1>4. \A i \in 1..N : i \in Owned' <=> i \in Owned
  BY <1>1, <1>2, OwnedIs, OwnedNext
<1>5. N + 1 \notin Owned'
  BY <1>1, <1>2, OwnedNext
<1>6. Owned' = Owned /\ Owned \subseteq 1..N
  <2>1. Owned \subseteq 1..N /\ Owned' \subseteq 1..(N + 1)
    BY <1>1 DEF Owned
  <2>2. QED
    BY <1>2, <1>4, <1>5, <2>1
<1>7. Local' = Local
  BY <1>1, <1>6 DEF Local
<1>8. ASSUME pc' # "returned" PROVE Apart'
  <2>1. \A i, j \in 1..(N + 1) : frames'[i].ret = frames'[j].ret => i = j
    <3>1. \A i \in 1..N : frames[i].ret # c.ret
      BY DEF Rets
    <3>2. QED
      BY <1>1, <1>2, <3>1 DEF Apart
  <2>2. \A i, j \in Owned : frames'[i].key = frames'[j].key => i = j
    BY <1>1, <1>6 DEF Apart
  <2>3. QED
    BY <1>1, <1>6, <1>8, <2>1, <2>2 DEF Apart
<1>9. QED
  BY <1>3, <1>6, <1>7, <1>8

LEMMA PopOwners ==
  ASSUME frames \in Seq(Calls), frames # <<>>, frames' = Pop, pc' \in {"returned", "failed"},
         Apart
  PROVE  /\ Rets' = Rets \ {Top.ret} /\ Top.ret \in Rets /\ Owned' = Owned \ {Len(frames)}
         /\ Local' = Local \ LastKey /\ LastKey \subseteq Local
         /\ (pc' = "returned" => val' \notin Rets') => Apart'
<1> DEFINE N == Len(frames)
<1>1. /\ frames' \in Seq(Calls) /\ Len(frames') = N - 1
      /\ \A i \in 1..(N - 1) : frames'[i] = frames[i] /\ i \in 1..N /\ i # N
  BY Popped
<1>2. N \in 1..N /\ Top = frames[N] /\ \A i \in 1..N : i # N => i \in 1..(N - 1)
  BY TopIs, SMT
<1>3. Rets' = Rets \ {Top.ret} /\ Top.ret \in Rets
  <2>1. \A i \in 1..(N - 1) : frames[i].ret # frames[N].ret
    BY <1>1, <1>2 DEF Apart
  <2>2. Rets = {frames[i].ret : i \in 1..N} /\ Rets' = {frames'[i].ret : i \in 1..(N - 1)}
    BY <1>1 DEF Rets
  <2> HIDE DEF N
  <2>3. Top.ret \in Rets
    BY <1>2, <2>2
  <2>4. \A r \in Rets' : r \in Rets /\ r # Top.ret
    BY <1>1, <1>2, <2>1, <2>2
  <2>5. \A r \in Rets : r = Top.ret \/ r \in Rets'
    <3> TAKE r \in Rets
    <3>1. PICK i \in 1..N : r = frames[i].ret
      BY <2>2
    <3>2. CASE i = N
      BY <1>2, <3>1, <3>2
    <3>3. CASE i # N
      <4>1. i \in 1..(N - 1) /\ frames'[i] = frames[i]
        BY <1>1, <1>2, <3>3
      <4>2. QED
        BY <2>2, <3>1, <4>1
    <3>4. QED
      BY <3>2, <3>3
  <2>6. QED
    BY <2>3, <2>4, <2>5
<1>4. Owned' = Owned \ {N} /\ \A i \in Owned' : frames'[i] = frames[i]
  <2>1. Owned \subseteq 1..N /\ Owned' \subseteq 1..(N - 1)
    BY <1>1 DEF Owned
  <2>2. \A i \in 1..(N - 1) : i \in Owned' <=> i \in Owned
    BY <1>1, OwnedIs, OwnedNext DEF Holding
  <2>3. QED
    BY <1>1, <1>2, <2>1, <2>2
<1>5. Local' = Local \ LastKey /\ LastKey \subseteq Local
  <2>1. N \in Owned => \A i \in Owned \ {N} : frames[i].key # frames[N].key
    BY DEF Apart
  <2>2. QED
    BY <1>2, <1>4, <2>1 DEF Local, LastKey
<1>6. ASSUME pc' = "returned" => val' \notin Rets' PROVE Apart'
  <2>1. \A i, j \in 1..(N - 1) : frames'[i].ret = frames'[j].ret => i = j
    BY <1>1 DEF Apart
  <2>2. \A i, j \in Owned' : frames'[i].key = frames'[j].key => i = j
    BY <1>4 DEF Apart
  <2>3. QED
    BY <1>1, <1>6, <2>1, <2>2 DEF Apart
<1>7. QED
  BY <1>3, <1>4, <1>5, <1>6

-----------------------------------------------------------------------------
(* Steps of json_decode.                                                   *)

LEMMA SameForest ==
  ASSUME UNCHANGED forest
  PROVE  /\ ForestTypeOK => ForestTypeOK'
         /\ Trees => Trees'
         /\ alive' = alive /\ Roots' = Roots /\ Attached' = Attached
BY DEF forest, ForestTypeOK, Trees, Roots, Attached, Kids, F!IsRoot

LEMMA SameApart ==
  ASSUME Apart, frames' = frames, Owned' \subseteq Owned, pc' = "returned" => val' \notin Rets'
  PROVE  Apart'
BY DEF Apart

LEMMA FreshStays ==
  ASSUME Fresh, alive \cup keys \subseteq Places, at \in Nat, at' \in Nat, at <= at',
         alive' \cup keys' \subseteq alive \cup keys
  PROVE  Fresh'
<1>1. \A x \in alive \cup keys : x \in Nat /\ x < at
  BY PlacesAre DEF Fresh
<1>2. \A x \in alive \cup keys : x < at'
  BY <1>1, SMT
<1>3. QED
  BY <1>2 DEF Fresh

LEMMA FreshGrows ==
  ASSUME Fresh, alive \cup keys \subseteq Places, at \in Nat, at' \in Nat, at < at',
         alive' \cup keys' \subseteq alive \cup keys \cup {at}
  PROVE  Fresh'
<1>1. \A x \in alive \cup keys : x \in Nat /\ x < at
  BY PlacesAre DEF Fresh
<1>2. \A x \in alive \cup keys \cup {at} : x < at'
  BY <1>1, SMT
<1>3. QED
  BY <1>2 DEF Fresh

(* What the proof of each step of json_decode begins with.                 *)
Before ==
  /\ out /\ out' /\ TypeOK /\ TypeOK' /\ Control /\ ForestTypeOK /\ NoFault /\ Held
  /\ at <= at'
After == ForestTypeOK' /\ NoFault' /\ Held'

LEMMA BeforeIs ==
  ASSUME Before
  PROVE  /\ at \in Nat /\ at' \in Nat /\ frames \in Seq(Calls)
         /\ alive \cup keys \subseteq Places /\ Rets \subseteq Roots /\ Roots \subseteq alive
         /\ Roots = Rets \cup InHand /\ keys = Local \cup Attached
         /\ Local \cap Attached = {} /\ NULL \notin Local
         /\ Trees /\ Apart /\ Fresh /\ ForestTypeOK
<1>1. at \in Nat /\ at' \in Nat /\ frames \in Seq(Calls)
  <2>1. at \in 1..(Len(text) + 1) /\ at' \in 1..(Len(text') + 1) /\ frames \in Seq(Calls)
    BY DEF Before, TypeOK
  <2>2. text \in Seq(Symbols) /\ text' \in Seq(Symbols)
    BY DEF Before, TypeOK
  <2>3. QED
    BY <2>1, <2>2, SMT
<1>2. NULL \notin Places
  BY PlacesAre
<1>3. QED
  BY <1>1, <1>2 DEF Before, Held, Kept, ForestTypeOK, Roots

(* A step that only reads.                                                 *)
LEMMA QuietStep ==
  ASSUME Before, UNCHANGED <<frames, val, keys, fault, forest>>,
         frames = <<>> \/ Top.fn = "array" \/ (pc \in Holding <=> pc' \in Holding),
         InHand' = InHand, pc' = "returned" => pc = "returned"
  PROVE  After
<1>1. Rets' = Rets /\ Owned' = Owned /\ Local' = Local
  BY BeforeIs, SameOwners
<1>2. /\ ForestTypeOK' /\ Trees' /\ alive' = alive /\ Roots' = Roots /\ Attached' = Attached
  BY BeforeIs, SameForest
<1>3. Kept'
  BY <1>1, <1>2, BeforeIs DEF Kept
<1>4. Apart'
  <2>1. pc' = "returned" => val' \notin Rets'
    BY <1>1, BeforeIs DEF Apart
  <2>2. QED
    BY <1>1, <2>1, BeforeIs, SameApart
<1>5. Fresh'
  BY <1>2, BeforeIs, FreshStays DEF Before
<1>6. QED
  BY <1>2, <1>3, <1>4, <1>5, BeforeIs DEF After, Held, NoFault, Before

LEMMA ScalarStep ==
  ASSUME Before, ParseScalar
  PROVE  After
<1>1. /\ pc = "value" /\ F!Make(at, "leaf") /\ val' = at /\ pc' = "returned"
      /\ ScalarEnd(at) # 0 /\ at' = ScalarEnd(at) /\ UNCHANGED <<frames, keys, fault>>
  BY DEF ParseScalar, MakeNode, Before
<1>2. at \in Places /\ at < at'
  <2>1. Reads /\ at \in 1..(Len(text) + 1) /\ TypeOK
    BY Reading DEF Before
  <2>2. at \in Places /\ at' \in (at + 1)..(Len(text) + 1)
    BY <1>1, <2>1, ScalarEndIs
  <2>3. QED
    BY <2>1, <2>2, BeforeIs, SMT DEF Reads
<1>3. /\ ForestTypeOK' /\ Trees' /\ at \notin alive /\ alive' = alive \cup {at}
      /\ Roots' = Roots \cup {at} /\ Attached' = Attached
  BY <1>1, <1>2, BeforeIs, NodeMade
<1>4. Rets' = Rets /\ Owned' = Owned /\ Local' = Local
  BY <1>1, BeforeIs, SameOwners DEF Holding
<1>5. Kept'
  BY <1>1, <1>3, <1>4, BeforeIs DEF Kept, InHand
<1>6. Apart'
  BY <1>1, <1>3, <1>4, BeforeIs, SameApart
<1>7. Fresh'
  BY <1>1, <1>2, <1>3, BeforeIs, FreshGrows
<1>8. QED
  BY <1>1, <1>3, <1>5, <1>6, <1>7, BeforeIs DEF After, Held, NoFault, Before

LEMMA OpenStep ==
  ASSUME Before, OpenContainer
  PROVE  After
<1> DEFINE t == IF Ch(at) = "[" THEN "array" ELSE "object"
           c == [fn |-> t, ret |-> at, key |-> NULL]
<1>1. /\ pc = "value" /\ F!Make(at, t) /\ pc' = "first" /\ frames' = Append(frames, c)
      /\ Ch(at) # "end" /\ at' = SkipSpace(at + 1) /\ UNCHANGED <<keys, fault, val>>
  BY DEF OpenContainer, MakeNode, Before
<1>2. at \in Places /\ at < at'
  <2>1. Reads /\ at \in 1..(Len(text) + 1) /\ TypeOK
    BY Reading DEF Before
  <2>2. at \in Places /\ at' \in (at + 1)..(Len(text) + 1)
    BY <1>1, <2>1, MarkIs
  <2>3. QED
    BY <2>1, <2>2, BeforeIs, SMT DEF Reads
<1>3. c \in Calls /\ c.ret = at
  BY <1>2 DEF Calls
<1> HIDE DEF c, t
<1>4. /\ ForestTypeOK' /\ Trees' /\ at \notin alive /\ alive' = alive \cup {at}
      /\ Roots' = Roots \cup {at} /\ Attached' = Attached
  BY <1>1, <1>2, BeforeIs, NodeMade
<1>5. Rets' = Rets \cup {at} /\ Local' = Local /\ Apart'
  BY <1>1, <1>3, <1>4, BeforeIs, PushOwners DEF Holding
<1>6. Kept'
  BY <1>1, <1>4, <1>5, BeforeIs DEF Kept, InHand
<1>7. Fresh'
  BY <1>1, <1>2, <1>4, BeforeIs, FreshGrows
<1>8. QED
  BY <1>1, <1>4, <1>5, <1>6, <1>7, BeforeIs DEF After, Held, NoFault, Before

LEMMA CloseStep ==
  ASSUME Before, Close
  PROVE  After
<1>1. /\ pc \in {"first", "separator"} /\ frames # <<>> /\ frames' = Pop /\ val' = Top.ret
      /\ pc' = "returned" /\ UNCHANGED <<keys, fault, forest>>
  BY DEF Close, Before, Control
<1>2. /\ ForestTypeOK' /\ Trees' /\ alive' = alive /\ Roots' = Roots /\ Attached' = Attached
  BY <1>1, BeforeIs, SameForest
<1>3. LastKey = {}
  BY <1>1, BeforeIs, OwnedIs, TopIs DEF LastKey, Holding
<1>4. Rets' = Rets \ {Top.ret} /\ Top.ret \in Rets /\ Local' = Local /\ Apart'
  BY <1>1, <1>3, BeforeIs, PopOwners
<1>5. Kept'
  BY <1>1, <1>2, <1>4, BeforeIs DEF Kept, InHand
<1>6. Fresh'
  BY <1>1, <1>2, BeforeIs, FreshStays DEF Before
<1>7. QED
  BY <1>1, <1>2, <1>4, <1>5, <1>6, BeforeIs DEF After, Held, NoFault, Before

LEMMA KeyStep ==
  ASSUME Before, ParseKey
  PROVE  After
<1>1. /\ pc = "key" /\ Ch(at) # "end" /\ at' = SkipSpace(at + 1) /\ pc' = "colon"
      /\ frames # <<>> /\ Top.fn = "object" /\ keys' = keys \cup {at}
      /\ frames' = [frames EXCEPT ![Len(frames)].key = at]
      /\ UNCHANGED <<val, fault, forest>>
  BY DEF ParseKey, Before, Control, Strings
<1>2. at \in Places /\ at < at'
  <2>1. Reads /\ at \in 1..(Len(text) + 1) /\ TypeOK
    BY Reading DEF Before
  <2>2. at \in Places /\ at' \in (at + 1)..(Len(text) + 1)
    BY <1>1, <2>1, MarkIs
  <2>3. QED
    BY <2>1, <2>2, BeforeIs, SMT DEF Reads
<1>3. KeyGiven(frames', at)
  BY <1>1, <1>2, BeforeIs, Keyed
<1> DEFINE N == Len(frames)
<1>4. /\ Len(frames') = N /\ N \in 1..N /\ frames'[N].key = at
      /\ \A i \in 1..N : /\ frames'[i].ret = frames[i].ret /\ frames'[i].fn = frames[i].fn
                         /\ i # N => frames'[i] = frames[i]
      /\ Top = frames[N]
  BY <1>1, <1>3, BeforeIs, TopIs DEF KeyGiven
<1>5. at \notin keys
  BY <1>2, BeforeIs, SMT DEF Fresh
<1>6. Owned' = Owned \cup {N} /\ N \notin Owned /\ Owned \subseteq 1..N
  <2>1. \A i \in 1..N : i \in Owned' <=> (i \in Owned \/ i = N)
    BY <1>1, <1>3, <1>4, BeforeIs, OwnedIs, OwnedNext DEF KeyGiven, Holding
  <2>2. Owned' \subseteq 1..N /\ Owned \subseteq 1..N
    BY <1>4 DEF Owned
  <2>3. N \notin Owned
    BY <1>1, <1>4, BeforeIs, OwnedIs DEF Holding
  <2>4. QED
    BY <1>4, <2>1, <2>2, <2>3
<1>7. Rets' = Rets
  BY <1>4 DEF Rets
<1>8. Local' = Local \cup {at} /\ at \notin Local
  <2>1. \A i \in Owned : frames'[i].key = frames[i].key
    BY <1>4, <1>6
  <2>2. Local' = {frames'[i].key : i \in Owned \cup {N}}
    BY <1>6 DEF Local
  <2>3. {frames'[i].key : i \in Owned \cup {N}}
          = {frames[i].key : i \in Owned} \cup {frames'[N].key}
    BY <2>1
  <2>4. Local' = Local \cup {at}
    BY <1>4, <2>2, <2>3 DEF Local
  <2>5. QED
    BY <1>5, <2>4, BeforeIs
<1>9. /\ ForestTypeOK' /\ Trees' /\ alive' = alive /\ Roots' = Roots /\ Attached' = Attached
  BY <1>1, BeforeIs, SameForest
<1>10. Kept'
  BY <1>1, <1>5, <1>7, <1>8, <1>9, BeforeIs DEF Kept, InHand
<1>11. Apart'
  <2>1. \A i, j \in 1..N : frames'[i].ret = frames'[j].ret => i = j
    BY <1>4, BeforeIs DEF Apart
  <2>2. \A i \in Owned : frames'[i].key = frames[i].key /\ frames[i].key # at
    BY <1>4, <1>6, <1>8 DEF Local
  <2>3. \A i, j \in Owned' : frames'[i].key = frames'[j].key => i = j
    BY <1>4, <1>6, <2>2, BeforeIs DEF Apart
  <2>4. QED
    BY <1>1, <1>4, <2>1, <2>3 DEF Apart
<1>12. Fresh'
  BY <1>1, <1>2, <1>9, BeforeIs, FreshGrows
<1>13. QED
  BY <1>1, <1>2, <1>9, <1>10, <1>11, <1>12, BeforeIs DEF After, Held, NoFault, Before

LEMMA AppendStep ==
  ASSUME Before, AppendValue
  PROVE  After
<1> DEFINE p == Top.ret
           k == Top.key
<1>1. /\ pc = "returned" /\ frames # <<>> /\ F!AddLast(p, val, k) /\ pc' = "separator"
      /\ UNCHANGED <<frames, val, keys, fault>>
  BY DEF AppendValue, Before
<1>2. p \in Rets /\ Len(frames) \in 1..Len(frames) /\ Top = frames[Len(frames)]
  BY <1>1, BeforeIs, TopIs DEF Rets
<1>3. val \in Roots /\ val # p
  BY <1>1, <1>2, BeforeIs DEF InHand, Apart
<1>4. k \in Places \cup {NULL} /\ k \notin Attached
  <2>1. k \in Places \cup {NULL} /\ Top.fn \in {"array", "object"}
    BY <1>1, BeforeIs, TopIs
  <2>2. CASE Top.fn = "array"
    BY <1>1, <2>2, BeforeIs, Arrays DEF Attached, Before
  <2>3. CASE Top.fn = "object"
    <3>1. Len(frames) \in Owned
      BY <1>1, <1>2, <2>3, BeforeIs, OwnedIs DEF Holding
    <3>2. k \in Local
      BY <1>2, <3>1 DEF Local
    <3>3. QED
      BY <2>1, <3>2, BeforeIs
  <2>4. QED
    BY <2>1, <2>2, <2>3
<1>5. /\ ForestTypeOK' /\ Trees' /\ alive' = alive
      /\ Roots' = Roots \ {val} /\ Attached' = Attached \cup ({k} \ {NULL})
  <2>1. p \in Places /\ val \in Places
    BY <1>2, <1>3, BeforeIs
  <2> HIDE DEF p, k
  <2>2. QED
    BY <1>1, <1>3, <1>4, <2>1, BeforeIs, NodeAdded
<1>6. Rets' = Rets
  BY <1>1 DEF Rets
<1>7. Owned' = Owned \ {Len(frames)}
  <2>1. \A i \in 1..Len(frames) : i \in Owned' <=> i \in Owned /\ i # Len(frames)
    BY <1>1, BeforeIs, OwnedIs, OwnedNext DEF Holding
  <2>2. Owned' \subseteq 1..Len(frames) /\ Owned \subseteq 1..Len(frames)
    BY <1>1 DEF Owned
  <2>3. QED
    BY <2>1, <2>2
<1>8. Local' \cup ({k} \ {NULL}) = Local /\ k \notin Local'
  <2>1. Local' = {frames[i].key : i \in Owned \ {Len(frames)}}
    BY <1>1, <1>7 DEF Local
  <2>2. CASE Len(frames) \in Owned
    <3>1. k \in Local /\ k = frames[Len(frames)].key
      BY <1>2, <2>2 DEF Local
    <3>2. \A i \in Owned \ {Len(frames)} : frames[i].key # k
      BY <1>2, <2>2, BeforeIs DEF Apart
    <3>3. Local' \cup {k} = Local
      BY <2>1, <2>2, <3>1 DEF Local
    <3>4. QED
      BY <2>1, <3>1, <3>2, <3>3, BeforeIs
  <2>3. CASE Len(frames) \notin Owned
    <3>1. Local' = Local
      BY <2>1, <2>3 DEF Local
    <3>2. Top.fn = "array"
      BY <1>1, <1>2, <2>3, BeforeIs, OwnedIs, TopIs DEF Holding
    <3>3. k = NULL
      BY <1>1, <3>2, BeforeIs, Arrays DEF Before
    <3>4. QED
      BY <3>1, <3>3, BeforeIs
  <2>4. QED
    BY <2>2, <2>3
<1>9. Kept'
  <2>1. val \notin Rets /\ InHand = {val} /\ InHand' = {}
    BY <1>1, BeforeIs DEF InHand, Apart
  <2>2. Roots' = Rets' \cup InHand'
    BY <1>5, <1>6, <2>1, BeforeIs
  <2>3. keys' = Local' \cup Attached' /\ Local' \cap Attached' = {}
    BY <1>1, <1>5, <1>8, BeforeIs
  <2>4. QED
    BY <2>2, <2>3 DEF Kept
<1>10. Apart'
  BY <1>1, <1>7, BeforeIs, SameApart
<1>11. Fresh'
  BY <1>1, <1>5, BeforeIs, FreshStays DEF Before
<1>12. QED
  BY <1>1, <1>5, <1>9, <1>10, <1>11, BeforeIs DEF After, Held, NoFault, Before

(* What a step may free: keys in hand and a root with all that is below.   *)
LEMMA Deleted ==
  ASSUME Before, NEW freed, freed \subseteq Local, NEW n \in Roots, FreeAndDelete(freed, n)
  PROVE  /\ ForestTypeOK' /\ Trees' /\ alive' \subseteq alive /\ Roots' = Roots \ {n}
         /\ keys' = (Local \ freed) \cup Attached' /\ keys' \subseteq keys
         /\ Attached' \subseteq Attached /\ NoFault'
<1>1. /\ F!Delete(n) /\ keys' = keys \ (freed \cup Below(n))
      /\ fault' = (fault \/ ~ freed \subseteq keys \/ ~ Below(n) \subseteq keys \ freed)
  BY DEF FreeAndDelete, Below, Before
<1>2. /\ ForestTypeOK' /\ Trees' /\ alive' \subseteq alive /\ Roots' = Roots \ {n}
      /\ Attached' = Attached \ Below(n) /\ Below(n) \subseteq Attached
  BY <1>1, BeforeIs, NodeDeleted
<1>3. keys' = (Local \ freed) \cup Attached' /\ keys' \subseteq keys
  BY <1>1, <1>2, BeforeIs
<1>4. NoFault'
  <2>1. freed \subseteq keys /\ Below(n) \subseteq keys \ freed
    BY <1>2, BeforeIs
  <2>2. ~ fault
    BY DEF Before, NoFault
  <2>3. QED
    BY <1>1, <2>1, <2>2 DEF NoFault
<1>5. QED
  BY <1>2, <1>3, <1>4

LEMMA GiveUpStep ==
  ASSUME Before, frames # <<>>, pc # "returned", pc # "accepted", GiveUp(LastKey)
  PROVE  After
<1>1. /\ FreeAndDelete(LastKey, Top.ret) /\ frames' = Pop /\ pc' = "failed" /\ val' = val
  BY DEF GiveUp
<1>2. /\ Rets' = Rets \ {Top.ret} /\ Top.ret \in Rets /\ Local' = Local \ LastKey
      /\ LastKey \subseteq Local /\ Apart'
  BY <1>1, BeforeIs, PopOwners
<1>3. Top.ret \in Roots
  BY <1>2, BeforeIs
<1>4. /\ ForestTypeOK' /\ Trees' /\ alive' \subseteq alive /\ Roots' = Roots \ {Top.ret}
      /\ keys' = (Local \ LastKey) \cup Attached' /\ keys' \subseteq keys
      /\ Attached' \subseteq Attached /\ NoFault'
  BY <1>1, <1>2, <1>3, Deleted
<1>5. Kept'
  <2>1. InHand = {} /\ InHand' = {}
    BY <1>1 DEF InHand
  <2>2. Roots' = Rets' \cup InHand'
    BY <1>2, <1>4, <2>1, BeforeIs
  <2>3. keys' = Local' \cup Attached' /\ Local' \cap Attached' = {}
    BY <1>2, <1>4, BeforeIs
  <2>4. QED
    BY <2>2, <2>3 DEF Kept
<1>6. Fresh'
  BY <1>4, BeforeIs, FreshStays DEF Before
<1>7. QED
  BY <1>2, <1>4, <1>5, <1>6, BeforeIs DEF After, Held

(* The keys that are freed on the ways out are the last call's own.        *)
LEMMA WaysOut ==
  ASSUME Before, NoKey \/ NoColon \/ NoComma \/ ValueFailed
  PROVE  frames # <<>> /\ pc # "returned" /\ pc # "accepted" /\ GiveUp(LastKey)
<1>1. frames # <<>> /\ pc \in {"key", "colon", "separator", "failed"}
  BY DEF NoKey, NoColon, NoComma, ValueFailed, Before, Control
<1>2. /\ LastKey = IF Top.fn = "object" /\ pc \in Holding THEN {Top.key} ELSE {}
      /\ Top.fn \in {"array", "object"}
  BY <1>1, BeforeIs, OwnedIs, TopIs DEF LastKey
<1>3. CASE NoKey
  BY <1>1, <1>2, <1>3 DEF NoKey, Holding
<1>4. CASE NoColon
  <2>1. Top.fn = "object"
    BY <1>4 DEF NoColon, Before, Control
  <2>2. QED
    BY <1>1, <1>2, <1>4, <2>1 DEF NoColon, Holding
<1>5. CASE NoComma
  BY <1>1, <1>2, <1>5 DEF NoComma, Holding
<1>6. CASE ValueFailed
  BY <1>1, <1>2, <1>6 DEF ValueFailed, Holding
<1>7. QED
  BY <1>3, <1>4, <1>5, <1>6

LEMMA RestStep ==
  ASSUME Before, RejectRest
  PROVE  After
<1>1. /\ pc = "returned" /\ frames = <<>> /\ FreeAndDelete({}, val)
      /\ pc' = "rejected" /\ UNCHANGED <<frames, val>>
  BY DEF RejectRest, Return
<1>2. val \in Roots /\ InHand = {val} /\ InHand' = {} /\ val \notin Rets
  BY <1>1, BeforeIs DEF InHand, Apart
<1>3. Rets' = Rets /\ Owned' = Owned /\ Local' = Local
  BY <1>1, BeforeIs, SameOwners
<1>4. /\ ForestTypeOK' /\ Trees' /\ alive' \subseteq alive /\ Roots' = Roots \ {val}
      /\ keys' = (Local \ {}) \cup Attached' /\ keys' \subseteq keys
      /\ Attached' \subseteq Attached /\ NoFault'
  BY <1>1, <1>2, Deleted
<1>5. Kept'
  <2>1. Roots' = Rets' \cup InHand'
    BY <1>2, <1>3, <1>4, BeforeIs
  <2>2. keys' = Local' \cup Attached' /\ Local' \cap Attached' = {}
    BY <1>3, <1>4, BeforeIs
  <2>3. QED
    BY <2>1, <2>2 DEF Kept
<1>6. Apart'
  BY <1>1, <1>3, BeforeIs, SameApart
<1>7. Fresh'
  BY <1>4, BeforeIs, FreshStays DEF Before
<1>8. QED
  BY <1>4, <1>5, <1>6, <1>7, BeforeIs DEF After, Held

(* The steps that only read.                                               *)
LEMMA ReadStep ==
  ASSUME Before, \/ NoValue \/ NotEmpty \/ Colon \/ Comma \/ Accept \/ Reject
                 \/ UNCHANGED vars
  PROVE  After
<1>1. CASE NoValue
  BY <1>1, QuietStep DEF NoValue, Holding, InHand
<1>2. ASSUME pc \in {"first", "separator"}, pc' = LoopStart
      PROVE  /\ Top.fn = "array" \/ (pc \in Holding <=> pc' \in Holding)
             /\ InHand' = InHand /\ pc' # "returned"
  BY <1>2 DEF LoopStart, Holding, InHand
<1>3. CASE NotEmpty
  BY <1>2, <1>3, QuietStep DEF NotEmpty
<1>4. CASE Colon
  BY <1>4, QuietStep DEF Colon, Holding, InHand
<1>5. CASE Comma
  BY <1>2, <1>5, QuietStep DEF Comma
<1>6. CASE Accept
  BY <1>6, QuietStep DEF Accept, Return, InHand
<1>7. CASE Reject
  BY <1>7, QuietStep DEF Reject, Return, InHand
<1>8. CASE UNCHANGED vars
  <2>1. UNCHANGED <<frames, val, keys, fault, forest>> /\ pc' = pc
    BY <1>8 DEF vars
  <2>2. QED
    BY <2>1, QuietStep DEF InHand
<1>9. QED
  BY <1>1, <1>3, <1>4, <1>5, <1>6, <1>7, <1>8

-----------------------------------------------------------------------------
(* The invariant.                                                          *)

(* json_validate allocates nothing.                                        *)
LEMMA ValidateStep ==
  ASSUME ~ out, [Next]_vars
  PROVE  UNCHANGED <<out, keys, fault, forest>>
<1>1. CASE ParseScalar \/ OpenContainer
  BY <1>1 DEF ParseScalar, OpenContainer, MakeNode
<1>2. CASE NoValue \/ NotEmpty \/ Close \/ Colon \/ Comma \/ Accept \/ Reject
  BY <1>2 DEF NoValue, NotEmpty, Close, Colon, Comma, Accept, Reject, Return
<1>3. CASE ParseKey \/ AppendValue
  BY <1>3 DEF ParseKey, AppendValue
<1>4. CASE NoKey \/ NoColon \/ NoComma \/ ValueFailed \/ RejectRest
  <2>1. \E freed, n : FreeAndDelete(freed, n) /\ UNCHANGED out
    BY <1>4 DEF NoKey, NoColon, NoComma, ValueFailed, RejectRest, GiveUp, Return
  <2>2. QED
    BY <2>1 DEF FreeAndDelete
<1>5. CASE UNCHANGED vars
  BY <1>5 DEF vars
<1>6. QED
  BY <1>1, <1>2, <1>3, <1>4, <1>5 DEF Next

LEMMA OutStays ==
  ASSUME [Next]_vars
  PROVE  out' = out
<1>1. CASE ParseScalar \/ NoValue \/ OpenContainer \/ NotEmpty \/ Close
  BY <1>1 DEF ParseScalar, NoValue, OpenContainer, NotEmpty, Close
<1>2. CASE ParseKey \/ Colon \/ AppendValue \/ Comma
  BY <1>2 DEF ParseKey, Colon, AppendValue, Comma
<1>3. CASE NoKey \/ NoColon \/ NoComma \/ ValueFailed
  BY <1>3 DEF NoKey, NoColon, NoComma, ValueFailed, GiveUp
<1>4. CASE Accept \/ RejectRest \/ Reject
  BY <1>4 DEF Accept, RejectRest, Reject, Return
<1>5. CASE UNCHANGED vars
  BY <1>5 DEF vars
<1>6. QED
  BY <1>1, <1>2, <1>3, <1>4, <1>5 DEF Next

LEMMA DecodeStep ==
  ASSUME Before, [Next]_vars
  PROVE  After
<1>1. CASE NoKey \/ NoColon \/ NoComma \/ ValueFailed
  BY <1>1, WaysOut, GiveUpStep
<1>2. CASE \/ NoValue \/ NotEmpty \/ Colon \/ Comma \/ Accept \/ Reject \/ UNCHANGED vars
  BY <1>2, ReadStep
<1>3. QED
  BY <1>1, <1>2, ScalarStep, OpenStep, CloseStep, KeyStep, AppendStep, RestStep DEF Next

LEMMA ParseStep ==
  ASSUME ParseInv, [Next]_vars
  PROVE  ParseInv'
<1>1. TypeOK' /\ Control' /\ at' >= at /\ out' = out
  BY StepControl, OutStays DEF ParseInv
<1>2. CASE out
  <2>1. at <= at'
    BY <1>1, SMT DEF ParseInv, TypeOK
  <2>2. Before
    BY <1>1, <1>2, <2>1 DEF Before, ParseInv
  <2>3. After
    BY <2>2, DecodeStep
  <2>4. QED
    BY <1>1, <1>2, <2>3 DEF After, ParseInv
<1>3. CASE ~ out
  <2>1. UNCHANGED <<out, keys, fault, forest>>
    BY <1>3, ValidateStep
  <2>2. ForestTypeOK' /\ alive' = alive
    BY <2>1, SameForest DEF ParseInv
  <2>3. QED
    BY <1>1, <1>3, <2>1, <2>2 DEF ParseInv, NoFault
<1>4. QED
  BY <1>2, <1>3

LEMMA ParseInit ==
  ASSUME Init
  PROVE  ParseInv
<1>1. /\ text \in Seq(Symbols) /\ Len(text) \in Nat /\ Len(text) <= MaxLen /\ out \in BOOLEAN
      /\ pc = "value" /\ at = SkipSpace(1) /\ frames = <<>> /\ val = NULL
      /\ keys = {} /\ ~ fault
  BY JsonParseAssumption DEF Init
<1>2. /\ alive = {} /\ kids = [n \in Places |-> <<>>] /\ names = [n \in Places |-> NULL]
  BY DEF Init, F!Init
<1>3. TypeOK
  <2>1. Reads
    BY <1>1, PlacesAre DEF Reads
  <2>2. 1 \in 1..(Len(text) + 1)
    BY <1>1, SMT
  <2>3. SkipAll({"sp"}, 1) \in 1..(Len(text) + 1)
    BY <2>1, <2>2, SkipIs
  <2>4. <<>> \in Seq(Calls)
    BY SMT
  <2>5. QED
    BY <1>1, <2>3, <2>4 DEF TypeOK, SkipSpace
<1>4. ForestTypeOK
  <2>1. <<>> \in Seq(Places)
    BY SMT
  <2>2. QED
    BY <1>2, <2>1 DEF ForestTypeOK
<1>5. 1..Len(frames) = {}
  BY <1>1, SMT
<1>6. Control
  BY <1>1, <1>5 DEF Control
<1>7. Rets = {} /\ InHand = {} /\ Roots = {} /\ Owned = {} /\ Local = {} /\ Attached = {}
  BY <1>1, <1>2, <1>5 DEF Rets, InHand, Roots, Owned, Local, Attached
<1>8. Trees
  <2>1. F!ToSet(<<>>) = {}
    <3>1. DOMAIN <<>> = {}
      BY SMT
    <3>2. QED
      BY <3>1 DEF F!ToSet
  <2>2. \A p \in Places : Kids(p) = {}
    BY <1>2, <2>1 DEF Kids
  <2>3. QED
    BY <1>2, <1>7, <2>2 DEF Trees
<1>9. Kept /\ Apart /\ Fresh
  BY <1>1, <1>2, <1>5, <1>7 DEF Kept, Apart, Fresh
<1>10. QED
  BY <1>1, <1>2, <1>3, <1>4, <1>6, <1>8, <1>9 DEF ParseInv, Held, NoFault

(* Whatever the text, json_decode and json_validate free nothing that is   *)
(* not allocated: on every way out of parse_array and parse_object, at     *)
(* every depth, the key is freed by exactly one of the local variable's    *)
(* owner and json_delete of the object that has taken it over.             *)
THEOREM FreesWhatItHas == Spec => []NoFault
<1>1. Init => ParseInv
  BY ParseInit
<1>2. ParseInv /\ [Next]_vars => ParseInv'
  BY ParseStep
<1>3. ParseInv => NoFault
  BY DEF ParseInv
<1>4. QED
  BY <1>1, <1>2, <1>3, PTL DEF Spec

(* Whatever the text, json_decode loses neither a node nor a key: at every *)
(* step each root is held by exactly the call that builds it or by the     *)
(* caller, each key by one call or by the node it is attached to; so a     *)
(* rejected text leaves nothing behind and an accepted one a single tree.  *)
(* json_validate never allocates anything.                                 *)
THEOREM LosesNothing == Spec => []NothingLost
<1>1. Init => ParseInv
  BY ParseInit
<1>2. ParseInv /\ [Next]_vars => ParseInv'
  BY ParseStep
<1>3. ParseInv => NothingLost
  BY NothingLostIs DEF ParseInv, Held
<1>4. QED
  BY <1>1, <1>2, <1>3, PTL DEF Spec

-----------------------------------------------------------------------------
(* The grammar's recursive definition, and what it says of a text.         *)

Parts(t) == {"value", "elements", "members"} \X (1..(Len(t) + 1)) \X (0..Len(t))

First(is, t, k, i, c) ==
  IF k = "elements" THEN is[<<"value", i, c>>]
  ELSE i + 2 <= c /\ t[i] \in Strings /\ t[i + 1] = ":" /\ is[<<"value", i + 2, c>>]

Inside(is, list, i, j) == j = i + 1 \/ is[<<list, i + 1, j - 1>>]

ValuePart(is, t, i, j) ==
  /\ i <= j
  /\ \/ IsScalar(SubSeq(t, i, j))
     \/ t[i] = "[" /\ t[j] = "]" /\ Inside(is, "elements", i, j)
     \/ t[i] = "{" /\ t[j] = "}" /\ Inside(is, "members", i, j)

ListPart(is, t, k, i, j) ==
  \/ First(is, t, k, i, j)
  \/ \E c \in 1..Len(t) : /\ i < c /\ c < j /\ t[c] = ","
                          /\ First(is, t, k, i, c - 1) /\ is[<<k, c + 1, j>>]

Part(is, t, p) ==
  IF p[1] = "value" THEN ValuePart(is, t, p[2], p[3]) ELSE ListPart(is, t, p[1], p[2], p[3])

IsTable(is, t) == is = [p \in Parts(t) |-> Part(is, t, p)]

Table(t) == CHOOSE is : IsTable(is, t)

LEMMA ValueIs ==
  ASSUME NEW t
  PROVE  IsValue(t) = Table(t)[<<"value", 1, Len(t)>>]
BY Zenon DEF IsValue, Table, IsTable, Parts, Part, ValuePart, ListPart, First, Inside

(* A part of a text is longer than those it is made of; a list is made of  *)
(* its first value too.                                                    *)
Height(t, p) == 2 * (Len(t) + p[3] - p[2] + 1) + (IF p[1] = "value" THEN 0 ELSE 1)

LEMMA PartDepends ==
  ASSUME NEW t, Len(t) \in Nat,
         NEW f \in [Parts(t) -> BOOLEAN], NEW g \in [Parts(t) -> BOOLEAN], NEW p \in Parts(t),
         \A q \in Parts(t) : Height(t, q) < Height(t, p) => f[q] = g[q]
  PROVE  Part(f, t, p) = Part(g, t, p)
<1> DEFINE n == Len(t)
           k == p[1]
           i == p[2]
           j == p[3]
<1>1. /\ n \in Nat /\ k \in {"value", "elements", "members"}
      /\ i \in 1..(n + 1) /\ j \in 0..n /\ p = <<k, i, j>>
  BY DEF Parts
<1>2. ASSUME NEW l \in {"value", "elements", "members"}, NEW a \in Int, NEW b \in Int,
             i <= a, a <= n + 1, 0 <= b, b <= j,
             a + j - i - b > 0 \/ (k # "value" /\ l = "value")
      PROVE  f[<<l, a, b>>] = g[<<l, a, b>>]
  <2>1. <<l, a, b>> \in Parts(t)
    BY <1>1, <1>2 DEF Parts
  <2>2. /\ Height(t, <<l, a, b>>) = 2 * (n + b - a + 1) + (IF l = "value" THEN 0 ELSE 1)
        /\ Height(t, p) = 2 * (n + j - i + 1) + (IF k = "value" THEN 0 ELSE 1)
    BY DEF Height
  <2> HIDE DEF n, k, i, j
  <2>3. Height(t, <<l, a, b>>) < Height(t, p)
    BY <1>1, <1>2, <2>2
  <2>4. QED
    BY <2>1, <2>3
<1> HIDE DEF n, k, i, j
<1>3. CASE k = "value" /\ i <= j
  <2>1. \A l \in {"elements", "members"} : Inside(f, l, i, j) = Inside(g, l, i, j)
    <3> SUFFICES ASSUME NEW l \in {"elements", "members"}
                 PROVE  Inside(f, l, i, j) = Inside(g, l, i, j)
      OBVIOUS
    <3>1. f[<<l, i + 1, j - 1>>] = g[<<l, i + 1, j - 1>>]
      BY <1>1, <1>2, <1>3
    <3>2. QED
      BY <3>1 DEF Inside
  <2>2. ValuePart(f, t, i, j) = ValuePart(g, t, i, j)
    BY <2>1, Zenon DEF ValuePart
  <2>3. QED
    BY <1>3, <2>2, Zenon DEF Part, i, j, k
<1>4. CASE k = "value" /\ ~(i <= j)
  BY <1>4, Zenon DEF Part, ValuePart, i, j, k
<1>5. CASE k # "value"
  <2>1. \A c \in 0..n : c <= j => First(f, t, k, i, c) = First(g, t, k, i, c)
    <3> SUFFICES ASSUME NEW c \in 0..n, c <= j
                 PROVE  First(f, t, k, i, c) = First(g, t, k, i, c)
      OBVIOUS
    <3>1. f[<<"value", i, c>>] = g[<<"value", i, c>>]
      BY <1>1, <1>2, <1>5
    <3>2. i + 2 <= c => f[<<"value", i + 2, c>>] = g[<<"value", i + 2, c>>]
      BY <1>1, <1>2, <1>5
    <3>3. QED
      BY <3>1, <3>2, Zenon DEF First
  <2>2. ASSUME NEW c \in 1..n, i < c, c < j
        PROVE  First(f, t, k, i, c - 1) = First(g, t, k, i, c - 1)
               /\ f[<<k, c + 1, j>>] = g[<<k, c + 1, j>>]
    <3>1. c - 1 \in 0..n /\ c - 1 <= j
      BY <1>1, <2>2
    <3>2. f[<<k, c + 1, j>>] = g[<<k, c + 1, j>>]
      BY <1>1, <1>2, <2>2
    <3>3. QED
      BY <2>1, <3>1, <3>2
  <2>3. ListPart(f, t, k, i, j) = ListPart(g, t, k, i, j)
    <3>1. j \in 0..n /\ j <= j
      BY <1>1
    <3>2. First(f, t, k, i, j) = First(g, t, k, i, j)
      BY <2>1, <3>1
    <3>3. QED
      BY <2>2, <3>2, Zenon DEF ListPart, n
  <2>4. QED
    BY <1>5, <2>3, Zenon DEF Part, i, j, k
<1>6. QED
  BY <1>3, <1>4, <1>5

LEMMA TableIs ==
  ASSUME NEW t, Len(t) \in Nat
  PROVE  IsTable(Table(t), t) /\ Table(t) \in [Parts(t) -> BOOLEAN]
<1> DEFINE D    == Parts(t)
           step == [f \in [D -> BOOLEAN] |-> [p \in D |-> Part(f, t, p)]]
           rank == [p \in D |-> Height(t, p)]
           N    == 4 * Len(t) + 1
<1>1. \A f \in [D -> BOOLEAN], p \in D : Part(f, t, p) \in BOOLEAN
  BY DEF Part, ValuePart, ListPart
<1>2. step \in [[D -> BOOLEAN] -> [D -> BOOLEAN]]
  BY <1>1
<1>3. rank \in [D -> 0..N] /\ N \in Nat
  <2>1. \A p \in D : Height(t, p) \in 0..N
    BY DEF Parts, Height
  <2>2. QED
    BY <2>1
<1>4. DependsBelow(step, rank, D, BOOLEAN)
  <2> SUFFICES ASSUME NEW f \in [D -> BOOLEAN], NEW g \in [D -> BOOLEAN], NEW p \in D,
                      \A q \in D : rank[q] < rank[p] => f[q] = g[q]
               PROVE  step[f][p] = step[g][p]
    BY DEF DependsBelow
  <2>1. \A q \in D : Height(t, q) < Height(t, p) => f[q] = g[q]
    OBVIOUS
  <2>2. Part(f, t, p) = Part(g, t, p)
    BY <2>1, PartDepends
  <2>3. QED
    BY <2>2
<1> HIDE DEF D, rank, N
<1>5. HasFixpoint(step, D, BOOLEAN)
  <2> HIDE DEF step
  <2>1. TRUE \in BOOLEAN
    OBVIOUS
  <2>2. QED
    BY <1>2, <1>3, <1>4, <2>1, Recursion
<1>6. PICK f \in [D -> BOOLEAN] : f = step[f]
  BY <1>5 DEF HasFixpoint
<1>7. IsTable(f, t)
  BY <1>6 DEF IsTable, D
<1>8. IsTable(Table(t), t)
  BY <1>7, Zenon DEF Table
<1>9. Table(t) \in [D -> BOOLEAN]
  <2> DEFINE is == Table(t)
  <2>1. is = [p \in D |-> Part(is, t, p)]
    BY <1>8 DEF IsTable, D
  <2>2. \A p \in D : Part(is, t, p) \in BOOLEAN
    BY DEF Part, ValuePart, ListPart
  <2> HIDE DEF is
  <2>3. is \in [D -> BOOLEAN]
    BY <2>1, <2>2
  <2>4. QED
    BY <2>3 DEF is
<1>10. QED
  BY <1>8, <1>9 DEF D

-----------------------------------------------------------------------------
(* Numbers: where the parts of one end in the text.                        *)

(* From x to the place before y there are digits only.                     *)
Run(x, y) == x < y /\ \A m \in x..(y - 1) : Ch(m) \in Digits

LEMMA RunEnds ==
  ASSUME Reads, NEW i \in 1..(Len(text) + 1)
  PROVE  /\ DigitsEnd(i) # 0 => Run(i, DigitsEnd(i)) /\ Ch(DigitsEnd(i)) \notin Digits
         /\ \A e \in 1..(Len(text) + 1) :
              Run(i, e) /\ Ch(e) \notin Digits => DigitsEnd(i) = e
<1> DEFINE T == {j \in i..(Len(text) + 1) : Ch(j) \notin Digits /\ \A m \in i..(j - 1) : Ch(m) \in Digits}
<1>0. "end" \notin Digits
  BY DEF Digits
<1>1. \E j \in i..(Len(text) + 1) : j \in T
  <2> DEFINE B == {j \in i..(Len(text) + 1) : Ch(j) \notin Digits}
  <2>1. Len(text) + 1 \in B /\ B \in SUBSET Nat
    BY <1>0, ChIs, SMT DEF Reads
  <2> HIDE DEF B
  <2>2. PICK j \in B : \A k \in B : j <= k
    BY <2>1, Least
  <2>3. j \in i..(Len(text) + 1) /\ Ch(j) \notin Digits
    BY DEF B
  <2>4. ASSUME NEW m \in i..(j - 1) PROVE Ch(m) \in Digits
    <3>1. m \in i..(Len(text) + 1) /\ ~(j <= m)
      BY <2>3, SMT DEF Reads
    <3>2. QED
      BY <2>2, <3>1 DEF B
  <2>5. QED
    BY <2>3, <2>4
<1>2. SkipAll(Digits, i) = CHOOSE j \in i..(Len(text) + 1) : j \in T
  BY Zenon DEF SkipAll
<1>3. SkipAll(Digits, i) \in T
  <2> HIDE DEF T
  <2>1. QED
    BY <1>1, <1>2
<1>4. ASSUME NEW j \in T, NEW e \in T PROVE j = e
  <2>1. ~(j < e) /\ ~(e < j)
    <3>1. j < e => j \in i..(e - 1)
      BY SMT DEF Reads
    <3>2. e < j => e \in i..(j - 1)
      BY SMT DEF Reads
    <3>3. QED
      BY <3>1, <3>2
  <2>2. j \in Int /\ e \in Int
    BY DEF Reads
  <2>3. QED
    BY <2>1, <2>2
<1>5. ASSUME DigitsEnd(i) # 0 PROVE Run(i, DigitsEnd(i)) /\ Ch(DigitsEnd(i)) \notin Digits
  <2> DEFINE e == SkipAll(Digits, i)
  <2>1. DigitsEnd(i) = e /\ Ch(i) \in Digits
    BY <1>5 DEF DigitsEnd
  <2>2. e \in i..(Len(text) + 1) /\ Ch(e) \notin Digits /\ \A m \in i..(e - 1) : Ch(m) \in Digits
    BY <1>3
  <2> HIDE DEF e
  <2>3. i < e
    BY <2>1, <2>2 DEF Reads
  <2>4. QED
    BY <2>1, <2>2, <2>3 DEF Run
<1>6. ASSUME NEW e \in 1..(Len(text) + 1), Run(i, e), Ch(e) \notin Digits PROVE DigitsEnd(i) = e
  <2>1. e \in i..(Len(text) + 1) /\ i \in i..(e - 1)
    BY <1>6, SMT DEF Run, Reads
  <2>2. e \in T
    BY <1>6, <2>1 DEF Run
  <2>3. SkipAll(Digits, i) = e
    BY <1>3, <1>4, <2>2
  <2>4. QED
    BY <1>6, <2>1, <2>3 DEF DigitsEnd, Run
<1>7. QED
  BY <1>5, <1>6

(* The parts of a number from a to the place before e: its minus up to f,  *)
(* the whole number up to u, the fraction up to v.                         *)
Minus(a, f)    == f = a \/ (f = a + 1 /\ Ch(a) = "-")
Whole(f, u)    == (u = f + 1 /\ Ch(f) = "0") \/ (Run(f, u) /\ Ch(f) # "0")
Fraction(u, v) == v = u \/ (u < v /\ Ch(u) = "." /\ Run(u + 1, v))
Exponent(v, e) ==
  \/ v = e
  \/ /\ v < e /\ Ch(v) \in {"e", "E"}
     /\ \/ Run(v + 1, e)
        \/ v + 1 < e /\ Ch(v + 1) \in {"+", "-"} /\ Run(v + 2, e)

NumberCut(a, f, u, v, e) == Minus(a, f) /\ Whole(f, u) /\ Fraction(u, v) /\ Exponent(v, e)

(* The number that parse_number would see ends where its parts do.         *)
LEMMA CutEnds ==
  ASSUME Reads, NEW a \in 1..(Len(text) + 1), NEW f \in a..(Len(text) + 1),
         NEW u \in f..(Len(text) + 1), NEW v \in u..(Len(text) + 1), NEW e \in v..(Len(text) + 1),
         NumberCut(a, f, u, v, e), Ch(e) \notin NumberSigns
  PROVE  NumberEnd(a) = e
<1> DEFINE first    == IF Ch(a) = "-" THEN a + 1 ELSE a
           integer  == IF Ch(first) = "0" THEN first + 1 ELSE DigitsEnd(first)
           fraction == IF integer = 0 \/ Ch(integer) # "." THEN integer
                       ELSE DigitsEnd(integer + 1)
           sign     == IF Ch(fraction + 1) \in {"+", "-"} THEN fraction + 2 ELSE fraction + 1
<1>1. NumberEnd(a) = IF fraction = 0 \/ Ch(fraction) \notin {"e", "E"} THEN fraction
                     ELSE DigitsEnd(sign)
  BY DEF NumberEnd
<1>2. /\ Ch(e) \notin Digits /\ Ch(e) \notin {"e", "E", ".", "+", "-"}
      /\ "." \notin Digits /\ "e" \notin Digits /\ "E" \notin Digits
      /\ "-" \notin Digits /\ "+" \notin Digits
  BY DEF NumberSigns, Digits
<1>3. Len(text) \in Nat /\ a \in Nat /\ f \in Nat /\ u \in Nat /\ v \in Nat /\ e \in Nat
  BY DEF Reads
<1>4. Ch(f) \in Digits /\ f < u
  <2>1. CASE u = f + 1 /\ Ch(f) = "0"
    BY <1>3, <2>1 DEF Digits
  <2>2. CASE Run(f, u) /\ Ch(f) # "0"
    <3>1. f \in f..(u - 1)
      BY <1>3, <2>2, SMT DEF Run
    <3>2. QED
      BY <2>2, <3>1 DEF Run
  <2>3. QED
    BY <2>1, <2>2 DEF NumberCut, Whole
<1>5. first = f
  <2>1. CASE Ch(a) = "-"
    BY <1>2, <1>4, <2>1 DEF NumberCut, Minus
  <2>2. CASE Ch(a) # "-"
    BY <2>2 DEF NumberCut, Minus
  <2>3. QED
    BY <2>1, <2>2
<1> HIDE DEF first
<1>6. Ch(v) \notin Digits /\ (v # e => Ch(v) \in {"e", "E"}) /\ Ch(v) # "."
  BY <1>2 DEF NumberCut, Exponent
<1>7. Ch(u) \notin Digits
  BY <1>2, <1>6 DEF NumberCut, Fraction
<1>8. integer = u
  <2>1. CASE Ch(f) = "0"
    BY <1>5, <2>1 DEF NumberCut, Whole
  <2>2. CASE Ch(f) # "0"
    <3>1. Run(f, u)
      BY <2>2 DEF NumberCut, Whole
    <3>2. f \in 1..(Len(text) + 1) /\ u \in 1..(Len(text) + 1)
      BY <1>3
    <3>3. DigitsEnd(f) = u
      BY <1>7, <3>1, <3>2, RunEnds
    <3>4. QED
      BY <1>5, <2>2, <3>3
  <2>3. QED
    BY <2>1, <2>2
<1> HIDE DEF integer
<1>9. fraction = v
  <2>1. CASE v = u
    BY <1>6, <1>8, <2>1
  <2>2. CASE v # u
    <3>1. Ch(u) = "." /\ Run(u + 1, v) /\ u < v
      BY <2>2 DEF NumberCut, Fraction
    <3>2. u + 1 \in 1..(Len(text) + 1) /\ v \in 1..(Len(text) + 1)
      BY <1>3, <3>1
    <3>3. DigitsEnd(u + 1) = v
      BY <1>6, <3>1, <3>2, RunEnds
    <3>4. u # 0
      BY <1>3
    <3>5. QED
      BY <1>8, <3>1, <3>3, <3>4
  <2>3. QED
    BY <2>1, <2>2
<1> HIDE DEF fraction
<1>10. CASE v = e
  BY <1>1, <1>2, <1>9, <1>10
<1>11. CASE v # e
  <2>1. /\ v < e /\ Ch(v) \in {"e", "E"} /\ v # 0
        /\ Run(v + 1, e) \/ (v + 1 < e /\ Ch(v + 1) \in {"+", "-"} /\ Run(v + 2, e))
    BY <1>3, <1>11 DEF NumberCut, Exponent
  <2>2. NumberEnd(a) = DigitsEnd(sign)
    BY <1>1, <1>9, <2>1
  <2>3. sign \in 1..(Len(text) + 1) /\ Run(sign, e)
    <3>1. CASE Run(v + 1, e)
      <4>1. v + 1 \in (v + 1)..(e - 1)
        BY <1>3, <2>1, <3>1, SMT DEF Run
      <4>2. Ch(v + 1) \in Digits
        BY <3>1, <4>1 DEF Run
      <4>3. sign = v + 1
        BY <1>2, <1>9, <4>2
      <4>4. v + 1 \in 1..(Len(text) + 1)
        BY <1>3, <2>1
      <4>5. QED
        BY <3>1, <4>3, <4>4
    <3>2. CASE v + 1 < e /\ Ch(v + 1) \in {"+", "-"} /\ Run(v + 2, e)
      <4>1. sign = v + 2
        BY <1>9, <3>2
      <4>2. v + 2 \in 1..(Len(text) + 1)
        BY <1>3, <3>2
      <4>3. QED
        BY <3>2, <4>1, <4>2
    <3>3. QED
      BY <2>1, <3>1, <3>2
  <2> HIDE DEF sign
  <2>4. e \in 1..(Len(text) + 1)
    BY <1>3
  <2>5. DigitsEnd(sign) = e
    BY <1>2, <2>3, <2>4, RunEnds
  <2>6. QED
    BY <2>2, <2>5
<1>12. QED
  BY <1>10, <1>11

HasCut(a, e) ==
  \E f \in a..e : \E u \in f..e : \E v \in u..e : NumberCut(a, f, u, v, e)

(* What parse_number takes has the parts of a number.                      *)
LEMMA EndCuts ==
  ASSUME Reads, NEW a \in 1..(Len(text) + 1), NumberEnd(a) # 0
  PROVE  NumberEnd(a) \in (a + 1)..(Len(text) + 1) /\ HasCut(a, NumberEnd(a))
<1> DEFINE first    == IF Ch(a) = "-" THEN a + 1 ELSE a
           integer  == IF Ch(first) = "0" THEN first + 1 ELSE DigitsEnd(first)
           fraction == IF integer = 0 \/ Ch(integer) # "." THEN integer
                       ELSE DigitsEnd(integer + 1)
           sign     == IF Ch(fraction + 1) \in {"+", "-"} THEN fraction + 2 ELSE fraction + 1
           e        == NumberEnd(a)
<1>1. e = IF fraction = 0 \/ Ch(fraction) \notin {"e", "E"} THEN fraction
          ELSE DigitsEnd(sign)
  BY DEF NumberEnd
<1>2. e \in (a + 1)..(Len(text) + 1)
  BY NumberEndIs DEF Behind
<1>3. ASSUME NEW i \in 1..(Len(text) + 1), Ch(i) # "end"
      PROVE  i + 1 \in 1..(Len(text) + 1)
  BY <1>3, ChIs, SMT DEF Reads
<1>4. ASSUME NEW i \in 1..(Len(text) + 1), DigitsEnd(i) # 0
      PROVE  DigitsEnd(i) \in (i + 1)..(Len(text) + 1) /\ Run(i, DigitsEnd(i))
  <2>1. i \in Nat \ {0}
    BY DEF Reads
  <2>2. Behind(DigitsEnd(i), i)
    BY <2>1, DigitsEndIs
  <2>3. QED
    BY <1>4, <2>2, RunEnds DEF Behind
<1>5. ASSUME NEW i \in Nat, i > Len(text) + 1 PROVE DigitsEnd(i) = 0
  <2>1. Ch(i) = "end"
    BY <1>5, SMT DEF Ch, Reads
  <2>2. QED
    BY <2>1 DEF DigitsEnd, Digits
<1>6. first \in a..(Len(text) + 1) /\ Minus(a, first)
  <2>1. CASE Ch(a) = "-"
    <3>1. a + 1 \in 1..(Len(text) + 1)
      BY <1>3, <2>1
    <3>2. a + 1 \in a..(Len(text) + 1)
      BY <3>1 DEF Reads
    <3>3. QED
      BY <2>1, <3>2 DEF Minus
  <2>2. CASE Ch(a) # "-"
    <3>1. a \in a..(Len(text) + 1)
      BY DEF Reads
    <3>2. QED
      BY <2>2, <3>1 DEF Minus
  <2>3. QED
    BY <2>1, <2>2
<1> HIDE DEF first, e
<1>7. e # 0
  BY <1>2 DEF Reads
<1>8. fraction # 0
  BY <1>1, <1>7
<1>9. integer # 0
  BY <1>8
<1>10. first \in 1..(Len(text) + 1)
  BY <1>6 DEF Reads
<1>11. integer \in (first + 1)..(Len(text) + 1) /\ Whole(first, integer)
  <2>1. CASE Ch(first) = "0"
    <3>1. first + 1 \in 1..(Len(text) + 1)
      BY <1>3, <1>10, <2>1
    <3>2. first + 1 \in (first + 1)..(Len(text) + 1)
      BY <3>1 DEF Reads
    <3>3. QED
      BY <2>1, <3>2 DEF Whole
  <2>2. CASE Ch(first) # "0"
    BY <1>4, <1>9, <1>10, <2>2 DEF Whole
  <2>3. QED
    BY <2>1, <2>2
<1> HIDE DEF integer
<1>12. integer \in 1..(Len(text) + 1) /\ integer \in Nat
  BY <1>10, <1>11 DEF Reads
<1>13. fraction \in integer..(Len(text) + 1) /\ Fraction(integer, fraction)
  <2>1. CASE Ch(integer) # "."
    <3>1. integer \in integer..(Len(text) + 1)
      BY <1>12 DEF Reads
    <3>2. QED
      BY <2>1, <3>1 DEF Fraction
  <2>2. CASE Ch(integer) = "."
    <3>1. integer + 1 \in 1..(Len(text) + 1)
      BY <1>3, <1>12, <2>2
    <3>2. fraction = DigitsEnd(integer + 1)
      BY <1>9, <2>2
    <3>3. fraction \in (integer + 1 + 1)..(Len(text) + 1) /\ Run(integer + 1, fraction)
      BY <1>4, <1>8, <3>1, <3>2
    <3> HIDE DEF fraction
    <3>4. fraction \in integer..(Len(text) + 1) /\ integer < fraction
      BY <1>12, <3>3 DEF Reads
    <3>5. QED
      BY <2>2, <3>3, <3>4 DEF Fraction
  <2>3. QED
    BY <2>1, <2>2
<1> HIDE DEF fraction
<1>14. fraction \in 1..(Len(text) + 1) /\ fraction \in Nat
  BY <1>12, <1>13 DEF Reads
<1>15. fraction <= e /\ Exponent(fraction, e)
  <2>1. CASE Ch(fraction) \notin {"e", "E"}
    BY <1>1, <1>14, <2>1 DEF Exponent
  <2>2. CASE Ch(fraction) \in {"e", "E"}
    <3>1. e = DigitsEnd(sign)
      BY <1>1, <1>8, <2>2
    <3>2. /\ sign \in Nat
          /\ \/ sign = fraction + 1
             \/ sign = fraction + 2 /\ Ch(fraction + 1) \in {"+", "-"}
      BY <1>14
    <3> HIDE DEF sign
    <3>3. sign \in 1..(Len(text) + 1)
      <4>1. ~(sign > Len(text) + 1)
        BY <1>5, <1>7, <3>1, <3>2
      <4>2. QED
        BY <1>14, <3>2, <4>1 DEF Reads
    <3>4. e \in (sign + 1)..(Len(text) + 1) /\ Run(sign, e)
      BY <1>4, <1>7, <3>1, <3>3
    <3>5. CASE sign = fraction + 1
      <4>1. fraction <= e /\ fraction < e
        BY <1>14, <3>4, <3>5
      <4>2. QED
        BY <2>2, <3>4, <3>5, <4>1 DEF Exponent
    <3>6. CASE sign = fraction + 2 /\ Ch(fraction + 1) \in {"+", "-"}
      <4>1. fraction <= e /\ fraction < e /\ fraction + 1 < e
        BY <1>14, <3>4, <3>6
      <4>2. QED
        BY <2>2, <3>4, <3>6, <4>1 DEF Exponent
    <3>7. QED
      BY <3>2, <3>5, <3>6
  <2>3. QED
    BY <2>1, <2>2
<1>16. first \in a..e /\ integer \in first..e /\ fraction \in integer..e
  BY <1>2, <1>6, <1>10, <1>11, <1>12, <1>13, <1>14, <1>15 DEF Reads
<1>17. NumberCut(a, first, integer, fraction, e)
  BY <1>6, <1>11, <1>13, <1>15 DEF NumberCut
<1>18. HasCut(a, e)
  BY <1>16, <1>17 DEF HasCut
<1>19. QED
  BY <1>2, <1>18 DEF e

(* The text from x to the place before y.                                  *)
Piece(x, y) == SubSeq(text, x, y - 1)

LEMMA PieceIs ==
  ASSUME Reads, NEW x \in 1..(Len(text) + 1), NEW y \in x..(Len(text) + 1)
  PROVE  /\ Piece(x, y) \in Seq(Symbols) /\ Len(Piece(x, y)) = y - x
         /\ \A k \in 1..(y - x) : Piece(x, y)[k] = Ch(x + k - 1)
         /\ \A i \in 1..(y - x + 1) : \A j \in (i - 1)..(y - x) :
              SubSeq(Piece(x, y), i, j) = Piece(x + i - 1, x + j)
<1> DEFINE s == SubSeq(text, x, y - 1)
<1>0. Len(text) \in Nat /\ x \in Nat /\ y \in Nat /\ 1 <= x /\ x <= y /\ y <= Len(text) + 1
  BY DEF Reads
<1>1. s \in Seq(Symbols) /\ Len(s) = y - x /\ \A k \in 1..(y - x) : s[k] = text[x + k - 1]
  <2>1. text \in Seq(Symbols) /\ x \in 1..(Len(text) + 1) /\ y - 1 \in (x - 1)..Len(text)
    BY <1>0 DEF Reads
  <2>2. /\ SubSeq(text, x, y - 1) \in Seq(Symbols)
        /\ Len(SubSeq(text, x, y - 1)) = (y - 1) - x + 1
        /\ \A k \in 1..((y - 1) - x + 1) : SubSeq(text, x, y - 1)[k] = text[x + k - 1]
    BY <2>1, SubSeqProperties
  <2>3. (y - 1) - x + 1 = y - x
    BY <1>0
  <2>4. QED
    BY <2>2, <2>3
<1>2. \A k \in 1..(y - x) : s[k] = Ch(x + k - 1)
  <2> SUFFICES ASSUME NEW k \in 1..(y - x) PROVE s[k] = Ch(x + k - 1)
    OBVIOUS
  <2> HIDE DEF s
  <2>1. x + k - 1 \in 1..Len(text)
    BY <1>0
  <2>2. QED
    BY <1>0, <1>1, <2>1, ChIs
<1>3. ASSUME NEW i \in 1..(y - x + 1), NEW j \in (i - 1)..(y - x)
      PROVE  SubSeq(s, i, j) = SubSeq(text, x + i - 1, x + j - 1)
  <2> HIDE DEF s
  <2>1. i \in 1..(Len(s) + 1) /\ j \in (i - 1)..Len(s) /\ i \in Nat /\ j \in Nat
    BY <1>0, <1>1
  <2>2. x + i - 1 \in 1..(Len(text) + 1) /\ x + j - 1 \in (x + i - 1 - 1)..Len(text)
    BY <1>0, <2>1
  <2> DEFINE g == SubSeq(s, i, j)
             h == SubSeq(text, x + i - 1, x + j - 1)
             n == j - i + 1
  <2>3. g \in Seq(Symbols) /\ Len(g) = n /\ \A k \in 1..n : g[k] = s[i + k - 1]
    BY <1>1, <2>1, SubSeqProperties
  <2>4. h \in Seq(Symbols) /\ Len(h) = n /\ \A k \in 1..n : h[k] = text[x + i - 1 + k - 1]
    <3>1. text \in Seq(Symbols)
      BY DEF Reads
    <3> DEFINE p == x + i - 1
               q == x + j - 1
    <3>2. p \in 1..(Len(text) + 1) /\ q \in (p - 1)..Len(text)
      BY <2>2
    <3>3. q - p + 1 = n
      BY <1>0, <2>1
    <3> HIDE DEF p, q, n
    <3>4. /\ SubSeq(text, p, q) \in Seq(Symbols) /\ Len(SubSeq(text, p, q)) = q - p + 1
          /\ \A k \in 1..(q - p + 1) : SubSeq(text, p, q)[k] = text[p + k - 1]
      BY <3>1, <3>2, SubSeqProperties
    <3>5. QED
      BY <3>3, <3>4 DEF p, q
  <2>5. \A k \in 1..n : g[k] = h[k]
    <3> SUFFICES ASSUME NEW k \in 1..n PROVE g[k] = h[k]
      OBVIOUS
    <3>1. g[k] = s[i + k - 1] /\ h[k] = text[x + i - 1 + k - 1]
      BY <2>3, <2>4
    <3>2. i + k - 1 \in 1..(y - x) /\ x + i - 1 + k - 1 = x + (i + k - 1) - 1
      BY <1>0, <2>1
    <3> HIDE DEF g, h, n
    <3>3. s[i + k - 1] = text[x + (i + k - 1) - 1]
      BY <1>1, <3>2
    <3>4. QED
      BY <3>1, <3>2, <3>3
  <2>6. n \in Nat
    BY <2>1
  <2> HIDE DEF g, h, n
  <2>7. g = h
    BY <2>3, <2>4, <2>5, <2>6, SeqEqual
  <2>8. QED
    BY <2>7 DEF g, h
<1>4. ASSUME NEW i \in 1..(y - x + 1), NEW j \in (i - 1)..(y - x)
      PROVE  SubSeq(Piece(x, y), i, j) = Piece(x + i - 1, x + j)
  BY <1>3 DEF Piece
<1>5. QED
  BY <1>1, <1>2, <1>4 DEF Piece

LEMMA PieceParts ==
  ASSUME Reads, NEW x \in 1..(Len(text) + 1), NEW y \in x..(Len(text) + 1)
  PROVE  /\ Piece(x, y) = <<>> <=> x = y
         /\ Piece(x, y) = <<"0">> <=> y = x + 1 /\ Ch(x) = "0"
         /\ x < y => Piece(x, y)[1] = Ch(x) /\ Tail(Piece(x, y)) = Piece(x + 1, y)
         /\ x + 1 < y => Piece(x, y)[2] = Ch(x + 1)
                         /\ SubSeq(Piece(x, y), 3, Len(Piece(x, y))) = Piece(x + 2, y)
         /\ IsDigits(Piece(x, y)) <=> Run(x, y)
<1> DEFINE s == Piece(x, y)
<1>1. Len(text) \in Nat /\ x \in Nat /\ y \in Nat /\ 1 <= x /\ x <= y /\ y <= Len(text) + 1
  BY DEF Reads
<1>2. /\ s \in Seq(Symbols) /\ Len(s) = y - x
      /\ \A k \in 1..(y - x) : s[k] = Ch(x + k - 1)
      /\ \A i \in 1..(y - x + 1) : \A j \in (i - 1)..(y - x) :
              SubSeq(s, i, j) = Piece(x + i - 1, x + j)
  BY PieceIs
<1> HIDE DEF s
<1>3. s = <<>> <=> x = y
  <2>1. s = <<>> <=> Len(s) = 0
    BY <1>2, EmptySeq
  <2>2. QED
    BY <1>1, <1>2, <2>1
<1>4. x < y => s[1] = Ch(x) /\ Tail(s) = Piece(x + 1, y)
  <2> SUFFICES ASSUME x < y PROVE s[1] = Ch(x) /\ Tail(s) = Piece(x + 1, y)
    OBVIOUS
  <2>1. 1 \in 1..(y - x) /\ x + 1 - 1 = x
    BY <1>1
  <2>2. s[1] = Ch(x)
    BY <1>2, <2>1
  <2>3. Tail(s) = SubSeq(s, 2, Len(s))
    BY <1>1, <1>2, <1>3, TailIsSubSeq
  <2>4. 2 \in 1..(y - x + 1) /\ y - x \in (2 - 1)..(y - x) /\ x + 2 - 1 = x + 1 /\ x + (y - x) = y
    BY <1>1
  <2>5. SubSeq(s, 2, y - x) = Piece(x + 1, y)
    BY <1>2, <2>4
  <2>6. QED
    BY <1>2, <2>2, <2>3, <2>5
<1>5. x + 1 < y => s[2] = Ch(x + 1) /\ SubSeq(s, 3, Len(s)) = Piece(x + 2, y)
  <2> SUFFICES ASSUME x + 1 < y PROVE s[2] = Ch(x + 1) /\ SubSeq(s, 3, Len(s)) = Piece(x + 2, y)
    OBVIOUS
  <2>1. 2 \in 1..(y - x) /\ x + 2 - 1 = x + 1
    BY <1>1
  <2>2. s[2] = Ch(x + 1)
    BY <1>2, <2>1
  <2>4. 3 \in 1..(y - x + 1) /\ y - x \in (3 - 1)..(y - x) /\ x + 3 - 1 = x + 2 /\ x + (y - x) = y
    BY <1>1
  <2>5. SubSeq(s, 3, y - x) = Piece(x + 2, y)
    BY <1>2, <2>4
  <2>6. QED
    BY <1>2, <2>2, <2>5
<1>6. s = <<"0">> <=> y = x + 1 /\ Ch(x) = "0"
  <2>1. ASSUME s = <<"0">> PROVE y = x + 1 /\ Ch(x) = "0"
    <3>1. Len(s) = 1 /\ s[1] = "0"
      <4>1. Len(<<"0">>) = 1 /\ <<"0">>[1] = "0"
        OBVIOUS
      <4>2. QED
        BY <2>1, <4>1, Zenon
    <3>2. x < y /\ y = x + 1
      <4>1. y - x = 1
        BY <1>2, <3>1, Zenon
      <4>2. QED
        BY <1>1, <4>1
    <3>3. QED
      BY <1>4, <3>1, <3>2
  <2>2. ASSUME y = x + 1, Ch(x) = "0" PROVE s = <<"0">>
    <3>1. Len(s) = 1 /\ x < y
      BY <1>1, <1>2, <2>2
    <3>2. s[1] = "0"
      BY <1>4, <2>2, <3>1
    <3>3. QED
      BY <1>2, <3>1, <3>2
  <2>3. QED
    BY <2>1, <2>2
<1>7. IsDigits(s) <=> Run(x, y)
  <2>1. ASSUME IsDigits(s) PROVE Run(x, y)
    <3>1. s # <<>> /\ \A i \in 1..Len(s) : s[i] \in Digits
      BY <2>1 DEF IsDigits
    <3>2. x < y
      BY <1>1, <1>3, <3>1
    <3>3. ASSUME NEW m \in x..(y - 1) PROVE Ch(m) \in Digits
      <4>1. m - x + 1 \in 1..(y - x) /\ x + (m - x + 1) - 1 = m
        BY <1>1
      <4>2. s[m - x + 1] = Ch(m)
        BY <1>2, <4>1
      <4>3. QED
        BY <1>2, <3>1, <4>1, <4>2
    <3>4. QED
      BY <3>2, <3>3 DEF Run
  <2>2. ASSUME Run(x, y) PROVE IsDigits(s)
    <3>1. s # <<>>
      BY <1>1, <1>3, <2>2 DEF Run
    <3>2. ASSUME NEW k \in 1..Len(s) PROVE s[k] \in Digits
      <4>1. k \in 1..(y - x) /\ x + k - 1 \in x..(y - 1)
        BY <1>1, <1>2
      <4>2. QED
        BY <1>2, <2>2, <4>1 DEF Run
    <3>3. QED
      BY <3>1, <3>2 DEF IsDigits
  <2>3. QED
    BY <2>1, <2>2
<1>8. QED
  BY <1>3, <1>4, <1>5, <1>6, <1>7 DEF s

(* A part of the text is a number just if it consists of the signs and has *)
(* the parts of one.                                                       *)
LEMMA NumberIs ==
  ASSUME Reads, NEW a \in 1..(Len(text) + 1), NEW e \in (a + 1)..(Len(text) + 1)
  PROVE  IsNumber(Piece(a, e)) <=>
           HasCut(a, e) /\ \A m \in a..(e - 1) : Ch(m) \in NumberSigns
<1> DEFINE s == Piece(a, e)
           n == e - a
<1>1. /\ Len(text) \in Nat /\ a \in Nat /\ e \in Nat /\ 1 <= a /\ a < e /\ e <= Len(text) + 1
      /\ n \in Nat /\ n = e - a
  BY DEF Reads
<1>2. /\ Len(s) = n
      /\ \A k \in 1..n : s[k] = Ch(a + k - 1)
      /\ \A i \in 1..(n + 1) : \A j \in (i - 1)..n : SubSeq(s, i, j) = Piece(a + i - 1, a + j)
  <2>1. e \in a..(Len(text) + 1)
    BY <1>1
  <2>2. QED
    BY <2>1, PieceIs
<1> HIDE DEF s, n
<1>3. (\A i \in 1..Len(s) : s[i] \in NumberSigns) <=> \A m \in a..(e - 1) : Ch(m) \in NumberSigns
  <2>1. ASSUME \A i \in 1..Len(s) : s[i] \in NumberSigns, NEW m \in a..(e - 1)
        PROVE  Ch(m) \in NumberSigns
    <3>1. m - a + 1 \in 1..n /\ a + (m - a + 1) - 1 = m
      BY <1>1
    <3>2. QED
      BY <1>2, <2>1, <3>1
  <2>2. ASSUME \A m \in a..(e - 1) : Ch(m) \in NumberSigns, NEW k \in 1..n
        PROVE  s[k] \in NumberSigns
    <3>1. a + k - 1 \in a..(e - 1)
      BY <1>1
    <3>2. QED
      BY <1>2, <2>2, <3>1
  <2>3. QED
    BY <1>2, <2>1, <2>2
<1>4. ASSUME NEW x \in a..e, NEW y \in x..e
      PROVE  /\ SubSeq(s, x - a + 1, y - a) = Piece(x, y)
             /\ IsInteger(Piece(x, y)) <=> Whole(x, y)
             /\ IsFraction(Piece(x, y)) <=> Fraction(x, y)
             /\ IsExponent(Piece(x, y)) <=> Exponent(x, y)
  <2>0. x \in 1..(Len(text) + 1) /\ y \in x..(Len(text) + 1) /\ x \in Nat /\ y \in Nat /\ x <= y
    BY <1>1
  <2>1. SubSeq(s, x - a + 1, y - a) = Piece(x, y)
    <3>1. x - a + 1 \in 1..(n + 1) /\ y - a \in (x - a + 1 - 1)..n
      BY <1>1, <2>0
    <3>2. a + (x - a + 1) - 1 = x /\ a + (y - a) = y
      BY <1>1, <2>0
    <3>3. QED
      BY <1>2, <3>1, <3>2
  <2> DEFINE r == Piece(x, y)
  <2>2. /\ r = <<>> <=> x = y
        /\ r = <<"0">> <=> y = x + 1 /\ Ch(x) = "0"
        /\ x < y => r[1] = Ch(x) /\ Tail(r) = Piece(x + 1, y)
        /\ x + 1 < y => r[2] = Ch(x + 1) /\ SubSeq(r, 3, Len(r)) = Piece(x + 2, y)
        /\ IsDigits(r) <=> Run(x, y)
    BY <2>0, PieceParts
  <2>3. Len(r) = y - x
    BY <2>0, PieceIs
  <2>4. x < y => (IsDigits(Piece(x + 1, y)) <=> Run(x + 1, y))
    <3>1. x < y => x + 1 \in 1..(Len(text) + 1) /\ y \in (x + 1)..(Len(text) + 1)
      BY <2>0
    <3>2. QED
      BY <3>1, PieceParts
  <2>5. x + 1 < y => (IsDigits(Piece(x + 2, y)) <=> Run(x + 2, y))
    <3>1. x + 1 < y => x + 2 \in 1..(Len(text) + 1) /\ y \in (x + 2)..(Len(text) + 1)
      BY <2>0
    <3>2. QED
      BY <3>1, PieceParts
  <2> HIDE DEF r
  <2>6. Run(x, y) => x < y
    BY DEF Run
  <2>7. x # y <=> x < y
    BY <2>0
  <2>8. IsInteger(r) <=> Whole(x, y)
    BY <2>2, <2>6, <2>7, Zenon DEF IsInteger, Whole
  <2>9. IsFraction(r) <=> Fraction(x, y)
    BY <2>2, <2>4, <2>7, Zenon DEF IsFraction, Fraction
  <2>10. IsExponent(r) <=> Exponent(x, y)
    <3>1. Len(r) > 1 <=> x + 1 < y
      BY <2>0, <2>3
    <3>2. x + 1 < y => x < y
      BY <2>0
    <3>3. QED
      BY <2>2, <2>4, <2>5, <2>7, <3>1, <3>2, Zenon DEF IsExponent, Exponent
  <2>11. QED
    BY <2>1, <2>8, <2>9, <2>10 DEF r
<1>5. /\ Len(<<>>) = 0 /\ SubSeq(s, 1, 0) = <<>>
      /\ Len(<<"-">>) = 1 /\ (1 <= n => (SubSeq(s, 1, 1) = <<"-">> <=> Ch(a) = "-"))
  <2>1. Len(<<>>) = 0 /\ Len(<<"-">>) = 1 /\ <<"-">>[1] = "-" /\ <<"-">> \in Seq({"-"})
    OBVIOUS
  <2>2. SubSeq(s, 1, 0) = <<>>
    BY SubSeqEmpty
  <2>3. ASSUME 1 <= n PROVE SubSeq(s, 1, 1) = <<"-">> <=> Ch(a) = "-"
    <3>1. 1 \in 1..n /\ a + 1 - 1 = a
      BY <1>1, <2>3
    <3>2. s[1] = Ch(a)
      BY <1>2, <3>1
    <3> DEFINE h == SubSeq(s, 1, 1)
    <3>3. \A i \in 1..1 : s[i] \in {Ch(a)}
      BY <3>2
    <3>4. h \in Seq({Ch(a)}) /\ Len(h) = 1 /\ h[1] = Ch(a)
      <4>1. 1 \in Int /\ 1 \in 1..(1 - 1 + 1) /\ 1 + 1 - 1 = 1 /\ 1 <= 1
        OBVIOUS
      <4>2. /\ h \in Seq({Ch(a)}) /\ Len(h) = (IF 1 <= 1 THEN 1 - 1 + 1 ELSE 0)
            /\ \A i \in 1..(1 - 1 + 1) : h[i] = s[1 + i - 1]
        BY <3>3, <4>1, SubSeqProperties
      <4> HIDE DEF h
      <4>3. QED
        BY <3>2, <4>1, <4>2
    <3> HIDE DEF h
    <3>5. h = <<"-">> => Ch(a) = "-"
      BY <2>1, <3>4, Zenon
    <3>6. Ch(a) = "-" => h = <<"-">>
      BY <2>1, <3>4, SeqEqual
    <3>7. QED
      BY <3>5, <3>6 DEF h
  <2>4. QED
    BY <2>1, <2>2, <2>3
<1>6. ASSUME IsNumber(s) PROVE HasCut(a, e)
  <2>1. PICK sign \in {<<>>, <<"-">>}, i \in 0..Len(s), j \in 0..Len(s) :
          /\ Len(sign) <= i /\ i <= j
          /\ SubSeq(s, 1, Len(sign)) = sign
          /\ IsInteger(SubSeq(s, Len(sign) + 1, i))
          /\ IsFraction(SubSeq(s, i + 1, j))
          /\ IsExponent(SubSeq(s, j + 1, Len(s)))
    BY <1>6, Zenon DEF IsNumber
  <2> DEFINE l == Len(sign)
             f == a + l
             u == a + i
             v == a + j
  <2>2. l \in {0, 1} /\ i \in 0..n /\ j \in 0..n /\ l <= i /\ i <= j /\ (l = 1 => 1 <= n)
    BY <1>1, <1>2, <1>5, <2>1
  <2>3. Minus(a, f)
    <3>1. CASE sign = <<>>
      <4>1. l = 0
        BY <1>5, <3>1, Zenon
      <4> HIDE DEF l
      <4>2. QED
        BY <1>1, <4>1 DEF Minus
    <3>2. CASE sign = <<"-">>
      <4>1. l = 1 /\ SubSeq(s, 1, 1) = <<"-">>
        BY <1>5, <2>1, <3>2, Zenon
      <4>2. Ch(a) = "-"
        BY <1>5, <2>2, <4>1, Zenon
      <4> HIDE DEF l
      <4>3. QED
        BY <1>1, <4>1, <4>2 DEF Minus
    <3>3. QED
      BY <3>1, <3>2
  <2> HIDE DEF l
  <2>4. /\ f \in a..e /\ u \in f..e /\ v \in u..e /\ u \in a..e /\ v \in a..e /\ e \in v..e
        /\ f - a + 1 = l + 1 /\ u - a = i /\ u - a + 1 = i + 1 /\ v - a = j /\ v - a + 1 = j + 1
        /\ e - a = n
    BY <1>1, <2>2
  <2> HIDE DEF f, u, v
  <2>5. Whole(f, u)
    <3>1. SubSeq(s, f - a + 1, u - a) = Piece(f, u) /\ (IsInteger(Piece(f, u)) <=> Whole(f, u))
      BY <1>4, <2>4
    <3>2. QED
      BY <2>1, <2>4, <3>1 DEF l
  <2>6. Fraction(u, v)
    <3>1. SubSeq(s, u - a + 1, v - a) = Piece(u, v) /\ (IsFraction(Piece(u, v)) <=> Fraction(u, v))
      BY <1>4, <2>4
    <3>2. QED
      BY <2>1, <2>4, <3>1
  <2>7. Exponent(v, e)
    <3>1. SubSeq(s, v - a + 1, e - a) = Piece(v, e) /\ (IsExponent(Piece(v, e)) <=> Exponent(v, e))
      BY <1>4, <2>4
    <3>2. QED
      BY <1>2, <2>1, <2>4, <3>1
  <2>8. QED
    BY <2>3, <2>4, <2>5, <2>6, <2>7 DEF HasCut, NumberCut
<1>7. ASSUME HasCut(a, e), \A i \in 1..Len(s) : s[i] \in NumberSigns PROVE IsNumber(s)
  <2>a. PICK f \in a..e : \E u \in f..e : \E v \in u..e : NumberCut(a, f, u, v, e)
    BY <1>7 DEF HasCut
  <2>b. PICK u \in f..e : \E v \in u..e : NumberCut(a, f, u, v, e)
    BY <2>a
  <2>1. PICK v \in u..e : NumberCut(a, f, u, v, e)
    BY <2>b
  <2> DEFINE sign == IF f = a THEN <<>> ELSE <<"-">>
             i == u - a
             j == v - a
  <2>2. /\ u \in a..e /\ v \in a..e /\ e \in v..e /\ a \in Nat /\ e \in Nat
        /\ i \in 0..Len(s) /\ j \in 0..Len(s) /\ i <= j
        /\ u - a = i /\ u - a + 1 = i + 1 /\ v - a = j /\ v - a + 1 = j + 1 /\ e - a = Len(s)
    BY <1>1, <1>2
  <2>3. sign \in {<<>>, <<"-">>} /\ f - a + 1 = Len(sign) + 1 /\ Len(sign) <= i
        /\ SubSeq(s, 1, Len(sign)) = sign
    <3>1. CASE f = a
      <4>1. sign = <<>>
        BY <3>1
      <4>2. f - a + 1 = 0 + 1 /\ 0 <= i
        BY <1>1, <2>2, <3>1
      <4> HIDE DEF sign, i
      <4>3. QED
        BY <1>5, <4>1, <4>2, Zenon
    <3>2. CASE f # a
      <4>1. sign = <<"-">> /\ f = a + 1 /\ Ch(a) = "-"
        BY <2>1, <3>2 DEF NumberCut, Minus
      <4>2. f - a + 1 = 1 + 1 /\ 1 <= i /\ 1 <= n
        BY <1>1, <2>2, <4>1
      <4> HIDE DEF sign, i
      <4>3. QED
        BY <1>5, <4>1, <4>2, Zenon
    <3>3. QED
      BY <3>1, <3>2
  <2> HIDE DEF sign, i, j
  <2>4. IsInteger(SubSeq(s, Len(sign) + 1, i))
    <3>1. SubSeq(s, f - a + 1, u - a) = Piece(f, u) /\ (IsInteger(Piece(f, u)) <=> Whole(f, u))
      BY <1>4
    <3>2. QED
      BY <2>1, <2>2, <2>3, <3>1 DEF NumberCut
  <2>5. IsFraction(SubSeq(s, i + 1, j))
    <3>1. SubSeq(s, u - a + 1, v - a) = Piece(u, v) /\ (IsFraction(Piece(u, v)) <=> Fraction(u, v))
      BY <1>4, <2>2
    <3>2. QED
      BY <2>1, <2>2, <3>1 DEF NumberCut
  <2>6. IsExponent(SubSeq(s, j + 1, Len(s)))
    <3>1. SubSeq(s, v - a + 1, e - a) = Piece(v, e) /\ (IsExponent(Piece(v, e)) <=> Exponent(v, e))
      BY <1>4, <2>2
    <3>2. QED
      BY <2>1, <2>2, <3>1 DEF NumberCut
  <2>7. QED
    BY <1>7, <2>2, <2>3, <2>4, <2>5, <2>6, Zenon DEF IsNumber
<1>8. QED
  BY <1>3, <1>6, <1>7 DEF s, IsNumber

(* A scalar begins with none of the marks; a string or a word is alone.    *)
LEMMA ScalarIs ==
  ASSUME NEW S, NEW s \in Seq(S), IsScalar(s)
  PROVE  /\ Len(s) \in Nat \ {0}
         /\ s[1] \in NumberSigns \cup Strings \cup Words
         /\ IF s[1] \in Strings \cup Words THEN Len(s) = 1 ELSE IsNumber(s)
<1>0. Len(s) \in Nat
  OBVIOUS
<1>1. CASE IsNumber(s)
  <2>1. PICK sign \in {<<>>, <<"-">>}, i \in 0..Len(s), j \in 0..Len(s) :
          Len(sign) <= i /\ IsInteger(SubSeq(s, Len(sign) + 1, i))
    BY <1>1, Zenon DEF IsNumber
  <2>2. Len(sign) \in {0, 1}
    BY <2>1
  <2>3. Len(s) # 0
    <3> SUFFICES ASSUME Len(s) = 0 PROVE FALSE
      OBVIOUS
    <3>1. i = 0 /\ i < Len(sign) + 1
      BY <2>1, <2>2
    <3>2. SubSeq(s, Len(sign) + 1, i) = <<>>
      BY <2>2, <3>1, SubSeqEmpty
    <3>3. IsInteger(<<>>)
      BY <2>1, <3>2
    <3>4. <<>> # <<"0">>
      OBVIOUS
    <3>5. QED
      BY <3>3, <3>4 DEF IsInteger, IsDigits
  <2>4. 1 \in 1..Len(s)
    BY <1>0, <2>3
  <2>5. s[1] \in NumberSigns
    BY <1>1, <2>4 DEF IsNumber
  <2>6. s[1] \notin Strings \cup Words
    BY <2>5 DEF NumberSigns, Digits, Strings, Words
  <2>7. QED
    BY <1>0, <1>1, <2>3, <2>5, <2>6
<1>2. CASE ~IsNumber(s)
  BY <1>2 DEF IsScalar
<1>3. QED
  BY <1>1, <1>2

(* What parse_number takes consists of signs.                              *)
LEMMA CutSigns ==
  ASSUME Reads, NEW a \in 1..(Len(text) + 1), NEW e \in (a + 1)..(Len(text) + 1), HasCut(a, e)
  PROVE  \A m \in a..(e - 1) : Ch(m) \in NumberSigns
<1>a. PICK f \in a..e : \E u \in f..e : \E v \in u..e : NumberCut(a, f, u, v, e)
  BY DEF HasCut
<1>b. PICK u \in f..e : \E v \in u..e : NumberCut(a, f, u, v, e)
  BY <1>a
<1>1. PICK v \in u..e : NumberCut(a, f, u, v, e)
  BY <1>b
<1>2. /\ Digits \subseteq NumberSigns
      /\ "-" \in NumberSigns /\ "+" \in NumberSigns /\ "." \in NumberSigns
      /\ "e" \in NumberSigns /\ "E" \in NumberSigns /\ "0" \in NumberSigns
  BY DEF NumberSigns, Digits
<1>3. ASSUME NEW x \in Nat, NEW y \in Nat, Run(x, y), NEW m \in Nat, x <= m, m < y
      PROVE  Ch(m) \in NumberSigns
  <2>1. m \in x..(y - 1)
    BY <1>3
  <2>2. QED
    BY <1>2, <1>3, <2>1 DEF Run
<1>4. /\ a \in Nat /\ f \in Nat /\ u \in Nat /\ v \in Nat /\ e \in Nat
      /\ a <= f /\ f <= u /\ u <= v /\ v <= e
  BY DEF Reads
<1> SUFFICES ASSUME NEW m \in a..(e - 1) PROVE Ch(m) \in NumberSigns
  OBVIOUS
<1>5. m \in Nat /\ a <= m /\ m < e
  BY <1>4
<1>6. CASE m < f
  <2>1. f = a + 1 /\ Ch(a) = "-"
    BY <1>1, <1>4, <1>5, <1>6 DEF NumberCut, Minus
  <2>2. m = a
    BY <1>4, <1>5, <1>6, <2>1
  <2>3. QED
    BY <1>2, <2>1, <2>2
<1>7. CASE f <= m /\ m < u
  <2>1. CASE Run(f, u)
    BY <1>3, <1>4, <1>5, <1>7, <2>1
  <2>2. CASE u = f + 1 /\ Ch(f) = "0"
    <3>1. m = f
      BY <1>4, <1>5, <1>7, <2>2
    <3>2. QED
      BY <1>2, <2>2, <3>1
  <2>3. QED
    BY <1>1, <2>1, <2>2 DEF NumberCut, Whole
<1>8. CASE u <= m /\ m < v
  <2>1. Ch(u) = "." /\ Run(u + 1, v)
    BY <1>1, <1>4, <1>5, <1>8 DEF NumberCut, Fraction
  <2>2. CASE m = u
    BY <1>2, <2>1, <2>2
  <2>3. CASE m # u
    <3>1. u + 1 \in Nat /\ u + 1 <= m
      BY <1>4, <1>5, <1>8, <2>3
    <3>2. QED
      BY <1>3, <1>4, <1>5, <1>8, <2>1, <3>1
  <2>4. QED
    BY <2>2, <2>3
<1>9. CASE v <= m
  <2>1. /\ Ch(v) \in {"e", "E"}
        /\ \/ Run(v + 1, e)
           \/ v + 1 < e /\ Ch(v + 1) \in {"+", "-"} /\ Run(v + 2, e)
    BY <1>1, <1>4, <1>5, <1>9 DEF NumberCut, Exponent
  <2>2. CASE m = v
    BY <1>2, <2>1, <2>2
  <2>3. CASE m # v /\ Run(v + 1, e)
    <3>1. v + 1 \in Nat /\ v + 1 <= m
      BY <1>4, <1>5, <1>9, <2>3
    <3>2. QED
      BY <1>3, <1>4, <1>5, <2>3, <3>1
  <2>4. CASE m # v /\ Ch(v + 1) \in {"+", "-"} /\ Run(v + 2, e)
    <3>1. v + 2 \in Nat /\ (m = v + 1 \/ v + 2 <= m)
      BY <1>4, <1>5, <1>9, <2>4
    <3>2. CASE m = v + 1
      BY <1>2, <2>4, <3>2
    <3>3. CASE v + 2 <= m
      BY <1>3, <1>4, <1>5, <2>4, <3>1, <3>3
    <3>4. QED
      BY <3>1, <3>2, <3>3
  <2>5. QED
    BY <2>1, <2>2, <2>3, <2>4
<1>10. QED
  BY <1>4, <1>5, <1>6, <1>7, <1>8, <1>9

(* What parse_value takes as a scalar is one.                              *)
LEMMA ScalarTaken ==
  ASSUME Reads, NEW a \in 1..(Len(text) + 1), ScalarEnd(a) # 0
  PROVE  /\ ScalarEnd(a) \in (a + 1)..(Len(text) + 1)
         /\ IsScalar(Piece(a, ScalarEnd(a)))
         /\ \/ ScalarEnd(a) = a + 1 /\ Ch(a) \in Strings \cup Words
            \/ \A m \in a..(ScalarEnd(a) - 1) : Ch(m) \in NumberSigns
<1> DEFINE e == ScalarEnd(a)
<1>1. e \in (a + 1)..(Len(text) + 1)
  BY ScalarEndIs
<1> HIDE DEF e
<1>2. CASE Ch(a) \in Strings \cup Words
  <2>1. e = a + 1
    BY <1>2 DEF e, ScalarEnd
  <2>2. e \in a..(Len(text) + 1) /\ 1 \in 1..(e - a) /\ a + 1 - 1 = a /\ e - a = 1
    BY <1>1, <2>1 DEF Reads
  <2>3. Len(Piece(a, e)) = e - a /\ Piece(a, e)[1] = Ch(a + 1 - 1)
    BY <2>2, PieceIs
  <2>4. IsScalar(Piece(a, e))
    BY <1>2, <2>2, <2>3 DEF IsScalar
  <2>5. QED
    BY <1>1, <1>2, <2>1, <2>4 DEF e
<1>3. CASE Ch(a) \notin Strings \cup Words
  <2>1. e = NumberEnd(a) /\ NumberEnd(a) # 0
    BY <1>3 DEF e, ScalarEnd
  <2>2. HasCut(a, e)
    BY <2>1, EndCuts
  <2>3. \A m \in a..(e - 1) : Ch(m) \in NumberSigns
    BY <1>1, <2>2, CutSigns
  <2>4. IsNumber(Piece(a, e))
    BY <1>1, <2>2, <2>3, NumberIs
  <2>5. QED
    BY <1>1, <2>3, <2>4 DEF e, IsScalar
<1>4. QED
  BY <1>2, <1>3

(* A scalar of the text is taken whole, if a number ends there.            *)
LEMMA ScalarSeen ==
  ASSUME Reads, NEW a \in 1..(Len(text) + 1), NEW e \in (a + 1)..(Len(text) + 1),
         IsScalar(Piece(a, e)), Ch(e) \notin NumberSigns
  PROVE  ScalarEnd(a) = e
<1>0. e \in a..(Len(text) + 1) /\ 1 \in 1..(e - a) /\ a + 1 - 1 = a
  BY DEF Reads
<1>1. /\ Piece(a, e) \in Seq(Symbols) /\ Len(Piece(a, e)) = e - a
      /\ Piece(a, e)[1] = Ch(a + 1 - 1)
  BY <1>0, PieceIs
<1>2. CASE Ch(a) \in Strings \cup Words
  <2>1. e - a = 1
    BY <1>0, <1>1, <1>2, ScalarIs
  <2>2. e = a + 1
    BY <2>1 DEF Reads
  <2>3. QED
    BY <1>2, <2>2 DEF ScalarEnd
<1>3. CASE Ch(a) \notin Strings \cup Words
  <2>1. IsNumber(Piece(a, e))
    BY <1>0, <1>1, <1>3, ScalarIs
  <2>2. HasCut(a, e)
    BY <2>1, NumberIs
  <2>a. PICK f \in a..e : \E u \in f..e : \E v \in u..e : NumberCut(a, f, u, v, e)
    BY <2>2 DEF HasCut
  <2>b. PICK u \in f..e : \E v \in u..e : NumberCut(a, f, u, v, e)
    BY <2>a
  <2>c. PICK v \in u..e : NumberCut(a, f, u, v, e)
    BY <2>b
  <2>3. /\ f \in a..(Len(text) + 1) /\ u \in f..(Len(text) + 1)
        /\ v \in u..(Len(text) + 1) /\ e \in v..(Len(text) + 1)
    BY DEF Reads
  <2>4. NumberEnd(a) = e
    BY <2>c, <2>3, CutEnds
  <2>5. QED
    BY <1>3, <2>4 DEF ScalarEnd
<1>4. QED
  BY <1>2, <1>3

-----------------------------------------------------------------------------
(* A text without its blanks.                                              *)

(* The place that place i of t has among those that are not blank, or that *)
(* of the next one, if it is.                                              *)
Ord(t, i) == Cardinality({j \in Solid(t) : j < i}) + 1

LEMMA OrdIs ==
  ASSUME NEW S, NEW t \in Seq(S)
  PROVE  /\ Ord(t, 1) = 1 /\ Ord(t, Len(t) + 1) = Cardinality(Solid(t)) + 1
         /\ Cardinality(Solid(t)) \in Nat
         /\ \A i \in Nat : Ord(t, i) \in Nat \ {0}
         /\ \A i, j \in Nat : i <= j => Ord(t, i) <= Ord(t, j)
         /\ \A i \in 1..Len(t) : Ord(t, i + 1) = IF t[i] = "sp" THEN Ord(t, i) ELSE Ord(t, i) + 1
<1> DEFINE K == Solid(t)
           B(i) == {j \in K : j < i}
<1>0. Len(t) \in Nat
  OBVIOUS
<1>1. IsFiniteSet(K) /\ Cardinality(K) \in Nat
  <2>1. IsFiniteSet(1..Len(t)) /\ K \in SUBSET (1..Len(t))
    BY <1>0, FS_Interval DEF Solid
  <2>2. IsFiniteSet(K)
    BY <2>1, FS_Subset
  <2>3. QED
    BY <2>2, FS_CardinalityType
<1>2. \A i \in K : i \in 1..Len(t) /\ t[i] # "sp"
  BY DEF Solid
<1>3. \A i \in 1..Len(t) : t[i] # "sp" => i \in K
  BY DEF Solid
<1> HIDE DEF K
<1>4. \A i \in Nat : IsFiniteSet(B(i)) /\ Cardinality(B(i)) \in Nat
  <2> SUFFICES ASSUME NEW i \in Nat PROVE IsFiniteSet(B(i)) /\ Cardinality(B(i)) \in Nat
    OBVIOUS
  <2>1. B(i) \in SUBSET K
    OBVIOUS
  <2>2. IsFiniteSet(B(i))
    BY <1>1, <2>1, FS_Subset
  <2>3. QED
    BY <2>2, FS_CardinalityType
<1>5. \A i, j \in Nat : i <= j => Cardinality(B(i)) <= Cardinality(B(j))
  <2> SUFFICES ASSUME NEW i \in Nat, NEW j \in Nat, i <= j
               PROVE  Cardinality(B(i)) <= Cardinality(B(j))
    OBVIOUS
  <2>1. B(i) \in SUBSET B(j)
    <3>1. \A k \in K : k \in Nat
      BY <1>2
    <3>2. QED
      BY <3>1
  <2>2. IsFiniteSet(B(j))
    BY <1>4
  <2> HIDE DEF B
  <2>3. QED
    BY <2>1, <2>2, FS_Subset
<1>6. Cardinality(B(1)) = 0
  <2>1. B(1) = {}
    BY <1>2
  <2>2. QED
    BY <2>1, FS_EmptySet
<1>7. Cardinality(B(Len(t) + 1)) = Cardinality(K)
  <2>1. B(Len(t) + 1) = K
    BY <1>0, <1>2
  <2>2. QED
    BY <2>1
<1>8. \A i \in 1..Len(t) :
        Cardinality(B(i + 1)) = IF t[i] = "sp" THEN Cardinality(B(i)) ELSE Cardinality(B(i)) + 1
  <2> SUFFICES ASSUME NEW i \in 1..Len(t)
               PROVE  Cardinality(B(i + 1)) =
                        IF t[i] = "sp" THEN Cardinality(B(i)) ELSE Cardinality(B(i)) + 1
    OBVIOUS
  <2>1. CASE t[i] = "sp"
    <3>1. B(i + 1) = B(i)
      <4>1. \A k \in K : k \in Nat /\ k # i
        BY <1>2, <2>1
      <4>2. \A k \in K : k < i + 1 <=> k < i
        BY <1>0, <4>1
      <4>3. QED
        BY <4>2
    <3>2. QED
      BY <2>1, <3>1
  <2>2. CASE t[i] # "sp"
    <3>1. B(i + 1) = B(i) \cup {i} /\ i \notin B(i)
      <4>1. \A k \in K : k \in Nat
        BY <1>2
      <4>2. i \in K
        BY <1>3, <2>2
      <4>3. \A k \in K : k < i + 1 <=> k < i \/ k = i
        BY <1>0, <4>1
      <4>4. i < i + 1 /\ ~(i < i)
        BY <1>0
      <4>5. QED
        BY <4>2, <4>3, <4>4
    <3>2. IsFiniteSet(B(i))
      BY <1>4
    <3> HIDE DEF B
    <3>3. Cardinality(B(i) \cup {i}) = Cardinality(B(i)) + 1
      BY <3>1, <3>2, FS_AddElement
    <3>4. QED
      BY <2>2, <3>1, <3>3
  <2>3. QED
    BY <2>1, <2>2
<1> DEFINE c(i) == Cardinality(B(i))
<1>9. \A i : Ord(t, i) = c(i) + 1
  BY DEF Ord, K
<1>10. /\ c(1) = 0 /\ c(Len(t) + 1) = Cardinality(K) /\ Cardinality(K) \in Nat
       /\ \A i \in Nat : c(i) \in Nat
       /\ \A i, j \in Nat : i <= j => c(i) <= c(j)
       /\ \A i \in 1..Len(t) : c(i + 1) = IF t[i] = "sp" THEN c(i) ELSE c(i) + 1
  BY <1>1, <1>4, <1>5, <1>6, <1>7, <1>8
<1>11. \A i \in 1..Len(t) : i \in Nat /\ i + 1 \in Nat
  BY <1>0
<1> DEFINE o(i) == Ord(t, i)
           k    == Cardinality(K)
<1> HIDE DEF c, k
<1>12. \A i : o(i) = c(i) + 1
  BY <1>9
<1> HIDE DEF o
<1>13. o(1) = 1 /\ o(Len(t) + 1) = k + 1 /\ k \in Nat
  <2>1. c(1) = 0 /\ c(Len(t) + 1) = k /\ k \in Nat
    BY <1>10, Zenon DEF k
  <2>2. o(1) = c(1) + 1 /\ o(Len(t) + 1) = c(Len(t) + 1) + 1
    BY <1>12, Zenon
  <2>3. QED
    BY <2>1, <2>2
<1>14. \A i \in Nat : o(i) \in Nat \ {0}
  <2> SUFFICES ASSUME NEW i \in Nat PROVE o(i) \in Nat \ {0}
    OBVIOUS
  <2> DEFINE d == c(i)
  <2>1. d \in Nat
    BY <1>10
  <2>2. o(i) = d + 1
    BY <1>12
  <2> HIDE DEF d
  <2>3. QED
    BY <2>1, <2>2
<1>15. \A i, j \in Nat : i <= j => o(i) <= o(j)
  BY <1>10, <1>12
<1>16. \A i \in 1..Len(t) : o(i + 1) = IF t[i] = "sp" THEN o(i) ELSE o(i) + 1
  BY <1>10, <1>11, <1>12
<1>17. QED
  BY <1>13, <1>14, <1>15, <1>16, Zenon DEF o, k, K

LEMMA BlanklessIs ==
  ASSUME NEW S, NEW t \in Seq(S)
  PROVE  /\ Blankless(t) \in Seq(S)
         /\ Len(Blankless(t)) \in Nat /\ Ord(t, Len(t) + 1) = Len(Blankless(t)) + 1
         /\ \A i \in Solid(t) : Ord(t, i) \in 1..Len(Blankless(t))
                                /\ Blankless(t)[Ord(t, i)] = t[i]
         /\ \A k \in 1..Len(Blankless(t)) : \E i \in Solid(t) : Ord(t, i) = k
<1> DEFINE K == Solid(t)
           n == Cardinality(K)
           o(i) == Ord(t, i)
           spot(k) == CHOOSE i \in K : Cardinality({j \in K : j <= i}) = k
           b == [k \in 1..n |-> t[spot(k)]]
<1>0. Len(t) \in Nat /\ \A i \in K : i \in 1..Len(t) /\ i \in Nat /\ t[i] # "sp" /\ t[i] \in S
  BY DEF Solid
<1>1. /\ n \in Nat /\ o(1) = 1 /\ o(Len(t) + 1) = n + 1
      /\ \A i \in Nat : o(i) \in Nat \ {0}
      /\ \A i, j \in Nat : i <= j => o(i) <= o(j)
      /\ \A i \in 1..Len(t) : o(i + 1) = IF t[i] = "sp" THEN o(i) ELSE o(i) + 1
  BY OrdIs
<1>2. \A i \in K : o(i + 1) = o(i) + 1 /\ o(i) \in Nat \ {0}
  BY <1>0, <1>1
<1>3. \A i \in K : Cardinality({j \in K : j <= i}) = o(i)
  <2> SUFFICES ASSUME NEW i \in K PROVE Cardinality({j \in K : j <= i}) = o(i)
    OBVIOUS
  <2>1. {j \in K : j <= i} = {j \in K : j < i + 1}
    <3>1. \A j \in K : j <= i <=> j < i + 1
      BY <1>0
    <3>2. QED
      BY <3>1
  <2>2. o(i + 1) = Cardinality({j \in K : j < i + 1}) + 1
    BY DEF Ord
  <2> DEFINE m == Cardinality({j \in K : j < i + 1})
  <2>3. m \in Nat
    <3>1. IsFiniteSet(1..Len(t)) /\ {j \in K : j < i + 1} \in SUBSET (1..Len(t))
      BY <1>0, FS_Interval
    <3>2. IsFiniteSet({j \in K : j < i + 1})
      BY <3>1, FS_Subset
    <3>3. QED
      BY <3>2, FS_CardinalityType
  <2>4. o(i + 1) = m + 1 /\ o(i + 1) = o(i) + 1 /\ o(i) \in Nat
    BY <1>2, <2>2
  <2> HIDE DEF o, m
  <2>5. m = o(i)
    BY <2>3, <2>4
  <2>6. QED
    BY <2>1, <2>5 DEF m
<1> HIDE DEF n, o, K
<1>4. \A k \in 1..n : \E i \in K : o(i) = k
  <2> SUFFICES ASSUME NEW k \in 1..n PROVE \E i \in K : o(i) = k
    OBVIOUS
  <2> DEFINE T == {i \in 1..(Len(t) + 1) : o(i) > k}
  <2>1. T \in SUBSET Nat /\ T # {}
    <3>1. Len(t) + 1 \in T
      BY <1>0, <1>1
    <3>2. QED
      BY <1>0, <3>1
  <2> HIDE DEF T
  <2>2. PICK i \in T : \A j \in T : i <= j
    BY <2>1, Least
  <2>3. i \in 1..(Len(t) + 1) /\ o(i) > k
    BY DEF T
  <2>4. i # 1
    BY <1>1, <2>3
  <2>5. i - 1 \in 1..Len(t) /\ ~(i <= i - 1) /\ i - 1 \in 1..(Len(t) + 1) /\ (i - 1) + 1 = i /\ i - 1 \in Nat
    BY <1>0, <2>3, <2>4
  <2>6. ~(o(i - 1) > k)
    BY <2>2, <2>5 DEF T
  <2>7. o(i) = IF t[i - 1] = "sp" THEN o(i - 1) ELSE o(i - 1) + 1
    BY <1>1, <2>5
  <2>8. o(i - 1) \in Nat
    BY <1>1, <2>5
  <2>9. t[i - 1] # "sp" /\ o(i - 1) = k
    BY <2>3, <2>6, <2>7, <2>8
  <2>10. i - 1 \in K
    BY <2>5, <2>9 DEF K, Solid
  <2>11. QED
    BY <2>9, <2>10
<1>5. \A i, j \in K : o(i) = o(j) => i = j
  <2>1. ASSUME NEW i \in K, NEW j \in K, i < j PROVE o(i) # o(j)
    <3>1. i + 1 <= j /\ i + 1 \in Nat /\ j \in Nat
      BY <1>0, <2>1
    <3>2. o(i + 1) <= o(j)
      BY <1>1, <3>1
    <3>3. QED
      BY <1>2, <3>2
  <2>2. \A i, j \in K : i < j \/ j < i \/ i = j
    BY <1>0
  <2>3. QED
    BY <2>1, <2>2
<1>6. \A i \in K : spot(o(i)) = i
  <2> SUFFICES ASSUME NEW i \in K PROVE spot(o(i)) = i
    OBVIOUS
  <2>1. spot(o(i)) = CHOOSE j \in K : Cardinality({m \in K : m <= j}) = o(i)
    OBVIOUS
  <2>2. \A j \in K : Cardinality({m \in K : m <= j}) = o(i) <=> j = i
    BY <1>3, <1>5
  <2>3. QED
    BY <2>1, <2>2
<1> HIDE DEF spot
<1>7. \A k \in 1..n : t[spot(k)] \in S
  BY <1>0, <1>4, <1>6
<1>8. b \in Seq(S) /\ Len(b) = n
  BY <1>1, <1>7, IsASeq
<1>9. \A i \in K : o(i) \in 1..n
  <2> SUFFICES ASSUME NEW i \in K PROVE o(i) \in 1..n
    OBVIOUS
  <2>1. i + 1 <= Len(t) + 1 /\ i + 1 \in Nat /\ Len(t) + 1 \in Nat
    BY <1>0
  <2>2. o(i + 1) <= n + 1
    BY <1>1, <2>1
  <2>3. o(i + 1) = o(i) + 1 /\ o(i) \in Nat \ {0}
    BY <1>2
  <2> DEFINE k == o(i)
  <2>4. k + 1 <= n + 1 /\ k \in Nat /\ k # 0
    BY <2>2, <2>3
  <2> HIDE DEF k
  <2>5. k \in 1..n
    BY <1>1, <2>4
  <2>6. QED
    BY <2>5 DEF k
<1>10. \A i \in K : b[o(i)] = t[i]
  BY <1>6, <1>9
<1>11. Blankless(t) = b
  BY DEF Blankless, spot, n, K
<1> HIDE DEF b
<1>12. QED
  BY <1>1, <1>4, <1>8, <1>9, <1>10, <1>11 DEF o, K

-----------------------------------------------------------------------------
(* The rules of the grammar, one for each way to build and to take apart.  *)

Fn  == {"array", "object"}
Sep == ","

Opens(fn)  == IF fn = "array" THEN "[" ELSE "{"
Closes(fn) == IF fn = "array" THEN "]" ELSE "}"
ListOf(fn) == IF fn = "array" THEN "elements" ELSE "members"

IsVal(t, i, j)      == Table(t)[<<"value", i, j>>]
IsList(t, fn, i, j) == Table(t)[<<ListOf(fn), i, j>>]

(* An element, or a member with its key.                                   *)
Item(t, fn, i, j) ==
  IF fn = "array" THEN IsVal(t, i, j)
  ELSE i + 2 <= j /\ t[i] \in Strings /\ t[i + 1] = ":" /\ IsVal(t, i + 2, j)

(* What stands between the brackets at i and j.                            *)
Filling(t, fn, i, j) == j = i + 1 \/ IsList(t, fn, i + 1, j - 1)

Container(t, fn, i, j) == t[i] = Opens(fn) /\ t[j] = Closes(fn) /\ Filling(t, fn, i, j)

LEMMA ValueRule ==
  ASSUME NEW t \in Seq(Symbols), NEW i \in 1..(Len(t) + 1), NEW j \in 0..Len(t)
  PROVE  IsVal(t, i, j) <=>
           /\ i <= j
           /\ IsScalar(SubSeq(t, i, j)) \/ (\E fn \in Fn : Container(t, fn, i, j))
<1> DEFINE is == Table(t)
           p  == <<"value", i, j>>
<1>1. Len(t) \in Nat
  OBVIOUS
<1>2. is = [q \in Parts(t) |-> Part(is, t, q)]
  BY <1>1, TableIs DEF IsTable
<1>3. p \in Parts(t) /\ p[1] = "value" /\ p[2] = i /\ p[3] = j
  BY DEF Parts
<1> HIDE DEF is, p
<1>4. is[p] = Part(is, t, p)
  BY <1>2, <1>3, Zenon
<1>5. is[p] = ValuePart(is, t, i, j)
  BY <1>3, <1>4, Zenon DEF Part
<1>6. /\ Inside(is, "elements", i, j) <=> Filling(t, "array", i, j)
      /\ Inside(is, "members", i, j) <=> Filling(t, "object", i, j)
  BY Zenon DEF Inside, Filling, IsList, ListOf, is
<1>7. /\ Opens("array") = "[" /\ Closes("array") = "]"
      /\ Opens("object") = "{" /\ Closes("object") = "}"
  BY DEF Opens, Closes
<1>8. (\E fn \in Fn : Container(t, fn, i, j)) <=>
        Container(t, "array", i, j) \/ Container(t, "object", i, j)
  BY Zenon DEF Fn
<1>9. QED
  BY <1>5, <1>6, <1>7, <1>8, Zenon DEF ValuePart, Container, IsVal, is, p

LEMMA ListRule ==
  ASSUME NEW t \in Seq(Symbols), NEW fn \in Fn, NEW i \in 1..(Len(t) + 1), NEW j \in 0..Len(t)
  PROVE  IsList(t, fn, i, j) <=>
           \/ Item(t, fn, i, j)
           \/ \E c \in 1..Len(t) : /\ i < c /\ c < j /\ t[c] = Sep
                                   /\ Item(t, fn, i, c - 1) /\ IsList(t, fn, c + 1, j)
<1> DEFINE is == Table(t)
           k  == ListOf(fn)
           p  == <<k, i, j>>
<1>1. Len(t) \in Nat
  OBVIOUS
<1>2. is = [q \in Parts(t) |-> Part(is, t, q)]
  BY <1>1, TableIs DEF IsTable
<1>3. k \in {"elements", "members"} /\ k # "value" /\ (k = "elements" <=> fn = "array")
  BY DEF Fn, ListOf
<1> HIDE DEF k
<1>4. p \in Parts(t) /\ p[1] = k /\ p[2] = i /\ p[3] = j
  BY <1>3 DEF Parts
<1> HIDE DEF is, p
<1>5. is[p] = Part(is, t, p)
  BY <1>2, <1>4, Zenon
<1>6. is[p] = ListPart(is, t, k, i, j)
  BY <1>3, <1>4, <1>5, Zenon DEF Part
<1>7. \A c : First(is, t, k, i, c) <=> Item(t, fn, i, c)
  BY <1>3, Zenon DEF First, Item, IsVal, is
<1>8. QED
  BY <1>6, <1>7, Zenon DEF ListPart, IsList, Sep, is, p, k

LEMMA ValueHas ==
  ASSUME NEW t \in Seq(Symbols), NEW i \in 1..(Len(t) + 1), NEW j \in 0..Len(t), IsVal(t, i, j)
  PROVE  /\ i <= j /\ i \in 1..Len(t)
         /\ t[i] \notin {"]", "}", ",", ":"}
         /\ \A fn \in Fn : t[i] = Opens(fn) => i < j /\ Container(t, fn, i, j)
         /\ t[i] \notin {"[", "{"} => IsScalar(SubSeq(t, i, j))
<1>1. i <= j /\ (IsScalar(SubSeq(t, i, j)) \/ \E fn \in Fn : Container(t, fn, i, j))
  BY ValueRule
<1>2. i \in 1..Len(t) /\ Len(t) \in Nat
  BY <1>1
<1> DEFINE s == SubSeq(t, i, j)
<1>3. s \in Seq(Symbols) /\ s[1] = t[i]
  <2>1. \A k \in i..j : t[k] \in Symbols
    BY <1>2
  <2>2. i \in Int /\ j \in Int /\ 1 \in 1..(j - i + 1) /\ i + 1 - 1 = i
    BY <1>1, <1>2
  <2>3. s \in Seq(Symbols) /\ s[1] = t[i + 1 - 1]
    BY <2>1, <2>2, SubSeqProperties
  <2>4. QED
    BY <2>2, <2>3
<1> HIDE DEF s
<1>4. IsScalar(s) => t[i] \notin {"[", "{", "]", "}", ",", ":"}
  <2>1. IsScalar(s) => t[i] \in NumberSigns \cup Strings \cup Words
    BY <1>3, ScalarIs
  <2>2. QED
    BY <2>1 DEF NumberSigns, Digits, Strings, Words
<1>5. \A fn \in Fn : Container(t, fn, i, j) =>
        t[i] \in {"[", "{"} /\ i < j /\ (\A g \in Fn : t[i] = Opens(g) => g = fn)
  <2> SUFFICES ASSUME NEW fn \in Fn, Container(t, fn, i, j)
               PROVE  t[i] \in {"[", "{"} /\ i < j /\ (\A g \in Fn : t[i] = Opens(g) => g = fn)
    OBVIOUS
  <2>1. t[i] = Opens(fn) /\ t[j] = Closes(fn) /\ Opens(fn) # Closes(fn)
    BY DEF Container, Opens, Closes
  <2>2. i # j
    BY <2>1
  <2>3. i < j
    BY <1>1, <1>2, <2>2
  <2>4. t[i] \in {"[", "{"} /\ (\A g \in Fn : t[i] = Opens(g) => g = fn)
    BY <2>1 DEF Opens, Fn
  <2>5. QED
    BY <2>3, <2>4
<1>6. \A fn \in Fn : Opens(fn) \in {"[", "{"}
  BY DEF Opens
<1>7. t[i] \notin {"]", "}", ",", ":"}
  <2>1. CASE IsScalar(s)
    BY <1>4, <2>1
  <2>2. CASE ~IsScalar(s)
    <3>1. t[i] \in {"[", "{"}
      BY <1>1, <1>5, <2>2 DEF s
    <3>2. QED
      BY <3>1
  <2>3. QED
    BY <2>1, <2>2
<1>8. \A fn \in Fn : t[i] = Opens(fn) => i < j /\ Container(t, fn, i, j)
  <2> SUFFICES ASSUME NEW fn \in Fn, t[i] = Opens(fn) PROVE i < j /\ Container(t, fn, i, j)
    OBVIOUS
  <2>1. t[i] \in {"[", "{"}
    BY <1>6
  <2>2. ~IsScalar(s)
    BY <1>4, <2>1
  <2>3. PICK g \in Fn : Container(t, g, i, j)
    BY <1>1, <2>2 DEF s
  <2>4. QED
    BY <1>5, <2>3
<1>9. t[i] \notin {"[", "{"} => IsScalar(s)
  BY <1>1, <1>5 DEF s
<1>10. QED
  BY <1>1, <1>2, <1>7, <1>8, <1>9 DEF s

LEMMA ItemHas ==
  ASSUME NEW t \in Seq(Symbols), NEW fn \in Fn, NEW i \in 1..(Len(t) + 1), NEW j \in 0..Len(t),
         Item(t, fn, i, j)
  PROVE  /\ i <= j /\ i \in 1..Len(t) /\ t[i] # Closes(fn)
         /\ fn = "array" => IsVal(t, i, j)
         /\ fn = "object" => /\ i + 2 <= j /\ t[i] \in Strings /\ t[i + 1] = ":"
                             /\ IsVal(t, i + 2, j)
<1>0. Len(t) \in Nat
  OBVIOUS
<1>1. CASE fn = "array"
  <2>1. IsVal(t, i, j)
    BY <1>1 DEF Item
  <2>2. i <= j /\ i \in 1..Len(t) /\ t[i] \notin {"]", "}", ",", ":"}
    BY <2>1, ValueHas
  <2>3. QED
    BY <1>1, <2>1, <2>2 DEF Closes
<1>2. CASE fn = "object"
  <2>1. i + 2 <= j /\ t[i] \in Strings /\ t[i + 1] = ":" /\ IsVal(t, i + 2, j)
    BY <1>2 DEF Item
  <2>2. i <= j /\ i \in 1..Len(t)
    BY <1>0, <2>1
  <2>3. t[i] # Closes(fn)
    BY <1>2, <2>1 DEF Strings, Closes
  <2>4. QED
    BY <1>2, <2>1, <2>2, <2>3
<1>3. QED
  BY <1>1, <1>2 DEF Fn

(* What follows the first item of a list.                                  *)
Tailed(t, fn, c, j) == c = j + 1 \/ (c < j /\ t[c] = Sep /\ IsList(t, fn, c + 1, j))

LEMMA ListHas ==
  ASSUME NEW t \in Seq(Symbols), NEW fn \in Fn, NEW i \in 1..(Len(t) + 1), NEW j \in 0..Len(t),
         IsList(t, fn, i, j)
  PROVE  /\ i <= j /\ i \in 1..Len(t) /\ t[i] # Closes(fn)
         /\ \E c \in (i + 1)..(j + 1) : Item(t, fn, i, c - 1) /\ Tailed(t, fn, c, j)
<1>0. Len(t) \in Nat
  OBVIOUS
<1>1. CASE Item(t, fn, i, j)
  <2>1. i <= j /\ i \in 1..Len(t) /\ t[i] # Closes(fn)
    BY <1>1, ItemHas
  <2>2. j + 1 \in (i + 1)..(j + 1) /\ (j + 1) - 1 = j
    BY <1>0, <2>1
  <2>3. QED
    BY <1>1, <2>1, <2>2 DEF Tailed
<1>2. CASE ~Item(t, fn, i, j)
  <2>1. PICK c \in 1..Len(t) : /\ i < c /\ c < j /\ t[c] = Sep
                               /\ Item(t, fn, i, c - 1) /\ IsList(t, fn, c + 1, j)
    BY <1>2, ListRule, Zenon
  <2>2. c - 1 \in 0..Len(t) /\ c \in (i + 1)..(j + 1) /\ i <= j
    <3>1. i < c /\ c < j
      BY <2>1, Zenon
    <3>2. QED
      BY <1>0, <3>1
  <2>3. i \in 1..Len(t) /\ t[i] # Closes(fn)
    BY <2>1, <2>2, ItemHas
  <2>4. QED
    BY <2>1, <2>2, <2>3 DEF Tailed
<1>3. QED
  BY <1>1, <1>2

-----------------------------------------------------------------------------
(* What was read is the beginning of a value.  f has the calls that are    *)
(* active, t is the text without blanks, p the place in it, q is pc.  Of   *)
(* each call, c has the place where the element or the member begins that  *)
(* it is reading, which for the call before them all is the whole text.    *)

(* Where the value begins.                                                 *)
Base(f, c, k) == IF k > 0 /\ f[k] = "object" THEN c[k] + 2 ELSE c[k]

HasKey(t, f, c, k) ==
  f[k] = "object" => c[k] + 1 <= Len(t) /\ t[c[k]] \in Strings /\ t[c[k] + 1] = ":"

(* A list from c on makes one from i on, with what was read in between.    *)
Continues(t, fn, i, c) == \A j \in 0..Len(t) : IsList(t, fn, c, j) => IsList(t, fn, i, j)

Begun(t, f, c, k) ==
  /\ Base(f, c, k - 1) \in 1..Len(t) /\ t[Base(f, c, k - 1)] = Opens(f[k])
  /\ Base(f, c, k - 1) < c[k]
  /\ Continues(t, f[k], Base(f, c, k - 1) + 1, c[k])

Spells(t, f, c) ==
  /\ c \in [0..Len(f) -> 1..(Len(t) + 1)] /\ c[0] = 1
  /\ \A k \in 1..Len(f) : Begun(t, f, c, k)
  /\ \A k \in 1..(Len(f) - 1) : HasKey(t, f, c, k)

Stands(t, q, f, c, p) ==
  /\ q \in {"value", "returned", "separator"} => (Len(f) > 0 => HasKey(t, f, c, Len(f)))
  /\ q = "value" => p = Base(f, c, Len(f))
  /\ q \in {"first", "key"} => p = c[Len(f)]
  /\ q = "first" => p = Base(f, c, Len(f) - 1) + 1
  /\ q = "colon" => p = c[Len(f)] + 1 /\ t[c[Len(f)]] \in Strings
  /\ q \in {"returned", "separator", "accepted"} => IsVal(t, Base(f, c, Len(f)), p - 1)
  /\ q = "accepted" => f = <<>> /\ p = Len(t) + 1

Sound(t, q, f, p) ==
  q \notin {"failed", "rejected"} =>
    \E c : Spells(t, f, c) /\ Stands(t, q, f, c, p)

LEMMA BaseIs ==
  ASSUME NEW t \in Seq(Symbols), NEW f \in Seq(Fn), NEW c, Spells(t, f, c)
  PROVE  /\ Len(t) \in Nat /\ Len(f) \in Nat
         /\ \A k \in 0..Len(f) : c[k] \in 1..(Len(t) + 1) /\ c[k] \in Nat
                                 /\ Base(f, c, k) \in Nat /\ c[k] <= Base(f, c, k)
         /\ \A k \in 1..Len(f) : f[k] \in Fn
         /\ Len(f) \in 0..Len(f)
         /\ f # <<>> => Len(f) \in 1..Len(f) /\ Len(f) - 1 \in 0..Len(f) /\ Len(f) > 0
<1>1. Len(t) \in Nat /\ Len(f) \in Nat /\ \A k \in 1..Len(f) : f[k] \in Fn
  OBVIOUS
<1>2. \A k \in 0..Len(f) : c[k] \in 1..(Len(t) + 1)
  BY DEF Spells
<1>3. \A k \in 0..Len(f) : c[k] \in Nat /\ Base(f, c, k) \in Nat /\ c[k] <= Base(f, c, k)
  BY <1>1, <1>2 DEF Base
<1>4. f # <<>> => Len(f) > 0
  BY <1>1, EmptySeq
<1>5. QED
  BY <1>1, <1>2, <1>3, <1>4

LEMMA SoundOpen ==
  ASSUME NEW t \in Seq(Symbols), NEW f \in Seq(Fn), NEW fn \in Fn, NEW p \in 1..Len(t),
         t[p] = Opens(fn), Sound(t, "value", f, p)
  PROVE  Sound(t, "first", Append(f, fn), p + 1)
<1>1. PICK c : Spells(t, f, c) /\ Stands(t, "value", f, c, p)
  BY DEF Sound
<1> DEFINE m == Len(f)
           g == Append(f, fn)
           d == [k \in 0..(m + 1) |-> IF k = m + 1 THEN p + 1 ELSE c[k]]
<1>2. /\ Len(t) \in Nat /\ m \in Nat
      /\ \A k \in 0..m : c[k] \in 1..(Len(t) + 1) /\ Base(f, c, k) \in Nat
  BY <1>1, BaseIs
<1>3. g \in Seq(Fn) /\ Len(g) = m + 1 /\ g[m + 1] = fn /\ \A k \in 1..m : g[k] = f[k]
  BY AppendProperties
<1> HIDE DEF g
<1>4. /\ \A k \in 0..m : d[k] = c[k] /\ k \in 0..(m + 1)
      /\ d[m + 1] = p + 1
  BY <1>2
<1>5. d \in [0..Len(g) -> 1..(Len(t) + 1)]
  <2>1. p + 1 \in 1..(Len(t) + 1)
    BY <1>2
  <2>2. \A k \in 0..(m + 1) : d[k] \in 1..(Len(t) + 1)
    BY <1>2, <2>1
  <2> HIDE DEF m
  <2>3. QED
    BY <1>3, <2>2
<1> HIDE DEF d
<1>6. \A k \in 0..m : Base(g, d, k) = Base(f, c, k)
  <2> SUFFICES ASSUME NEW k \in 0..m PROVE Base(g, d, k) = Base(f, c, k)
    OBVIOUS
  <2>1. k > 0 => k \in 1..m
    BY <1>2
  <2>2. QED
    BY <1>3, <1>4, <2>1 DEF Base
<1>7. \A k \in 1..m : k - 1 \in 0..m /\ k \in 0..m
  BY <1>2
<1>8. ASSUME NEW k \in 1..m PROVE Begun(t, g, d, k)
  <2>1. Begun(t, f, c, k)
    BY <1>1 DEF Spells, m
  <2>2. Base(g, d, k - 1) = Base(f, c, k - 1) /\ d[k] = c[k] /\ g[k] = f[k]
    BY <1>3, <1>4, <1>6, <1>7
  <2>3. QED
    BY <2>1, <2>2, Zenon DEF Begun
<1>9. Begun(t, g, d, m + 1)
  <2>1. Base(g, d, (m + 1) - 1) = p
    <3>1. (m + 1) - 1 = m /\ m \in 0..m
      BY <1>2
    <3>2. Base(f, c, m) = p
      BY <1>1 DEF Stands, m
    <3>3. QED
      BY <1>6, <3>1, <3>2
  <2>2. p < p + 1 /\ Continues(t, fn, p + 1, p + 1)
    BY <1>2 DEF Continues
  <2>3. QED
    BY <1>3, <1>4, <2>1, <2>2, Zenon DEF Begun
<1>10. ASSUME NEW k \in 1..m PROVE HasKey(t, g, d, k)
  <2>1. HasKey(t, f, c, k)
    <3>1. CASE k = m
      <4>1. m > 0
        BY <1>2, <3>1
      <4>2. QED
        BY <1>1, <3>1, <4>1 DEF Stands, m
    <3>2. CASE k # m
      <4>1. k \in 1..(m - 1)
        BY <1>2, <3>2
      <4>2. QED
        BY <1>1, <4>1 DEF Spells, m
    <3>3. QED
      BY <3>1, <3>2
  <2>2. d[k] = c[k] /\ g[k] = f[k]
    BY <1>3, <1>4, <1>7
  <2>3. QED
    BY <2>1, <2>2, Zenon DEF HasKey
<1>11. Spells(t, g, d)
  <2>1. d[0] = 1
    <3>1. 0 \in 0..m
      BY <1>2
    <3>2. QED
      BY <1>1, <1>4, <3>1 DEF Spells
  <2>2. \A k \in 1..Len(g) : Begun(t, g, d, k)
    <3>1. \A k \in 1..Len(g) : k \in 1..m \/ k = m + 1
      BY <1>2, <1>3
    <3>2. QED
      BY <1>8, <1>9, <3>1
  <2>3. \A k \in 1..(Len(g) - 1) : HasKey(t, g, d, k)
    <3>1. \A k \in 1..(Len(g) - 1) : k \in 1..m
      BY <1>2, <1>3
    <3>2. QED
      BY <1>10, <3>1
  <2>4. QED
    BY <1>5, <2>1, <2>2, <2>3 DEF Spells
<1>12. Stands(t, "first", g, d, p + 1)
  <2>1. p + 1 = d[Len(g)]
    BY <1>3, <1>4
  <2>2. p + 1 = Base(g, d, Len(g) - 1) + 1
    <3>1. Len(g) - 1 = m /\ m \in 0..m
      BY <1>2, <1>3
    <3>2. Base(f, c, m) = p
      BY <1>1 DEF Stands, m
    <3>3. QED
      BY <1>6, <3>1, <3>2
  <2>3. QED
    BY <2>1, <2>2 DEF Stands
<1>13. Sound(t, "first", g, p + 1)
  BY <1>11, <1>12 DEF Sound
<1>14. QED
  BY <1>13 DEF g

(* The loop of parse_array or parse_object, behind the bracket.            *)
LEMMA SoundLoop ==
  ASSUME NEW t \in Seq(Symbols), NEW f \in Seq(Fn), f # <<>>, NEW p,
         Sound(t, "first", f, p)
  PROVE  Sound(t, IF f[Len(f)] = "array" THEN "value" ELSE "key", f, p)
<1>1. PICK c : Spells(t, f, c) /\ Stands(t, "first", f, c, p)
  BY DEF Sound
<1>2. p = c[Len(f)] /\ f[Len(f)] \in Fn
  BY <1>1, BaseIs DEF Stands
<1>3. CASE f[Len(f)] = "array"
  <2>1. Base(f, c, Len(f)) = p /\ HasKey(t, f, c, Len(f))
    BY <1>2, <1>3 DEF Base, HasKey
  <2>2. Stands(t, "value", f, c, p)
    BY <2>1 DEF Stands
  <2>3. QED
    BY <1>1, <1>3, <2>2 DEF Sound
<1>4. CASE f[Len(f)] # "array"
  <2>1. Stands(t, "key", f, c, p)
    BY <1>2 DEF Stands
  <2>2. QED
    BY <1>1, <1>4, <2>1 DEF Sound
<1>5. QED
  BY <1>3, <1>4

LEMMA SoundKey ==
  ASSUME NEW t \in Seq(Symbols), NEW f \in Seq(Fn), f # <<>>, NEW p \in 1..Len(t),
         t[p] \in Strings, Sound(t, "key", f, p)
  PROVE  Sound(t, "colon", f, p + 1)
<1>1. PICK c : Spells(t, f, c) /\ Stands(t, "key", f, c, p)
  BY DEF Sound
<1>2. Stands(t, "colon", f, c, p + 1)
  BY <1>1 DEF Stands
<1>3. QED
  BY <1>1, <1>2 DEF Sound

LEMMA SoundColon ==
  ASSUME NEW t \in Seq(Symbols), NEW f \in Seq(Fn), f # <<>>, f[Len(f)] = "object",
         NEW p \in 1..Len(t), t[p] = ":", Sound(t, "colon", f, p)
  PROVE  Sound(t, "value", f, p + 1)
<1>1. PICK c : Spells(t, f, c) /\ Stands(t, "colon", f, c, p)
  BY DEF Sound
<1>2. p = c[Len(f)] + 1 /\ t[c[Len(f)]] \in Strings
  BY <1>1 DEF Stands
<1>3. Len(f) > 0 /\ Len(f) \in 0..Len(f) /\ c[Len(f)] \in Nat /\ Len(t) \in Nat
  BY <1>1, BaseIs
<1>4. p + 1 = Base(f, c, Len(f))
  <2>1. Base(f, c, Len(f)) = c[Len(f)] + 2
    BY <1>3 DEF Base
  <2> DEFINE x == c[Len(f)]
  <2>2. x \in Nat /\ p = x + 1 /\ Base(f, c, Len(f)) = x + 2
    BY <1>2, <1>3, <2>1
  <2> HIDE DEF x
  <2>3. QED
    BY <2>2
<1>5. HasKey(t, f, c, Len(f))
  <2>1. c[Len(f)] + 1 <= Len(t)
    BY <1>2, <1>3
  <2>2. QED
    BY <1>2, <2>1 DEF HasKey
<1>6. Stands(t, "value", f, c, p + 1)
  BY <1>4, <1>5 DEF Stands
<1>7. QED
  BY <1>1, <1>6 DEF Sound

LEMMA SoundScalar ==
  ASSUME NEW t \in Seq(Symbols), NEW f \in Seq(Fn), NEW p, NEW e,
         IsVal(t, p, e - 1), Sound(t, "value", f, p)
  PROVE  Sound(t, "returned", f, e)
<1>1. PICK c : Spells(t, f, c) /\ Stands(t, "value", f, c, p)
  BY DEF Sound
<1>2. Stands(t, "returned", f, c, e)
  BY <1>1 DEF Stands
<1>3. QED
  BY <1>1, <1>2 DEF Sound

LEMMA SoundAppend ==
  ASSUME NEW t, NEW f, NEW p, Sound(t, "returned", f, p)
  PROVE  /\ Sound(t, "separator", f, p)
         /\ f = <<>> /\ p = Len(t) + 1 => Sound(t, "accepted", f, p)
<1>1. PICK c : Spells(t, f, c) /\ Stands(t, "returned", f, c, p)
  BY DEF Sound
<1>2. Stands(t, "separator", f, c, p)
  BY <1>1 DEF Stands
<1>3. f = <<>> /\ p = Len(t) + 1 => Stands(t, "accepted", f, c, p)
  BY <1>1 DEF Stands
<1>4. QED
  BY <1>1, <1>2, <1>3 DEF Sound

LEMMA SoundItem ==
  ASSUME NEW t \in Seq(Symbols), NEW f \in Seq(Fn), f # <<>>, NEW p \in 1..(Len(t) + 1),
         NEW c, Spells(t, f, c), Stands(t, "separator", f, c, p)
  PROVE  /\ Item(t, f[Len(f)], c[Len(f)], p - 1) /\ c[Len(f)] <= p - 1
         /\ p - 1 \in 0..Len(t)
<1> DEFINE m == Len(f)
           x == c[m]
<1>1. /\ m \in 0..m /\ m > 0 /\ x \in Nat /\ x \in 1..(Len(t) + 1) /\ Len(t) \in Nat
      /\ f[m] \in Fn /\ p - 1 \in 0..Len(t)
  BY BaseIs
<1>2. IsVal(t, Base(f, c, m), p - 1) /\ HasKey(t, f, c, m)
  BY <1>1 DEF Stands
<1>3. CASE f[m] = "array"
  <2>1. IsVal(t, x, p - 1)
    BY <1>2, <1>3 DEF Base
  <2>2. x <= p - 1
    BY <1>1, <2>1, ValueHas
  <2>3. QED
    BY <1>1, <1>3, <2>1, <2>2 DEF Item
<1>4. CASE f[m] = "object"
  <2>1. Base(f, c, m) = x + 2
    BY <1>1, <1>4 DEF Base
  <2>2. x + 1 <= Len(t) /\ t[x] \in Strings /\ t[x + 1] = ":"
    BY <1>2, <1>4 DEF HasKey
  <2> HIDE DEF x, m
  <2>3. x + 2 \in 1..(Len(t) + 1)
    BY <1>1, <2>2
  <2>4. x + 2 <= p - 1
    BY <1>1, <1>2, <2>1, <2>3, ValueHas
  <2>5. x <= p - 1
    BY <1>1, <2>4
  <2>6. Item(t, f[m], x, p - 1)
    BY <1>2, <1>4, <2>1, <2>2, <2>4 DEF Item
  <2>7. QED
    BY <1>1, <2>5, <2>6 DEF x, m
<1>5. QED
  BY <1>1, <1>3, <1>4 DEF Fn

LEMMA SoundClose ==
  ASSUME NEW t \in Seq(Symbols), NEW f \in Seq(Fn), f # <<>>, NEW p \in 1..Len(t),
         t[p] = Closes(f[Len(f)]), NEW q \in {"first", "separator"}, Sound(t, q, f, p)
  PROVE  Sound(t, "returned", SubSeq(f, 1, Len(f) - 1), p + 1)
<1>1. PICK c : Spells(t, f, c) /\ Stands(t, q, f, c, p)
  BY DEF Sound
<1> DEFINE m == Len(f)
           g == SubSeq(f, 1, m - 1)
           d == [k \in 0..(m - 1) |-> c[k]]
           x == c[m]
           b == Base(f, c, m - 1)
<1>2. /\ m \in 0..m /\ m > 0 /\ m \in Nat /\ x \in Nat /\ x \in 1..(Len(t) + 1) /\ Len(t) \in Nat
      /\ f[m] \in Fn /\ m \in 1..m /\ b \in Nat
      /\ \A k \in 0..m : c[k] \in 1..(Len(t) + 1)
  BY <1>1, BaseIs
<1>3. g \in Seq(Fn) /\ Len(g) = m - 1 /\ \A k \in 1..(m - 1) : g[k] = f[k]
  <2>1. 1 \in Int /\ m - 1 \in Int /\ \A k \in 1..(m - 1) : f[k] \in Fn
    BY <1>2
  <2>2. /\ g \in Seq(Fn) /\ Len(g) = (IF 1 <= m - 1 THEN (m - 1) - 1 + 1 ELSE 0)
        /\ \A k \in 1..((m - 1) - 1 + 1) : g[k] = f[1 + k - 1]
    BY <2>1, SubSeqProperties
  <2> HIDE DEF g
  <2>3. m \in Nat /\ m > 0
    BY <1>2, Zenon
  <2> HIDE DEF m
  <2>4. (IF 1 <= m - 1 THEN (m - 1) - 1 + 1 ELSE 0) = m - 1 /\ (m - 1) - 1 + 1 = m - 1
    BY <2>3
  <2>5. \A k \in 1..(m - 1) : 1 + k - 1 = k
    BY <2>3
  <2>6. QED
    BY <2>2, <2>4, <2>5
<1>4. /\ b \in 1..Len(t) /\ t[b] = Opens(f[m]) /\ b < x
      /\ Continues(t, f[m], b + 1, x)
  BY <1>1, <1>2, Zenon DEF Spells, Begun
<1> HIDE DEF g, b
<1>5. IsVal(t, b, p)
  <2>1. b <= p /\ p \in 0..Len(t) /\ Filling(t, f[m], b, p)
    <3>1. CASE q = "first"
      <4>1. p = b + 1
        BY <1>1, <3>1 DEF Stands, b
      <4>2. QED
        BY <1>2, <4>1 DEF Filling
    <3>2. CASE q = "separator"
      <4>1. p \in 1..(Len(t) + 1)
        BY <1>2
      <4>2. Item(t, f[m], x, p - 1) /\ x <= p - 1 /\ p - 1 \in 0..Len(t)
        BY <1>1, <3>2, <4>1, SoundItem
      <4>3. IsList(t, f[m], x, p - 1)
        BY <1>2, <4>2, ListRule
      <4>4. IsList(t, f[m], b + 1, p - 1)
        BY <1>4, <4>2, <4>3 DEF Continues
      <4> HIDE DEF x
      <4>5. b <= p
        BY <1>2, <1>4, <4>2
      <4>6. QED
        BY <1>2, <4>4, <4>5 DEF Filling
    <3>3. QED
      BY <3>1, <3>2
  <2>2. Container(t, f[m], b, p)
    BY <1>4, <2>1 DEF Container
  <2>3. b \in 1..(Len(t) + 1)
    BY <1>2, <1>4
  <2>4. QED
    BY <1>2, <2>1, <2>2, <2>3, ValueRule
<1>6. \A k \in 0..(m - 1) : d[k] = c[k] /\ k \in 0..m
  BY <1>2
<1>7. d \in [0..Len(g) -> 1..(Len(t) + 1)]
  BY <1>2, <1>3, <1>6
<1> HIDE DEF d
<1>8. \A k \in 0..(m - 1) : Base(g, d, k) = Base(f, c, k)
  <2> SUFFICES ASSUME NEW k \in 0..(m - 1) PROVE Base(g, d, k) = Base(f, c, k)
    OBVIOUS
  <2>1. k > 0 => k \in 1..(m - 1)
    BY <1>2
  <2>2. QED
    BY <1>3, <1>6, <2>1 DEF Base
<1>9. \A k \in 1..(m - 1) : k - 1 \in 0..(m - 1) /\ k \in 0..(m - 1) /\ k \in 1..m
  BY <1>2
<1>10. ASSUME NEW k \in 1..(m - 1) PROVE Begun(t, g, d, k) /\ HasKey(t, g, d, k)
  <2>1. Begun(t, f, c, k) /\ HasKey(t, f, c, k)
    BY <1>1, <1>9, Zenon DEF Spells, m
  <2>2. Base(g, d, k - 1) = Base(f, c, k - 1) /\ d[k] = c[k] /\ g[k] = f[k]
    BY <1>3, <1>6, <1>8, <1>9
  <2>3. QED
    BY <2>1, <2>2, Zenon DEF Begun, HasKey
<1>11. Spells(t, g, d)
  <2>1. d[0] = 1
    <3>1. 0 \in 0..(m - 1)
      BY <1>2
    <3>2. QED
      BY <1>1, <1>6, <3>1 DEF Spells
  <2>2. \A k \in 1..Len(g) : Begun(t, g, d, k)
    BY <1>3, <1>10
  <2>3. \A k \in 1..(Len(g) - 1) : HasKey(t, g, d, k)
    <3>1. \A k \in 1..(Len(g) - 1) : k \in 1..(m - 1)
      BY <1>2, <1>3
    <3>2. QED
      BY <1>10, <3>1
  <2>4. QED
    BY <1>7, <2>1, <2>2, <2>3 DEF Spells
<1>12. Stands(t, "returned", g, d, p + 1)
  <2>1. Len(g) > 0 => HasKey(t, g, d, Len(g))
    <3>1. Len(g) > 0 => Len(g) \in 1..(m - 1)
      BY <1>2, <1>3
    <3>2. QED
      BY <1>10, <3>1
  <2>2. Base(g, d, Len(g)) = b
    <3>1. Len(g) \in 0..(m - 1)
      BY <1>2, <1>3
    <3>2. QED
      BY <1>3, <1>8, <3>1 DEF b
  <2>3. (p + 1) - 1 = p
    BY <1>2
  <2>4. QED
    BY <1>5, <2>1, <2>2, <2>3 DEF Stands
<1>13. Sound(t, "returned", g, p + 1)
  BY <1>11, <1>12 DEF Sound
<1>14. QED
  BY <1>13 DEF g

LEMMA SoundComma ==
  ASSUME NEW t \in Seq(Symbols), NEW f \in Seq(Fn), f # <<>>, NEW p \in 1..Len(t),
         t[p] = Sep, Sound(t, "separator", f, p)
  PROVE  Sound(t, IF f[Len(f)] = "array" THEN "value" ELSE "key", f, p + 1)
<1>1. PICK c : Spells(t, f, c) /\ Stands(t, "separator", f, c, p)
  BY DEF Sound
<1> DEFINE m == Len(f)
           d == [c EXCEPT ![m] = p + 1]
           x == c[m]
           b == Base(f, c, m - 1)
<1>0. /\ m \in 0..m /\ m > 0 /\ m \in Nat /\ Len(t) \in Nat /\ f[m] \in Fn
      /\ m \in 1..m /\ m - 1 \in 0..m
  BY <1>1, BaseIs, Zenon
<1>2. /\ c \in [0..m -> 1..(Len(t) + 1)] /\ x \in Nat /\ x \in 1..(Len(t) + 1) /\ b \in Nat
  <2>1. c \in [0..m -> 1..(Len(t) + 1)]
    BY <1>1, Zenon DEF Spells
  <2>2. c[m] \in Nat /\ c[m] \in 1..(Len(t) + 1) /\ Base(f, c, m - 1) \in Nat
    BY <1>0, <1>1, BaseIs, Zenon
  <2>3. QED
    BY <2>1, <2>2
<1>3. /\ b \in 1..Len(t) /\ t[b] = Opens(f[m]) /\ b < x
      /\ Continues(t, f[m], b + 1, x)
  BY <1>0, <1>1, Zenon DEF Spells, Begun
<1> HIDE DEF m, x, b
<1>4. p \in 1..(Len(t) + 1) /\ p + 1 \in 1..(Len(t) + 1)
  BY <1>0
<1>5. Item(t, f[m], x, p - 1) /\ x <= p - 1 /\ p - 1 \in 0..Len(t)
  BY <1>1, <1>4, SoundItem DEF m, x
<1>6. Continues(t, f[m], b + 1, p + 1)
  <2> SUFFICES ASSUME NEW j \in 0..Len(t), IsList(t, f[m], p + 1, j)
               PROVE  IsList(t, f[m], b + 1, j)
    BY DEF Continues
  <2>1. p + 1 <= j
    BY <1>0, <1>4, ListHas
  <2>2. x < p /\ p < j
    <3>1. x <= p - 1
      BY <1>5, Zenon
    <3>2. x \in Nat
      BY <1>2, Zenon
    <3>3. QED
      BY <1>0, <2>1, <3>1, <3>2
  <2>3. \E y \in 1..Len(t) : /\ x < y /\ y < j /\ t[y] = Sep
                             /\ Item(t, f[m], x, y - 1) /\ IsList(t, f[m], y + 1, j)
    BY <1>5, <2>2
  <2>4. IsList(t, f[m], x, j)
    BY <1>0, <1>2, <2>3, ListRule
  <2>5. QED
    BY <1>3, <2>4 DEF Continues
<1>7. d \in [0..m -> 1..(Len(t) + 1)] /\ d[m] = p + 1 /\ \A k \in 0..(m - 1) : d[k] = c[k]
  <2>1. \A k \in 0..(m - 1) : k \in 0..m /\ k # m
    BY <1>0
  <2>2. QED
    BY <1>0, <1>2, <1>4, <2>1
<1> HIDE DEF d
<1>8. \A k \in 1..(m - 1) : k - 1 \in 0..(m - 1) /\ k \in 0..(m - 1) /\ k \in 1..m
  BY <1>0
<1>9. \A k \in 0..(m - 1) : Base(f, d, k) = Base(f, c, k)
  BY <1>7 DEF Base
<1>10. ASSUME NEW k \in 1..(m - 1) PROVE Begun(t, f, d, k) /\ HasKey(t, f, d, k)
  <2>1. Begun(t, f, c, k) /\ HasKey(t, f, c, k)
    BY <1>1, <1>8, Zenon DEF Spells, m
  <2>2. Base(f, d, k - 1) = Base(f, c, k - 1) /\ d[k] = c[k]
    BY <1>7, <1>8, <1>9
  <2>3. QED
    BY <2>1, <2>2, Zenon DEF Begun, HasKey
<1>11. Begun(t, f, d, m)
  <2>1. Base(f, d, m - 1) = b
    <3>1. m - 1 \in 0..(m - 1)
      BY <1>0
    <3>2. QED
      BY <1>9, <3>1 DEF b
  <2>2. b < p + 1
    <3>1. b < x /\ x <= p - 1
      BY <1>3, <1>5, Zenon
    <3>2. b \in Nat /\ x \in Nat
      BY <1>2, Zenon
    <3>3. QED
      BY <1>0, <3>1, <3>2
  <2>3. QED
    BY <1>3, <1>6, <1>7, <2>1, <2>2, Zenon DEF Begun
<1>12. Spells(t, f, d)
  <2>1. d[0] = 1
    <3>1. 0 \in 0..(m - 1)
      BY <1>0
    <3>2. QED
      BY <1>1, <1>7, <3>1 DEF Spells
  <2>2. \A k \in 1..m : Begun(t, f, d, k)
    <3>1. \A k \in 1..m : k \in 1..(m - 1) \/ k = m
      BY <1>0
    <3>2. QED
      BY <1>10, <1>11, <3>1
  <2>3. QED
    BY <1>7, <1>10, <2>1, <2>2 DEF Spells, m
<1>13. CASE f[m] = "array"
  <2>1. Base(f, d, m) = p + 1 /\ HasKey(t, f, d, m)
    BY <1>7, <1>13 DEF Base, HasKey
  <2>2. Stands(t, "value", f, d, p + 1)
    BY <2>1 DEF Stands, m
  <2>3. QED
    BY <1>12, <1>13, <2>2 DEF Sound, m
<1>14. CASE f[m] # "array"
  <2>1. Stands(t, "key", f, d, p + 1)
    BY <1>7 DEF Stands, m
  <2>2. QED
    BY <1>12, <1>14, <2>1 DEF Sound, m
<1>15. QED
  BY <1>13, <1>14 DEF m

-----------------------------------------------------------------------------
(* What is still to be read is the rest of a value: e has the places where *)
(* the brackets of the active calls are closed.                            *)

(* What is at x may follow an item of call k.                              *)
Ends(t, f, e, k, x) == IF k = 0 THEN x = Len(t) + 1 ELSE Tailed(t, f[k], x, e[k] - 1)

Room(t, f, e) ==
  /\ e \in [1..Len(f) -> 1..Len(t)]
  /\ \A k \in 1..Len(f) : t[e[k]] = Closes(f[k]) /\ Ends(t, f, e, k - 1, e[k] + 1)

ValueFrom(t, f, e, p) == \E j \in 0..Len(t) : IsVal(t, p, j) /\ Ends(t, f, e, Len(f), j + 1)

Awaits(t, q, f, e, p) ==
  /\ q \notin {"failed", "rejected"}
  /\ q = "value" => ValueFrom(t, f, e, p)
  /\ q = "first" => p = e[Len(f)] \/ IsList(t, f[Len(f)], p, e[Len(f)] - 1)
  /\ q = "key" => f[Len(f)] = "object" /\ IsList(t, "object", p, e[Len(f)] - 1)
  /\ q = "colon" => p \in 1..Len(t) /\ t[p] = ":" /\ ValueFrom(t, f, e, p + 1)
  /\ q \in {"returned", "separator"} => Ends(t, f, e, Len(f), p)

Complete(t, q, f, p) ==
  q # "accepted" => \E e : Room(t, f, e) /\ Awaits(t, q, f, e, p)

LEMMA RoomIs ==
  ASSUME NEW t \in Seq(Symbols), NEW f \in Seq(Fn), NEW e, Room(t, f, e)
  PROVE  /\ Len(t) \in Nat /\ Len(f) \in Nat
         /\ \A k \in 1..Len(f) : /\ f[k] \in Fn /\ e[k] \in 1..Len(t) /\ e[k] \in Nat
                                 /\ e[k] - 1 \in 0..Len(t) /\ (e[k] - 1) + 1 = e[k]
         /\ f # <<>> => Len(f) \in 1..Len(f) /\ Len(f) # 0
         /\ f = <<>> => Len(f) = 0
<1>1. Len(t) \in Nat /\ Len(f) \in Nat /\ \A k \in 1..Len(f) : f[k] \in Fn
  OBVIOUS
<1>2. \A k \in 1..Len(f) : e[k] \in 1..Len(t)
  BY DEF Room
<1>3. \A x \in 1..Len(t) : x \in Nat /\ x - 1 \in 0..Len(t) /\ (x - 1) + 1 = x
  BY <1>1
<1>4. f # <<>> => Len(f) \in 1..Len(f) /\ Len(f) # 0
  BY <1>1, EmptySeq
<1>5. QED
  BY <1>1, <1>2, <1>3, <1>4

(* A list begins with an item, behind which something may follow.          *)
LEMMA ListFrom ==
  ASSUME NEW t \in Seq(Symbols), NEW f \in Seq(Fn), f # <<>>, NEW e, Room(t, f, e),
         NEW p \in 1..(Len(t) + 1), IsList(t, f[Len(f)], p, e[Len(f)] - 1)
  PROVE  /\ p \in 1..Len(t) /\ t[p] # Closes(f[Len(f)])
         /\ f[Len(f)] = "array" => ValueFrom(t, f, e, p)
         /\ f[Len(f)] = "object" =>
              /\ t[p] \in Strings /\ p + 1 \in 1..Len(t) /\ t[p + 1] = ":"
              /\ ValueFrom(t, f, e, p + 2)
<1> DEFINE m  == Len(f)
           fn == f[m]
           j  == e[m] - 1
<1>1. m # 0 /\ fn \in Fn /\ j \in 0..Len(t) /\ Len(t) \in Nat
  BY RoomIs
<1> HIDE DEF fn, j, m
<1>2. IsList(t, fn, p, j)
  BY DEF fn, j, m
<1>3. /\ p \in 1..Len(t) /\ t[p] # Closes(fn)
      /\ \E c \in (p + 1)..(j + 1) : Item(t, fn, p, c - 1) /\ Tailed(t, fn, c, j)
  BY <1>1, <1>2, ListHas, Zenon
<1>4. PICK c \in (p + 1)..(j + 1) : Item(t, fn, p, c - 1) /\ Tailed(t, fn, c, j)
  BY <1>3, Zenon
<1>5. c - 1 \in 0..Len(t) /\ (c - 1) + 1 = c
  BY <1>1
<1>6. /\ fn = "array" => IsVal(t, p, c - 1)
      /\ fn = "object" => /\ p + 2 <= c - 1 /\ t[p] \in Strings /\ t[p + 1] = ":"
                          /\ IsVal(t, p + 2, c - 1)
  BY <1>1, <1>4, <1>5, ItemHas, Zenon
<1>7. Ends(t, f, e, m, (c - 1) + 1)
  BY <1>1, <1>4, <1>5, Zenon DEF Ends, fn, j
<1>8. fn = "object" => p + 1 \in 1..Len(t)
  <2>1. fn = "object" => p + 2 <= c - 1
    BY <1>6, Zenon
  <2>2. QED
    BY <1>1, <1>5, <2>1
<1>9. /\ fn = "array" => ValueFrom(t, f, e, p)
      /\ fn = "object" => ValueFrom(t, f, e, p + 2)
  BY <1>5, <1>6, <1>7, Zenon DEF ValueFrom, m
<1>10. QED
  BY <1>3, <1>6, <1>8, <1>9, Zenon DEF fn, m

LEMMA CompleteOpen ==
  ASSUME NEW t \in Seq(Symbols), NEW f \in Seq(Fn), NEW fn \in Fn, NEW p \in 1..Len(t),
         t[p] = Opens(fn), Complete(t, "value", f, p)
  PROVE  Complete(t, "first", Append(f, fn), p + 1)
<1>1. PICK e : Room(t, f, e) /\ Awaits(t, "value", f, e, p)
  BY DEF Complete
<1>2. PICK j \in 0..Len(t) : IsVal(t, p, j) /\ Ends(t, f, e, Len(f), j + 1)
  BY <1>1 DEF Awaits, ValueFrom
<1>3. p \in 1..(Len(t) + 1) /\ Len(t) \in Nat
  OBVIOUS
<1>4. p < j /\ Container(t, fn, p, j)
  BY <1>2, <1>3, ValueHas
<1> DEFINE m == Len(f)
           g == Append(f, fn)
           d == [k \in 1..(m + 1) |-> IF k = m + 1 THEN j ELSE e[k]]
<1>5. /\ g \in Seq(Fn) /\ Len(g) = m + 1 /\ g[m + 1] = fn /\ \A k \in 1..m : g[k] = f[k]
      /\ m \in Nat
  BY AppendProperties
<1> HIDE DEF g
<1>6. /\ d \in [1..(m + 1) -> 1..Len(t)] /\ d[m + 1] = j
      /\ \A k \in 1..m : d[k] = e[k] /\ k \in 1..(m + 1)
  <2>1. j \in 1..Len(t)
    BY <1>3, <1>4
  <2>2. \A k \in 1..m : e[k] \in 1..Len(t)
    BY <1>1, RoomIs
  <2>3. m + 1 \in 1..(m + 1) /\ \A k \in 1..m : k # m + 1 /\ k \in 1..(m + 1)
    BY <1>5
  <2>4. \A k \in 1..(m + 1) : k = m + 1 \/ k \in 1..m
    BY <1>5
  <2> HIDE DEF m
  <2>5. QED
    BY <2>1, <2>2, <2>3, <2>4
<1> HIDE DEF d
<1>7. ASSUME NEW k \in 0..m, NEW x
      PROVE  Ends(t, g, d, k, x) <=> Ends(t, f, e, k, x)
  <2>1. k # 0 => k \in 1..m
    BY <1>5
  <2>2. k # 0 => g[k] = f[k] /\ d[k] = e[k]
    BY <1>5, <1>6, <2>1
  <2>3. QED
    BY <2>2, Zenon DEF Ends
<1>8. \A k \in 1..Len(g) : t[d[k]] = Closes(g[k]) /\ Ends(t, g, d, k - 1, d[k] + 1)
  <2> SUFFICES ASSUME NEW k \in 1..Len(g)
               PROVE  t[d[k]] = Closes(g[k]) /\ Ends(t, g, d, k - 1, d[k] + 1)
    OBVIOUS
  <2>1. CASE k \in 1..m
    <3>1. t[e[k]] = Closes(f[k]) /\ Ends(t, f, e, k - 1, e[k] + 1)
      BY <1>1, <2>1 DEF Room
    <3>2. k - 1 \in 0..m
      BY <1>5, <2>1
    <3>3. QED
      BY <1>5, <1>6, <1>7, <2>1, <3>1, <3>2
  <2>2. CASE k = m + 1
    <3>1. k - 1 = m /\ m \in 0..m
      BY <1>5, <2>2
    <3>2. Ends(t, g, d, k - 1, j + 1)
      BY <1>2, <1>7, <3>1
    <3>3. t[j] = Closes(fn)
      BY <1>4 DEF Container
    <3>4. QED
      BY <1>5, <1>6, <2>2, <3>2, <3>3
  <2>3. k \in 1..m \/ k = m + 1
    BY <1>5
  <2>4. QED
    BY <2>1, <2>2, <2>3
<1>9. Room(t, g, d)
  BY <1>5, <1>6, <1>8 DEF Room
<1>10. Awaits(t, "first", g, d, p + 1)
  <2>1. p + 1 = d[Len(g)] \/ IsList(t, g[Len(g)], p + 1, d[Len(g)] - 1)
    <3>1. d[Len(g)] = j /\ g[Len(g)] = fn
      BY <1>5, <1>6
    <3>2. QED
      BY <1>4, <3>1, Zenon DEF Container, Filling
  <2>2. QED
    BY <2>1 DEF Awaits
<1>11. QED
  BY <1>9, <1>10 DEF Complete, g

(* The brackets are not empty.                                             *)
LEMMA CompleteLoop ==
  ASSUME NEW t \in Seq(Symbols), NEW f \in Seq(Fn), f # <<>>, NEW p \in 1..(Len(t) + 1),
         p \in 1..Len(t) => t[p] # Closes(f[Len(f)]), Complete(t, "first", f, p)
  PROVE  Complete(t, IF f[Len(f)] = "array" THEN "value" ELSE "key", f, p)
<1>1. PICK e : Room(t, f, e) /\ Awaits(t, "first", f, e, p)
  BY DEF Complete
<1>2. Len(f) \in 1..Len(f) /\ f[Len(f)] \in Fn /\ e[Len(f)] \in 1..Len(t)
  BY <1>1, RoomIs
<1>3. p # e[Len(f)]
  BY <1>1, <1>2 DEF Room
<1>4. IsList(t, f[Len(f)], p, e[Len(f)] - 1)
  BY <1>1, <1>3 DEF Awaits
<1>5. CASE f[Len(f)] = "array"
  <2>1. ValueFrom(t, f, e, p)
    BY <1>1, <1>4, <1>5, ListFrom
  <2>2. Awaits(t, "value", f, e, p)
    BY <2>1 DEF Awaits
  <2>3. QED
    BY <1>1, <1>5, <2>2 DEF Complete
<1>6. CASE f[Len(f)] = "object"
  <2>1. Awaits(t, "key", f, e, p)
    BY <1>4, <1>6 DEF Awaits
  <2>2. QED
    BY <1>1, <1>6, <2>1 DEF Complete
<1>7. QED
  BY <1>2, <1>5, <1>6 DEF Fn

LEMMA CompleteClose ==
  ASSUME NEW t \in Seq(Symbols), NEW f \in Seq(Fn), f # <<>>, NEW p \in 1..Len(t),
         t[p] = Closes(f[Len(f)]), NEW q \in {"first", "separator"}, Complete(t, q, f, p)
  PROVE  Complete(t, "returned", SubSeq(f, 1, Len(f) - 1), p + 1)
<1>1. PICK e : Room(t, f, e) /\ Awaits(t, q, f, e, p)
  BY DEF Complete
<1> DEFINE m == Len(f)
           g == SubSeq(f, 1, m - 1)
           d == [k \in 1..(m - 1) |-> e[k]]
<1>2. m \in 1..m /\ m \in Nat /\ m # 0 /\ f[m] \in Fn /\ Len(t) \in Nat /\ e[m] \in 1..Len(t)
  BY <1>1, RoomIs
<1>3. g \in Seq(Fn) /\ Len(g) = m - 1 /\ \A k \in 1..(m - 1) : g[k] = f[k]
  <2>1. 1 \in Int /\ m - 1 \in Int /\ \A k \in 1..(m - 1) : f[k] \in Fn
    BY <1>2
  <2>2. /\ g \in Seq(Fn) /\ Len(g) = (IF 1 <= m - 1 THEN (m - 1) - 1 + 1 ELSE 0)
        /\ \A k \in 1..((m - 1) - 1 + 1) : g[k] = f[1 + k - 1]
    BY <2>1, SubSeqProperties
  <2> HIDE DEF g
  <2>3. m \in Nat /\ m # 0
    BY <1>2, Zenon
  <2> HIDE DEF m
  <2>4. (IF 1 <= m - 1 THEN (m - 1) - 1 + 1 ELSE 0) = m - 1 /\ (m - 1) - 1 + 1 = m - 1
    BY <2>3
  <2>5. \A k \in 1..(m - 1) : 1 + k - 1 = k
    BY <2>3
  <2>6. QED
    BY <2>2, <2>4, <2>5
<1>4. p = e[m]
  <2>1. CASE q = "first"
    <3>1. p = e[m] \/ IsList(t, f[m], p, e[m] - 1)
      BY <1>1, <2>1 DEF Awaits
    <3>2. p \in 1..(Len(t) + 1)
      BY <1>2
    <3>3. IsList(t, f[m], p, e[m] - 1) => t[p] # Closes(f[m])
      BY <1>1, <3>2, ListFrom
    <3>4. QED
      BY <3>1, <3>3
  <2>2. CASE q = "separator"
    <3>1. Tailed(t, f[m], p, e[m] - 1)
      BY <1>1, <1>2, <2>2 DEF Awaits, Ends
    <3>2. Sep # Closes(f[m])
      BY Zenon DEF Sep, Closes
    <3>3. p = (e[m] - 1) + 1
      BY <3>1, <3>2, Zenon DEF Tailed
    <3>4. QED
      BY <1>1, <1>2, <3>3, RoomIs
  <2>3. QED
    BY <2>1, <2>2
<1>5. Ends(t, f, e, m - 1, p + 1)
  BY <1>1, <1>2, <1>4 DEF Room
<1>6. /\ d \in [1..Len(g) -> 1..Len(t)]
      /\ \A k \in 1..(m - 1) : d[k] = e[k] /\ k \in 1..m /\ k - 1 \in 0..(m - 1)
  <2>1. \A k \in 1..(m - 1) : k \in 1..m /\ k - 1 \in 0..(m - 1)
    BY <1>2
  <2>2. \A k \in 1..m : e[k] \in 1..Len(t)
    BY <1>1, RoomIs
  <2> HIDE DEF m, g
  <2>3. QED
    BY <1>3, <2>1, <2>2
<1> HIDE DEF d, g
<1>7. ASSUME NEW k \in 0..(m - 1), NEW x
      PROVE  Ends(t, g, d, k, x) <=> Ends(t, f, e, k, x)
  <2>1. k # 0 => k \in 1..(m - 1)
    BY <1>2
  <2>2. k # 0 => g[k] = f[k] /\ d[k] = e[k]
    BY <1>3, <1>6, <2>1
  <2>3. QED
    BY <2>2, Zenon DEF Ends
<1>8. \A k \in 1..Len(g) : t[d[k]] = Closes(g[k]) /\ Ends(t, g, d, k - 1, d[k] + 1)
  <2> SUFFICES ASSUME NEW k \in 1..(m - 1)
               PROVE  t[d[k]] = Closes(g[k]) /\ Ends(t, g, d, k - 1, d[k] + 1)
    BY <1>3
  <2>1. t[e[k]] = Closes(f[k]) /\ Ends(t, f, e, k - 1, e[k] + 1)
    BY <1>1, <1>6 DEF Room
  <2>2. QED
    BY <1>3, <1>6, <1>7, <2>1
<1>9. Room(t, g, d)
  BY <1>6, <1>8 DEF Room
<1>10. Ends(t, g, d, Len(g), p + 1)
  <2>1. m - 1 \in 0..(m - 1)
    BY <1>2
  <2>2. QED
    BY <1>3, <1>5, <1>7, <2>1
<1>11. Awaits(t, "returned", g, d, p + 1)
  BY <1>10 DEF Awaits
<1>12. QED
  BY <1>9, <1>11 DEF Complete, g

LEMMA CompleteKey ==
  ASSUME NEW t \in Seq(Symbols), NEW f \in Seq(Fn), f # <<>>, NEW p \in 1..(Len(t) + 1),
         Complete(t, "key", f, p)
  PROVE  p \in 1..Len(t) /\ t[p] \in Strings /\ Complete(t, "colon", f, p + 1)
<1>1. PICK e : Room(t, f, e) /\ Awaits(t, "key", f, e, p)
  BY DEF Complete
<1>2. f[Len(f)] = "object" /\ IsList(t, f[Len(f)], p, e[Len(f)] - 1)
  BY <1>1 DEF Awaits
<1>3. /\ p \in 1..Len(t) /\ t[p] \in Strings /\ p + 1 \in 1..Len(t) /\ t[p + 1] = ":"
      /\ ValueFrom(t, f, e, p + 2)
  BY <1>1, <1>2, ListFrom
<1>4. (p + 1) + 1 = p + 2
  BY <1>3
<1>5. Awaits(t, "colon", f, e, p + 1)
  BY <1>3, <1>4 DEF Awaits
<1>6. QED
  BY <1>1, <1>3, <1>5 DEF Complete

LEMMA CompleteColon ==
  ASSUME NEW t, NEW f, NEW p, Complete(t, "colon", f, p)
  PROVE  p \in 1..Len(t) /\ t[p] = ":" /\ Complete(t, "value", f, p + 1)
<1>1. PICK e : Room(t, f, e) /\ Awaits(t, "colon", f, e, p)
  BY DEF Complete
<1>2. Awaits(t, "value", f, e, p + 1)
  BY <1>1 DEF Awaits
<1>3. QED
  BY <1>1, <1>2 DEF Awaits, Complete

(* What may follow an item is the end, a bracket or a comma.               *)
LEMMA EndsAre ==
  ASSUME NEW t \in Seq(Symbols), NEW f \in Seq(Fn), NEW e, Room(t, f, e), NEW x \in Nat \ {0},
         Ends(t, f, e, Len(f), x)
  PROVE  /\ f = <<>> => x = Len(t) + 1
         /\ f # <<>> => t[x] \in {Closes(f[Len(f)]), Sep} /\ x \in 1..Len(t)
         /\ f # <<>> /\ t[x] = Sep => IsList(t, f[Len(f)], x + 1, e[Len(f)] - 1)
         /\ x \in 1..Len(t) => t[x] \notin NumberSigns
<1>1. CASE f = <<>>
  <2>1. x = Len(t) + 1 /\ Len(t) \in Nat
    BY <1>1, RoomIs DEF Ends
  <2>2. QED
    BY <1>1, <2>1
<1>2. CASE f # <<>>
  <2> DEFINE m == Len(f)
             y == e[m]
  <2>1. m \in 1..m /\ m # 0 /\ y \in 1..Len(t) /\ Len(t) \in Nat /\ (y - 1) + 1 = y /\ f[m] \in Fn
    BY <1>2, RoomIs
  <2>2. t[y] = Closes(f[m])
    BY <2>1 DEF Room
  <2>3. Tailed(t, f[m], x, y - 1)
    BY <2>1, Zenon DEF Ends
  <2>4. Sep # Closes(f[m]) /\ Sep \notin NumberSigns /\ Closes(f[m]) \notin NumberSigns
    BY Zenon DEF Sep, Closes, NumberSigns, Digits
  <2> HIDE DEF m, y
  <2>5. CASE x = y
    <3>1. QED
      BY <1>2, <2>1, <2>2, <2>4, <2>5 DEF m, y
  <2>6. CASE x # y
    <3>1. x < y - 1 /\ t[x] = Sep /\ IsList(t, f[m], x + 1, y - 1)
      BY <2>1, <2>3, <2>6, Zenon DEF Tailed
    <3>2. x \in 1..Len(t)
      BY <2>1, <3>1
    <3>3. QED
      BY <1>2, <2>4, <3>1, <3>2 DEF m, y
  <2>7. QED
    BY <2>5, <2>6
<1>3. QED
  BY <1>1, <1>2

LEMMA CompleteScalar ==
  ASSUME NEW t \in Seq(Symbols), NEW f \in Seq(Fn), NEW p \in 1..(Len(t) + 1),
         Complete(t, "value", f, p)
  PROVE  /\ p \in 1..Len(t)
         /\ t[p] \notin {"[", "{"} =>
              \E e \in (p + 1)..(Len(t) + 1) :
                /\ IsScalar(SubSeq(t, p, e - 1)) /\ Complete(t, "returned", f, e)
                /\ e <= Len(t) => t[e] \notin NumberSigns
<1>1. PICK e : Room(t, f, e) /\ Awaits(t, "value", f, e, p)
  BY DEF Complete
<1>2. PICK j \in 0..Len(t) : IsVal(t, p, j) /\ Ends(t, f, e, Len(f), j + 1)
  BY <1>1 DEF Awaits, ValueFrom
<1>3. /\ p <= j /\ p \in 1..Len(t)
      /\ t[p] \notin {"[", "{"} => IsScalar(SubSeq(t, p, j))
  BY <1>2, ValueHas
<1>4. Len(t) \in Nat
  OBVIOUS
<1>5. j + 1 \in (p + 1)..(Len(t) + 1) /\ (j + 1) - 1 = j /\ j + 1 \in Nat \ {0}
  <2>1. p <= j
    BY <1>3, Zenon
  <2>2. QED
    BY <1>4, <2>1
<1>6. j + 1 <= Len(t) => t[j + 1] \notin NumberSigns
  <2>1. j + 1 \in 1..Len(t) => t[j + 1] \notin NumberSigns
    BY <1>1, <1>2, <1>5, EndsAre
  <2>2. QED
    BY <1>4, <1>5, <2>1
<1>7. Complete(t, "returned", f, j + 1)
  <2>1. Awaits(t, "returned", f, e, j + 1)
    BY <1>2 DEF Awaits
  <2>2. QED
    BY <1>1, <2>1 DEF Complete
<1> DEFINE x == j + 1
<1>8. /\ x \in (p + 1)..(Len(t) + 1) /\ x - 1 = j /\ Complete(t, "returned", f, x)
      /\ x <= Len(t) => t[x] \notin NumberSigns
  BY <1>5, <1>6, <1>7
<1> HIDE DEF x
<1>9. QED
  BY <1>3, <1>8

LEMMA CompleteAppend ==
  ASSUME NEW t \in Seq(Symbols), NEW f \in Seq(Fn), NEW p \in Nat \ {0},
         Complete(t, "returned", f, p)
  PROVE  /\ Complete(t, "separator", f, p)
         /\ f = <<>> => p = Len(t) + 1
<1>1. PICK e : Room(t, f, e) /\ Awaits(t, "returned", f, e, p)
  BY DEF Complete
<1>2. Ends(t, f, e, Len(f), p)
  BY <1>1 DEF Awaits
<1>3. Awaits(t, "separator", f, e, p)
  BY <1>2 DEF Awaits
<1>4. f = <<>> => p = Len(t) + 1
  BY <1>1, <1>2, EndsAre
<1>5. QED
  BY <1>1, <1>3, <1>4 DEF Complete

LEMMA CompleteComma ==
  ASSUME NEW t \in Seq(Symbols), NEW f \in Seq(Fn), f # <<>>, NEW p \in Nat \ {0},
         Complete(t, "separator", f, p)
  PROVE  /\ p \in 1..Len(t) /\ t[p] \in {Closes(f[Len(f)]), Sep}
         /\ t[p] = Sep =>
              Complete(t, IF f[Len(f)] = "array" THEN "value" ELSE "key", f, p + 1)
<1>1. PICK e : Room(t, f, e) /\ Awaits(t, "separator", f, e, p)
  BY DEF Complete
<1>2. Ends(t, f, e, Len(f), p)
  BY <1>1 DEF Awaits
<1>3. p \in 1..Len(t) /\ t[p] \in {Closes(f[Len(f)]), Sep}
  BY <1>1, <1>2, EndsAre
<1>4. ASSUME t[p] = Sep
      PROVE  Complete(t, IF f[Len(f)] = "array" THEN "value" ELSE "key", f, p + 1)
  <2>1. IsList(t, f[Len(f)], p + 1, e[Len(f)] - 1)
    BY <1>1, <1>2, <1>4, EndsAre
  <2>2. p + 1 \in 1..(Len(t) + 1) /\ f[Len(f)] \in Fn
    BY <1>1, <1>3, RoomIs
  <2>3. CASE f[Len(f)] = "array"
    <3>1. ValueFrom(t, f, e, p + 1)
      BY <1>1, <2>1, <2>2, <2>3, ListFrom
    <3>2. Awaits(t, "value", f, e, p + 1)
      BY <3>1 DEF Awaits
    <3>3. QED
      BY <1>1, <2>3, <3>2 DEF Complete
  <2>4. CASE f[Len(f)] = "object"
    <3>1. Awaits(t, "key", f, e, p + 1)
      BY <2>1, <2>4 DEF Awaits
    <3>2. QED
      BY <1>1, <2>4, <3>1 DEF Complete
  <2>5. QED
    BY <2>2, <2>3, <2>4 DEF Fn
<1>5. QED
  BY <1>3, <1>4

(* Before the first call.                                                  *)
LEMMA BeforeAll ==
  ASSUME NEW t \in Seq(Symbols)
  PROVE  /\ Sound(t, "value", <<>>, 1)
         /\ IsVal(t, 1, Len(t)) => Complete(t, "value", <<>>, 1)
<1> DEFINE c == [k \in 0..0 |-> 1]
           e == [k \in 1..0 |-> 1]
<1>1. Len(<<>>) = 0 /\ Len(t) \in Nat /\ 0..0 = {0} /\ 1..0 = {}
  OBVIOUS
<1>2. Spells(t, <<>>, c)
  <2>1. c \in [0..0 -> 1..(Len(t) + 1)] /\ c[0] = 1
    BY <1>1
  <2>2. \A k \in 1..(0 - 1) : HasKey(t, <<>>, c, k)
    OBVIOUS
  <2>3. QED
    BY <1>1, <2>1, <2>2 DEF Spells
<1>3. Stands(t, "value", <<>>, c, 1)
  BY <1>1 DEF Stands, Base
<1>4. Sound(t, "value", <<>>, 1)
  BY <1>2, <1>3 DEF Sound
<1>5. ASSUME IsVal(t, 1, Len(t)) PROVE Complete(t, "value", <<>>, 1)
  <2>1. Room(t, <<>>, e)
    BY <1>1 DEF Room
  <2>2. Ends(t, <<>>, e, Len(<<>>), Len(t) + 1)
    BY <1>1 DEF Ends
  <2>3. ValueFrom(t, <<>>, e, 1)
    BY <1>1, <1>5, <2>2 DEF ValueFrom
  <2>4. Awaits(t, "value", <<>>, e, 1)
    BY <2>3 DEF Awaits
  <2>5. QED
    BY <2>1, <2>4 DEF Complete
<1>6. QED
  BY <1>4, <1>5

-----------------------------------------------------------------------------
(* The text that is being read, and the text without its blanks.           *)

Bare   == Blankless(text)
Nth(i) == Ord(text, i)

LEMMA NthIs ==
  ASSUME Reads
  PROVE  /\ Bare \in Seq(Symbols) /\ Len(Bare) \in Nat
         /\ Nth(1) = 1 /\ Nth(Len(text) + 1) = Len(Bare) + 1
         /\ \A i \in 1..(Len(text) + 1) : Nth(i) \in 1..(Len(Bare) + 1)
         /\ \A i, j \in 1..(Len(text) + 1) : i <= j => Nth(i) <= Nth(j)
         /\ \A i \in 1..Len(text) : Nth(i + 1) = IF Ch(i) = "sp" THEN Nth(i) ELSE Nth(i) + 1
         /\ \A i \in 1..Len(text) :
              Ch(i) # "sp" => Nth(i) \in 1..Len(Bare) /\ Bare[Nth(i)] = Ch(i)
         /\ \A k \in 1..Len(Bare) : \E i \in 1..Len(text) : Ch(i) # "sp" /\ Nth(i) = k
<1>0. Len(text) \in Nat /\ text \in Seq(Symbols)
  BY DEF Reads
<1>1. /\ Bare \in Seq(Symbols) /\ Len(Bare) \in Nat /\ Nth(Len(text) + 1) = Len(Bare) + 1
      /\ \A i \in Solid(text) : Nth(i) \in 1..Len(Bare) /\ Bare[Nth(i)] = text[i]
      /\ \A k \in 1..Len(Bare) : \E i \in Solid(text) : Nth(i) = k
  BY <1>0, BlanklessIs, Zenon DEF Bare, Nth
<1>2. /\ Nth(1) = 1 /\ \A i \in Nat : Nth(i) \in Nat \ {0}
      /\ \A i, j \in Nat : i <= j => Nth(i) <= Nth(j)
      /\ \A i \in 1..Len(text) : Nth(i + 1) = IF text[i] = "sp" THEN Nth(i) ELSE Nth(i) + 1
  BY <1>0, OrdIs, Zenon DEF Nth
<1>3. \A i \in 1..Len(text) : Ch(i) = text[i]
  BY <1>0, ChIs
<1>4. \A i : i \in Solid(text) <=> i \in 1..Len(text) /\ Ch(i) # "sp"
  BY <1>3 DEF Solid
<1>5. \A i \in 1..(Len(text) + 1) : i \in Nat /\ i <= Len(text) + 1 /\ Len(text) + 1 \in Nat
  BY <1>0
<1>6. \A i \in 1..(Len(text) + 1) : Nth(i) \in 1..(Len(Bare) + 1)
  <2> SUFFICES ASSUME NEW i \in 1..(Len(text) + 1) PROVE Nth(i) \in 1..(Len(Bare) + 1)
    OBVIOUS
  <2> DEFINE n == Nth(i)
             l == Len(Bare)
  <2>1. n \in Nat \ {0} /\ n <= l + 1 /\ l \in Nat
    BY <1>1, <1>2, <1>5
  <2> HIDE DEF n, l
  <2>2. n \in 1..(l + 1)
    BY <2>1
  <2>3. QED
    BY <2>2 DEF n, l
<1>7. QED
  BY <1>1, <1>2, <1>3, <1>4, <1>5, <1>6, Zenon

(* What is at a place of the text that is no blank.                        *)
LEMMA SignIs ==
  ASSUME Reads, NEW a \in 1..(Len(text) + 1), Ch(a) # "sp"
  PROVE  /\ Ch(a) = "end" => a = Len(text) + 1 /\ Nth(a) = Len(Bare) + 1
         /\ Ch(a) # "end" => /\ a \in 1..Len(text) /\ a + 1 \in 1..(Len(text) + 1)
                             /\ Nth(a) \in 1..Len(Bare) /\ Bare[Nth(a)] = Ch(a)
                             /\ Nth(a + 1) = Nth(a) + 1
         /\ Nth(a) \in 1..(Len(Bare) + 1)
         /\ Nth(a) \in 1..Len(Bare) => Ch(a) # "end"
<1>0. Len(text) \in Nat /\ Len(Bare) \in Nat
  BY NthIs DEF Reads
<1>1. "end" \notin Symbols
  BY DEF Symbols, NumberSigns, Digits, Strings, Words
<1>2. a \in 1..Len(text) <=> Ch(a) # "end"
  BY <1>0, <1>1, ChIs
<1>3. Ch(a) = "end" => a = Len(text) + 1
  BY <1>0, <1>2
<1>4. Nth(Len(text) + 1) = Len(Bare) + 1 /\ Len(Bare) + 1 \notin 1..Len(Bare)
  BY <1>0, NthIs
<1>5. a \in 1..Len(text) => a + 1 \in 1..(Len(text) + 1)
  BY <1>0
<1>6. a \in 1..Len(text) => /\ Nth(a) \in 1..Len(Bare) /\ Bare[Nth(a)] = Ch(a)
                            /\ Nth(a + 1) = Nth(a) + 1
  BY NthIs, Zenon
<1>7. QED
  BY <1>2, <1>3, <1>4, <1>5, <1>6, NthIs, Zenon

LEMMA SkipsBlanks ==
  ASSUME Reads, NEW i \in 1..(Len(text) + 1)
  PROVE  /\ SkipSpace(i) \in i..(Len(text) + 1) /\ SkipSpace(i) \in 1..(Len(text) + 1)
         /\ Ch(SkipSpace(i)) # "sp"
         /\ \A m \in i..(SkipSpace(i) - 1) : Ch(m) = "sp"
         /\ Nth(SkipSpace(i)) = Nth(i)
<1>0. Len(text) \in Nat
  BY DEF Reads
<1> DEFINE B == {j \in i..(Len(text) + 1) : Ch(j) # "sp"}
<1>1. Len(text) + 1 \in B /\ B \in SUBSET Nat
  BY <1>0, ChIs
<1> HIDE DEF B
<1>2. PICK j \in B : \A k \in B : j <= k
  BY <1>1, Least
<1>3. j \in i..(Len(text) + 1) /\ Ch(j) # "sp"
  BY DEF B
<1>4. ASSUME NEW m \in i..(j - 1) PROVE Ch(m) = "sp"
  <2>1. m \in i..(Len(text) + 1) /\ ~(j <= m)
    BY <1>0, <1>3
  <2>2. QED
    BY <1>2, <2>1 DEF B
<1>5. SkipSpace(i) = CHOOSE x \in i..(Len(text) + 1) :
                       Ch(x) \notin {"sp"} /\ \A m \in i..(x - 1) : Ch(m) \in {"sp"}
  BY Zenon DEF SkipSpace, SkipAll
<1>6. /\ SkipSpace(i) \in i..(Len(text) + 1) /\ Ch(SkipSpace(i)) # "sp"
      /\ \A m \in i..(SkipSpace(i) - 1) : Ch(m) = "sp"
  <2> DEFINE T == {x \in i..(Len(text) + 1) :
                     Ch(x) \notin {"sp"} /\ \A m \in i..(x - 1) : Ch(m) \in {"sp"}}
  <2>1. j \in T
    BY <1>3, <1>4
  <2>2. SkipSpace(i) = CHOOSE x \in i..(Len(text) + 1) : x \in T
    BY <1>5
  <2>3. SkipSpace(i) \in T
    <3> HIDE DEF T
    <3>1. QED
      BY <1>3, <2>1, <2>2
  <2>4. QED
    BY <2>3
<1> DEFINE e == SkipSpace(i)
<1>7. e \in i..(Len(text) + 1) /\ \A m \in i..(e - 1) : Ch(m) = "sp"
  BY <1>6
<1> HIDE DEF e
<1>8. e \in 1..(Len(text) + 1)
  BY <1>0, <1>7
<1>9. Nth(e) = Nth(i)
  <2> SUFFICES ASSUME Nth(e) # Nth(i) PROVE FALSE
    OBVIOUS
  <2> DEFINE U == {x \in i..e : Nth(x) # Nth(i)}
  <2>1. e \in U /\ U \in SUBSET Nat
    BY <1>0, <1>7
  <2> HIDE DEF U
  <2>2. PICK x \in U : \A y \in U : x <= y
    BY <2>1, Least
  <2>3. x \in i..e /\ Nth(x) # Nth(i)
    BY DEF U
  <2>4. x # i
    BY <2>3
  <2>5. x - 1 \in i..e /\ ~(x <= x - 1) /\ x - 1 \in 1..Len(text) /\ x - 1 \in i..(e - 1) /\ (x - 1) + 1 = x
    BY <1>0, <1>7, <2>3, <2>4
  <2>6. Nth(x - 1) = Nth(i)
    BY <2>2, <2>5 DEF U
  <2>7. Nth((x - 1) + 1) = Nth(x - 1)
    BY <1>7, <2>5, NthIs
  <2>8. QED
    BY <2>3, <2>5, <2>6, <2>7
<1>10. QED
  BY <1>6, <1>8, <1>9 DEF e

(* A stretch of the text without blanks is found in Bare.                  *)
LEMMA StretchIs ==
  ASSUME Reads, NEW a \in 1..(Len(text) + 1), NEW e \in a..(Len(text) + 1),
         \A m \in a..(e - 1) : Ch(m) # "sp"
  PROVE  /\ \A x \in a..e : Nth(x) = Nth(a) + (x - a)
         /\ SubSeq(Bare, Nth(a), Nth(e) - 1) = Piece(a, e)
<1>0. Len(text) \in Nat /\ a \in Nat /\ e \in Nat /\ a <= e /\ e <= Len(text) + 1 /\ 1 <= a
  BY DEF Reads
<1>1. \A x \in a..e : Nth(x) = Nth(a) + (x - a)
  <2> SUFFICES ASSUME NEW z \in a..e, Nth(z) # Nth(a) + (z - a) PROVE FALSE
    OBVIOUS
  <2> DEFINE U == {x \in a..e : Nth(x) # Nth(a) + (x - a)}
  <2>1. z \in U /\ U \in SUBSET Nat
    BY <1>0
  <2> HIDE DEF U
  <2>2. PICK x \in U : \A y \in U : x <= y
    BY <2>1, Least
  <2>3. x \in a..e /\ Nth(x) # Nth(a) + (x - a)
    BY DEF U
  <2>4. x # a
    <3>1. a \in 1..(Len(text) + 1) /\ a - a = 0
      BY <1>0
    <3>2. Nth(a) + 0 = Nth(a)
      BY <3>1, NthIs
    <3>3. QED
      BY <2>3, <3>1, <3>2
  <2>5. x - 1 \in a..e /\ ~(x <= x - 1) /\ x - 1 \in 1..Len(text) /\ x - 1 \in a..(e - 1) /\ (x - 1) + 1 = x
    BY <1>0, <2>3, <2>4
  <2>6. Nth(x - 1) = Nth(a) + ((x - 1) - a)
    BY <2>2, <2>5 DEF U
  <2>7. Nth((x - 1) + 1) = Nth(x - 1) + 1
    BY <2>5, NthIs
  <2>8. Nth(a) \in Nat
    BY <1>0, NthIs
  <2>9. QED
    BY <1>0, <2>3, <2>5, <2>6, <2>7, <2>8
<1> DEFINE p == Nth(a)
           q == Nth(e)
<1>2. /\ Bare \in Seq(Symbols) /\ Len(Bare) \in Nat /\ p \in 1..(Len(Bare) + 1)
      /\ q \in 1..(Len(Bare) + 1)
  <2>1. e \in 1..(Len(text) + 1)
    BY <1>0
  <2>2. QED
    BY <2>1, NthIs
<1>3. q = p + (e - a)
  BY <1>0, <1>1
<1> HIDE DEF p, q
<1> DEFINE s == SubSeq(Bare, p, q - 1)
           n == e - a
<1>4. n \in Nat /\ (IF p <= q - 1 THEN (q - 1) - p + 1 ELSE 0) = n /\ (q - 1) - p + 1 = n
  BY <1>0, <1>2, <1>3
<1>5. s \in Seq(Symbols) /\ Len(s) = n /\ \A k \in 1..n : s[k] = Bare[p + k - 1]
  <2>1. p \in Int /\ q - 1 \in Int
    BY <1>2
  <2>2. \A k \in p..(q - 1) : Bare[k] \in Symbols
    <3>1. \A k \in p..(q - 1) : k \in 1..Len(Bare)
      BY <1>2
    <3>2. QED
      BY <1>2, <3>1
  <2>3. /\ s \in Seq(Symbols) /\ Len(s) = (IF p <= q - 1 THEN (q - 1) - p + 1 ELSE 0)
        /\ \A k \in 1..((q - 1) - p + 1) : s[k] = Bare[p + k - 1]
    BY <2>1, <2>2, SubSeqProperties
  <2> HIDE DEF s, n
  <2>4. QED
    BY <1>4, <2>3
<1>6. Piece(a, e) \in Seq(Symbols) /\ Len(Piece(a, e)) = n /\ \A k \in 1..n : Piece(a, e)[k] = Ch(a + k - 1)
  BY PieceIs
<1>7. \A k \in 1..n : Bare[p + k - 1] = Ch(a + k - 1)
  <2> SUFFICES ASSUME NEW k \in 1..n PROVE Bare[p + k - 1] = Ch(a + k - 1)
    OBVIOUS
  <2> DEFINE x == a + k - 1
  <2>1. x \in a..e /\ x \in a..(e - 1) /\ x \in 1..Len(text) /\ x - a = k - 1
    BY <1>0
  <2> HIDE DEF x, n
  <2>2. Bare[Nth(x)] = Ch(x)
    BY <2>1, NthIs
  <2>3. Nth(x) = p + (x - a)
    BY <1>1, <2>1 DEF p
  <2>4. p + (k - 1) = p + k - 1
    BY <1>2, <1>4
  <2>5. QED
    BY <2>1, <2>2, <2>3, <2>4 DEF x
<1> HIDE DEF s, n
<1>8. s = Piece(a, e)
  BY <1>5, <1>6, <1>7, SeqEqual
<1>9. QED
  BY <1>1, <1>8 DEF s, p, q

(* No blank is inside a number before x; the last symbol before x that is  *)
(* no blank is not a sign of a number.                                     *)
Gapless(x) ==
  \A i, j \in 1..(x - 1) :
    i + 1 < j /\ Ch(i) \in NumberSigns /\ Ch(j) \in NumberSigns =>
      \E m \in (i + 1)..(j - 1) : Ch(m) # "sp"

Clear(x) ==
  \A i \in 1..(x - 1) :
    Ch(i) \in NumberSigns => \E m \in (i + 1)..(x - 1) : Ch(m) # "sp"

LEMMA JsonIs ==
  ASSUME Reads
  PROVE  IsJson(text) <=> IsVal(Bare, 1, Len(Bare)) /\ Gapless(Len(text) + 1)
<1>0. Len(text) \in Nat
  BY DEF Reads
<1>1. IsValue(Blankless(text)) <=> IsVal(Bare, 1, Len(Bare))
  BY ValueIs, Zenon DEF IsVal, Bare
<1>2. \A i \in 1..Len(text) : Ch(i) = text[i]
  BY <1>0, ChIs
<1>3. (Len(text) + 1) - 1 = Len(text)
  BY <1>0
<1>4. \A i, j \in 1..Len(text) : \A m \in (i + 1)..(j - 1) : m \in 1..Len(text)
  BY <1>0
<1> DEFINE tight == \A i, j \in 1..Len(text) :
             i + 1 < j /\ {text[i], text[j]} \subseteq NumberSigns =>
               \E m \in (i + 1)..(j - 1) : text[m] # "sp"
<1>5. IsJson(text) <=> IsValue(Blankless(text)) /\ tight
  BY Zenon DEF IsJson
<1>6. tight <=> Gapless(Len(text) + 1)
  <2>1. \A x, y : {x, y} \subseteq NumberSigns <=> x \in NumberSigns /\ y \in NumberSigns
    BY Zenon
  <2>2. ASSUME tight PROVE Gapless(Len(text) + 1)
    <3> SUFFICES ASSUME NEW i \in 1..Len(text), NEW j \in 1..Len(text),
                        i + 1 < j, Ch(i) \in NumberSigns, Ch(j) \in NumberSigns
                 PROVE  \E m \in (i + 1)..(j - 1) : Ch(m) # "sp"
      BY <1>3 DEF Gapless
    <3>1. \E m \in (i + 1)..(j - 1) : text[m] # "sp"
      BY <1>2, <2>1, <2>2, Zenon
    <3>2. QED
      BY <1>2, <1>4, <3>1, Zenon
  <2>3. ASSUME Gapless(Len(text) + 1) PROVE tight
    <3> SUFFICES ASSUME NEW i \in 1..Len(text), NEW j \in 1..Len(text),
                        i + 1 < j, {text[i], text[j]} \subseteq NumberSigns
                 PROVE  \E m \in (i + 1)..(j - 1) : text[m] # "sp"
      OBVIOUS
    <3>1. Ch(i) \in NumberSigns /\ Ch(j) \in NumberSigns
      BY <1>2, <2>1, Zenon
    <3>2. \E m \in (i + 1)..(j - 1) : Ch(m) # "sp"
      BY <1>3, <2>3, <3>1 DEF Gapless
    <3>3. QED
      BY <1>2, <1>4, <3>2, Zenon
  <2>4. QED
    BY <2>2, <2>3
<1> HIDE DEF tight
<1>7. QED
  BY <1>1, <1>5, <1>6

LEMMA GapsAre ==
  ASSUME Reads, NEW a \in 1..(Len(text) + 1), Gapless(a)
  PROVE  /\ Ch(a) \notin NumberSigns => Gapless(a + 1)
         /\ Ch(a) \notin NumberSigns /\ Ch(a) # "sp" => Clear(a + 1)
         /\ \A e \in a..(Len(text) + 1) :
              Clear(a) /\ (\A m \in a..(e - 1) : Ch(m) # "sp") => Gapless(e)
<1>0. a \in Nat /\ 1 <= a /\ Len(text) \in Nat
  BY DEF Reads
<1>1. ASSUME Ch(a) \notin NumberSigns PROVE Gapless(a + 1)
  <2> SUFFICES ASSUME NEW i \in 1..a, NEW j \in 1..a,
                      i + 1 < j, Ch(i) \in NumberSigns, Ch(j) \in NumberSigns
               PROVE  \E m \in (i + 1)..(j - 1) : Ch(m) # "sp"
    <3>1. (a + 1) - 1 = a
      BY <1>0
    <3>2. QED
      BY <3>1 DEF Gapless
  <2>1. i # a /\ j # a
    BY <1>1
  <2>2. i \in 1..(a - 1) /\ j \in 1..(a - 1)
    BY <1>0, <2>1
  <2>3. QED
    BY <2>2, Zenon DEF Gapless
<1>2. ASSUME Ch(a) \notin NumberSigns, Ch(a) # "sp" PROVE Clear(a + 1)
  <2> SUFFICES ASSUME NEW i \in 1..a, Ch(i) \in NumberSigns
               PROVE  \E m \in (i + 1)..a : Ch(m) # "sp"
    <3>1. (a + 1) - 1 = a
      BY <1>0
    <3>2. QED
      BY <3>1 DEF Clear
  <2>1. i # a
    BY <1>2
  <2>2. a \in (i + 1)..a
    BY <1>0, <2>1
  <2>3. QED
    BY <1>2, <2>2
<1>3. ASSUME NEW e \in a..(Len(text) + 1), Clear(a), \A m \in a..(e - 1) : Ch(m) # "sp"
      PROVE  Gapless(e)
  <2> SUFFICES ASSUME NEW i \in 1..(e - 1), NEW j \in 1..(e - 1),
                      i + 1 < j, Ch(i) \in NumberSigns, Ch(j) \in NumberSigns
               PROVE  \E m \in (i + 1)..(j - 1) : Ch(m) # "sp"
    BY DEF Gapless
  <2>1. CASE j < a
    <3>1. i \in 1..(a - 1) /\ j \in 1..(a - 1)
      BY <1>0, <2>1
    <3>2. QED
      BY <3>1, Zenon DEF Gapless
  <2>2. CASE a <= j /\ i < a
    <3>1. i \in 1..(a - 1)
      BY <1>0, <2>2
    <3>2. PICK m \in (i + 1)..(a - 1) : Ch(m) # "sp"
      BY <1>3, <3>1 DEF Clear
    <3>3. m \in (i + 1)..(j - 1)
      BY <1>0, <2>2
    <3>4. QED
      BY <3>2, <3>3
  <2>3. CASE a <= i
    <3>1. i + 1 \in a..(e - 1) /\ i + 1 \in (i + 1)..(j - 1)
      BY <1>0, <2>3
    <3>2. QED
      BY <1>3, <3>1
  <2>4. QED
    BY <1>0, <2>1, <2>2, <2>3
<1>4. QED
  BY <1>1, <1>2, <1>3

LEMMA GapsSkipped ==
  ASSUME Reads, NEW a \in 1..(Len(text) + 1), Gapless(a)
  PROVE  Gapless(SkipSpace(a)) /\ (Clear(a) => Clear(SkipSpace(a)))
<1> DEFINE e == SkipSpace(a)
<1>0. a \in Nat /\ Len(text) \in Nat
  BY DEF Reads
<1>1. e \in a..(Len(text) + 1) /\ \A m \in a..(e - 1) : Ch(m) = "sp"
  BY SkipsBlanks
<1> HIDE DEF e
<1>2. "sp" \notin NumberSigns
  BY DEF NumberSigns, Digits
<1>3. ASSUME NEW i \in 1..(e - 1), Ch(i) \in NumberSigns PROVE i \in 1..(a - 1)
  <2>1. i \notin a..(e - 1)
    BY <1>1, <1>2, <1>3
  <2>2. QED
    BY <1>0, <1>1, <2>1
<1>4. Gapless(e)
  BY <1>3, Zenon DEF Gapless
<1>5. ASSUME Clear(a) PROVE Clear(e)
  <2> SUFFICES ASSUME NEW i \in 1..(e - 1), Ch(i) \in NumberSigns
               PROVE  \E m \in (i + 1)..(e - 1) : Ch(m) # "sp"
    BY DEF Clear
  <2>1. PICK m \in (i + 1)..(a - 1) : Ch(m) # "sp"
    BY <1>3, <1>5 DEF Clear
  <2>2. m \in (i + 1)..(e - 1)
    BY <1>0, <1>1
  <2>3. QED
    BY <2>1, <2>2
<1>6. QED
  BY <1>4, <1>5 DEF e

(* A scalar that parse_value takes is one of the text without blanks.      *)
LEMMA ScalarGoes ==
  ASSUME Reads, NEW a \in 1..(Len(text) + 1), Ch(a) # "sp", ScalarEnd(a) # 0
  PROVE  /\ ScalarEnd(a) \in (a + 1)..(Len(text) + 1) /\ ScalarEnd(a) \in 1..(Len(text) + 1)
         /\ IsVal(Bare, Nth(a), Nth(ScalarEnd(a)) - 1)
         /\ Gapless(a) /\ Clear(a) => Gapless(ScalarEnd(a))
<1> DEFINE e == ScalarEnd(a)
<1>0. Len(text) \in Nat /\ Len(Bare) \in Nat /\ Bare \in Seq(Symbols) /\ a \in Nat
  BY NthIs DEF Reads
<1>1. /\ e \in (a + 1)..(Len(text) + 1) /\ IsScalar(Piece(a, e))
      /\ \/ e = a + 1 /\ Ch(a) \in Strings \cup Words
         \/ \A m \in a..(e - 1) : Ch(m) \in NumberSigns
  BY ScalarTaken
<1> HIDE DEF e
<1>2. e \in a..(Len(text) + 1) /\ e \in 1..(Len(text) + 1) /\ a < e
  BY <1>0, <1>1
<1>3. \A m \in a..(e - 1) : Ch(m) # "sp"
  <2>1. "sp" \notin NumberSigns
    BY DEF NumberSigns, Digits
  <2>2. e = a + 1 => \A m \in a..(e - 1) : m = a
    BY <1>0
  <2>3. QED
    BY <1>1, <2>1, <2>2
<1>4. Nth(e) = Nth(a) + (e - a) /\ SubSeq(Bare, Nth(a), Nth(e) - 1) = Piece(a, e)
  <2>1. e \in a..e
    BY <1>0, <1>2
  <2>2. QED
    BY <1>2, <1>3, <2>1, StretchIs
<1>5. /\ Nth(a) \in 1..(Len(Bare) + 1) /\ Nth(e) - 1 \in 0..Len(Bare) /\ Nth(a) <= Nth(e) - 1
  <2> DEFINE p == Nth(a)
             q == Nth(e)
  <2>1. p \in 1..(Len(Bare) + 1) /\ q \in 1..(Len(Bare) + 1) /\ q = p + (e - a)
    BY <1>2, <1>4, NthIs
  <2> HIDE DEF p, q
  <2>2. q - 1 \in 0..Len(Bare) /\ p <= q - 1
    BY <1>0, <1>2, <2>1
  <2>3. QED
    BY <2>1, <2>2 DEF p, q
<1>6. IsVal(Bare, Nth(a), Nth(e) - 1)
  BY <1>0, <1>1, <1>4, <1>5, ValueRule, Zenon
<1>7. Gapless(a) /\ Clear(a) => Gapless(e)
  BY <1>2, <1>3, GapsAre
<1>8. QED
  BY <1>1, <1>2, <1>6, <1>7 DEF e

(* A scalar of the text without blanks is taken from the text.             *)
LEMMA ScalarComes ==
  ASSUME Reads, NEW a \in 1..(Len(text) + 1), Ch(a) # "sp", Gapless(Len(text) + 1),
         NEW z \in (Nth(a) + 1)..(Len(Bare) + 1), IsScalar(SubSeq(Bare, Nth(a), z - 1)),
         z <= Len(Bare) => Bare[z] \notin NumberSigns
  PROVE  ScalarEnd(a) # 0 /\ Nth(ScalarEnd(a)) = z
<1> DEFINE p == Nth(a)
           s == SubSeq(Bare, p, z - 1)
<1>0. Len(text) \in Nat /\ Len(Bare) \in Nat /\ Bare \in Seq(Symbols) /\ a \in Nat /\ 1 <= a
  BY NthIs DEF Reads
<1>1. p \in 1..(Len(Bare) + 1)
  BY NthIs
<1>2. Nth(a) = p
  OBVIOUS
<1> HIDE DEF p
<1>3. p \in Nat /\ z \in Nat /\ p < z /\ p \in 1..Len(Bare) /\ z - 1 \in 1..Len(Bare)
  BY <1>0, <1>1 DEF p
<1>4. Ch(a) # "end" /\ Bare[p] = Ch(a) /\ a + 1 \in 1..(Len(text) + 1) /\ Nth(a + 1) = p + 1
      /\ a \in 1..Len(text)
  BY <1>2, <1>3, SignIs
<1>5. s \in Seq(Symbols) /\ Len(s) = z - p /\ \A k \in 1..(z - p) : s[k] = Bare[p + k - 1]
  <2>1. p \in Int /\ z - 1 \in Int
    BY <1>3
  <2>2. \A k \in p..(z - 1) : Bare[k] \in Symbols
    <3>1. \A k \in p..(z - 1) : k \in 1..Len(Bare)
      BY <1>0, <1>3
    <3>2. QED
      BY <1>0, <3>1
  <2>3. /\ s \in Seq(Symbols) /\ Len(s) = (IF p <= z - 1 THEN (z - 1) - p + 1 ELSE 0)
        /\ \A k \in 1..((z - 1) - p + 1) : s[k] = Bare[p + k - 1]
    BY <2>1, <2>2, SubSeqProperties
  <2> HIDE DEF s
  <2>4. (IF p <= z - 1 THEN (z - 1) - p + 1 ELSE 0) = z - p /\ (z - 1) - p + 1 = z - p
    BY <1>3
  <2>5. QED
    BY <2>3, <2>4
<1>6. IsScalar(s)
  BY DEF p
<1> HIDE DEF s
<1>7. s[1] = Ch(a)
  <2>1. 1 \in 1..(z - p) /\ p + 1 - 1 = p
    BY <1>3
  <2>2. QED
    BY <1>4, <1>5, <2>1
<1>8. CASE Ch(a) \in Strings \cup Words
  <2>1. z - p = 1
    BY <1>5, <1>6, <1>7, <1>8, ScalarIs
  <2>2. z = p + 1 /\ a + 1 # 0
    BY <1>0, <1>3, <2>1
  <2>3. ScalarEnd(a) = a + 1
    BY <1>8 DEF ScalarEnd
  <2>4. QED
    BY <1>4, <2>2, <2>3
<1>9. CASE Ch(a) \notin Strings \cup Words
  <2>1. IsNumber(s)
    BY <1>5, <1>6, <1>7, <1>9, ScalarIs
  <2>2. \A k \in 1..(z - p) : s[k] \in NumberSigns
    BY <1>5, <2>1 DEF IsNumber
  <2>3. PICK i \in 1..Len(text) : Ch(i) # "sp" /\ Nth(i) = z - 1
    BY <1>3, NthIs, Zenon
  <2>4. Nth(i + 1) = z /\ i + 1 \in 1..(Len(text) + 1) /\ i \in 1..(Len(text) + 1)
    <3>1. Nth(i + 1) = Nth(i) + 1
      BY <2>3, NthIs
    <3>2. (z - 1) + 1 = z /\ i + 1 \in 1..(Len(text) + 1) /\ i \in 1..(Len(text) + 1)
      BY <1>0, <1>3
    <3>3. QED
      BY <2>3, <3>1, <3>2
  <2>5. a <= i
    <3> SUFFICES ASSUME ~(a <= i) PROVE FALSE
      OBVIOUS
    <3>1. i + 1 <= a
      BY <1>0
    <3>2. Nth(i + 1) <= Nth(a)
      BY <2>4, <3>1, NthIs, Zenon
    <3>3. z <= p
      BY <1>2, <2>4, <3>2
    <3>4. QED
      BY <1>3, <3>3
  <2>6. ASSUME NEW x \in a..i, Ch(x) # "sp" PROVE Ch(x) \in NumberSigns
    <3>1. x \in 1..(Len(text) + 1) /\ a <= x /\ x <= i /\ x \in 1..Len(text)
      BY <1>0
    <3>2. Nth(a) <= Nth(x) /\ Nth(x) <= Nth(i)
      BY <2>4, <3>1, NthIs, Zenon
    <3>3. Nth(x) \in 1..Len(Bare) /\ Bare[Nth(x)] = Ch(x)
      BY <2>6, <3>1, NthIs
    <3> DEFINE n == Nth(x)
    <3>4. n \in Nat /\ p <= n /\ n <= z - 1
      BY <1>2, <2>3, <3>2, <3>3
    <3> HIDE DEF n
    <3>5. n - p + 1 \in 1..(z - p) /\ p + (n - p + 1) - 1 = n
      BY <1>3, <3>4
    <3>6. s[n - p + 1] = Bare[n]
      BY <1>5, <3>5
    <3>7. QED
      BY <2>2, <3>3, <3>5, <3>6 DEF n
  <2>7. \A x \in a..i : Ch(x) # "sp"
    <3> SUFFICES ASSUME NEW w \in a..i, Ch(w) = "sp" PROVE FALSE
      OBVIOUS
    <3> DEFINE U == {x \in a..i : Ch(x) = "sp"}
    <3>1. w \in U /\ U \in SUBSET Nat
      BY <1>0
    <3> HIDE DEF U
    <3>2. PICK x \in U : \A y \in U : x <= y
      BY <3>1, Least
    <3>3. x \in a..i /\ Ch(x) = "sp"
      BY DEF U
    <3>4. x # a
      BY <3>3
    <3>5. /\ x - 1 \in a..i /\ ~(x <= x - 1) /\ x \in 1..(Len(text) + 1)
          /\ x - 1 \in 1..Len(text) /\ (x - 1) + 1 = x
      BY <1>0, <3>3, <3>4
    <3>6. Ch(x - 1) # "sp"
      BY <3>2, <3>5 DEF U
    <3>7. Ch(x - 1) \in NumberSigns
      BY <2>6, <3>5, <3>6
    <3> DEFINE y == SkipSpace(x)
    <3>8. y \in x..(Len(text) + 1) /\ Ch(y) # "sp" /\ \A m \in x..(y - 1) : Ch(m) = "sp"
      BY <3>5, SkipsBlanks
    <3> HIDE DEF y
    <3>9. i \notin x..(y - 1) /\ x # y
      BY <2>3, <3>3, <3>8
    <3>10. y \in a..i /\ x < y /\ y \in 1..Len(text)
      BY <1>0, <3>3, <3>8, <3>9
    <3>11. Ch(y) \in NumberSigns
      BY <2>6, <3>8, <3>10
    <3>12. (Len(text) + 1) - 1 = Len(text)
      BY <1>0
    <3>13. \E m \in ((x - 1) + 1)..(y - 1) : Ch(m) # "sp"
      BY <3>5, <3>7, <3>10, <3>11, <3>12 DEF Gapless
    <3>14. QED
      BY <3>5, <3>8, <3>13
  <2> DEFINE e == i + 1
  <2>8. e \in a..(Len(text) + 1) /\ e \in (a + 1)..(Len(text) + 1) /\ e - 1 = i /\ e # 0
    BY <1>0, <2>5
  <2>9. Nth(e) = z /\ e \in 1..(Len(text) + 1)
    BY <2>4
  <2> HIDE DEF e
  <2>10. SubSeq(Bare, Nth(a), Nth(e) - 1) = Piece(a, e)
    BY <2>7, <2>8, StretchIs
  <2>11. IsScalar(Piece(a, e))
    BY <2>9, <2>10
  <2>12. Ch(e) \notin NumberSigns
    <3>1. CASE Ch(e) = "sp" \/ Ch(e) = "end"
      BY <3>1 DEF NumberSigns, Digits
    <3>2. CASE ~(Ch(e) = "sp" \/ Ch(e) = "end")
      <4>1. Nth(e) \in 1..Len(Bare) /\ Bare[Nth(e)] = Ch(e)
        BY <2>9, <3>2, SignIs
      <4>2. z <= Len(Bare) /\ Bare[z] = Ch(e)
        BY <1>0, <2>9, <4>1
      <4>3. QED
        BY <4>2
    <3>3. QED
      BY <3>1, <3>2
  <2>13. ScalarEnd(a) = e
    BY <2>8, <2>11, <2>12, ScalarSeen
  <2>14. QED
    BY <2>8, <2>9, <2>13
<1>10. QED
  BY <1>8, <1>9

-----------------------------------------------------------------------------
(* What the parser knows of the text when it is at place a, with q for pc  *)
(* and the active calls f: what it has read is right, and if the text is   *)
(* JSON, what follows can be read.                                         *)
Grasp(q, f, a) ==
  /\ q \in {"value", "first", "key", "colon", "separator"} => Ch(a) # "sp"
  /\ q \in {"value", "first"} => Clear(a)
  /\ q \notin {"failed", "rejected"} => Gapless(a)
  /\ q = "accepted" => a = Len(text) + 1
  /\ Sound(Bare, q, f, Nth(a))
  /\ IsJson(text) => Complete(Bare, q, f, Nth(a))

(* Behind a mark.                                                          *)
LEMMA MarkRead ==
  ASSUME Reads, NEW a \in 1..(Len(text) + 1), Gapless(a),
         Ch(a) \notin NumberSigns, Ch(a) # "sp", Ch(a) # "end"
  PROVE  /\ Bare \in Seq(Symbols) /\ Nth(a) \in 1..Len(Bare) /\ Bare[Nth(a)] = Ch(a)
         /\ a + 1 \in 1..(Len(text) + 1) /\ Nth(a + 1) = Nth(a) + 1 /\ Gapless(a + 1)
         /\ Ch(SkipSpace(a + 1)) # "sp" /\ Nth(SkipSpace(a + 1)) = Nth(a) + 1
         /\ Clear(SkipSpace(a + 1)) /\ Gapless(SkipSpace(a + 1))
<1>1. /\ a + 1 \in 1..(Len(text) + 1) /\ Nth(a) \in 1..Len(Bare) /\ Bare[Nth(a)] = Ch(a)
      /\ Nth(a + 1) = Nth(a) + 1
  BY SignIs
<1>2. Gapless(a + 1) /\ Clear(a + 1)
  BY GapsAre
<1>3. Ch(SkipSpace(a + 1)) # "sp" /\ Nth(SkipSpace(a + 1)) = Nth(a + 1)
  BY <1>1, SkipsBlanks
<1>4. Clear(SkipSpace(a + 1)) /\ Gapless(SkipSpace(a + 1))
  BY <1>1, <1>2, GapsSkipped
<1>5. QED
  BY <1>1, <1>2, <1>3, <1>4, NthIs

LEMMA GraspOpen ==
  ASSUME Reads, NEW f \in Seq(Fn), NEW fn \in Fn, NEW a \in 1..(Len(text) + 1),
         Grasp("value", f, a), Ch(a) = Opens(fn)
  PROVE  Grasp("first", Append(f, fn), SkipSpace(a + 1))
<1> DEFINE e == SkipSpace(a + 1)
<1>1. Ch(a) \notin NumberSigns /\ Ch(a) # "sp" /\ Ch(a) # "end"
  BY DEF Opens, NumberSigns, Digits
<1>2. Gapless(a) /\ Sound(Bare, "value", f, Nth(a))
  BY DEF Grasp
<1>3. /\ Bare \in Seq(Symbols) /\ Nth(a) \in 1..Len(Bare) /\ Bare[Nth(a)] = Opens(fn)
      /\ Ch(e) # "sp" /\ Nth(e) = Nth(a) + 1 /\ Clear(e) /\ Gapless(e)
  BY <1>1, <1>2, MarkRead
<1> HIDE DEF e
<1>4. Sound(Bare, "first", Append(f, fn), Nth(a) + 1)
  BY <1>2, <1>3, SoundOpen
<1>5. IsJson(text) => Complete(Bare, "first", Append(f, fn), Nth(a) + 1)
  <2>1. IsJson(text) => Complete(Bare, "value", f, Nth(a))
    BY DEF Grasp
  <2>2. QED
    BY <1>3, <2>1, CompleteOpen
<1>6. QED
  BY <1>3, <1>4, <1>5 DEF Grasp, e

LEMMA GraspLoop ==
  ASSUME Reads, NEW f \in Seq(Fn), f # <<>>, NEW a \in 1..(Len(text) + 1),
         Grasp("first", f, a), Ch(a) # Closes(f[Len(f)])
  PROVE  Grasp(IF f[Len(f)] = "array" THEN "value" ELSE "key", f, a)
<1> DEFINE q == IF f[Len(f)] = "array" THEN "value" ELSE "key"
<1>1. Ch(a) # "sp" /\ Clear(a) /\ Gapless(a) /\ Sound(Bare, "first", f, Nth(a))
  BY DEF Grasp
<1>2. /\ Bare \in Seq(Symbols) /\ Nth(a) \in 1..(Len(Bare) + 1)
      /\ Nth(a) \in 1..Len(Bare) => Bare[Nth(a)] # Closes(f[Len(f)])
  BY <1>1, SignIs, NthIs
<1>3. Sound(Bare, q, f, Nth(a))
  BY <1>1, <1>2, SoundLoop
<1>4. IsJson(text) => Complete(Bare, q, f, Nth(a))
  <2>1. IsJson(text) => Complete(Bare, "first", f, Nth(a))
    BY DEF Grasp
  <2>2. QED
    BY <1>2, <2>1, CompleteLoop
<1>5. q \in {"value", "key"}
  OBVIOUS
<1> HIDE DEF q
<1>6. Grasp(q, f, a)
  BY <1>1, <1>3, <1>4, <1>5 DEF Grasp
<1>7. QED
  BY <1>6 DEF q

LEMMA GraspClose ==
  ASSUME Reads, NEW f \in Seq(Fn), f # <<>>, NEW a \in 1..(Len(text) + 1),
         NEW q \in {"first", "separator"}, Grasp(q, f, a), Ch(a) = Closes(f[Len(f)])
  PROVE  Grasp("returned", SubSeq(f, 1, Len(f) - 1), a + 1)
<1> DEFINE g == SubSeq(f, 1, Len(f) - 1)
<1>1. Ch(a) \notin NumberSigns /\ Ch(a) # "sp" /\ Ch(a) # "end"
  BY DEF Closes, NumberSigns, Digits
<1>2. Gapless(a) /\ Sound(Bare, q, f, Nth(a))
  BY DEF Grasp
<1>3. /\ Bare \in Seq(Symbols) /\ Nth(a) \in 1..Len(Bare) /\ Bare[Nth(a)] = Closes(f[Len(f)])
      /\ Nth(a + 1) = Nth(a) + 1 /\ Gapless(a + 1)
  BY <1>1, <1>2, MarkRead
<1>4. Sound(Bare, "returned", g, Nth(a) + 1)
  BY <1>2, <1>3, SoundClose
<1>5. IsJson(text) => Complete(Bare, "returned", g, Nth(a) + 1)
  <2>1. IsJson(text) => Complete(Bare, q, f, Nth(a))
    BY DEF Grasp
  <2>2. QED
    BY <1>3, <2>1, CompleteClose
<1> HIDE DEF g
<1>6. QED
  BY <1>3, <1>4, <1>5 DEF Grasp, g

LEMMA GraspKey ==
  ASSUME Reads, NEW f \in Seq(Fn), f # <<>>, NEW a \in 1..(Len(text) + 1), Grasp("key", f, a)
  PROVE  /\ Ch(a) \in Strings => Grasp("colon", f, SkipSpace(a + 1))
         /\ Ch(a) \notin Strings => ~IsJson(text)
<1> DEFINE e == SkipSpace(a + 1)
<1>1. Gapless(a) /\ Sound(Bare, "key", f, Nth(a)) /\ Ch(a) # "sp"
  BY DEF Grasp
<1>2. Bare \in Seq(Symbols) /\ Nth(a) \in 1..(Len(Bare) + 1)
  BY NthIs
<1>3. IsJson(text) => /\ Nth(a) \in 1..Len(Bare) /\ Bare[Nth(a)] \in Strings
                      /\ Complete(Bare, "colon", f, Nth(a) + 1)
  <2>1. IsJson(text) => Complete(Bare, "key", f, Nth(a))
    BY DEF Grasp
  <2>2. QED
    BY <1>2, <2>1, CompleteKey
<1>4. IsJson(text) => Ch(a) \in Strings
  <2>1. IsJson(text) => Ch(a) # "end"
    BY <1>1, <1>3, SignIs
  <2>2. IsJson(text) => Bare[Nth(a)] = Ch(a)
    BY <1>1, <2>1, SignIs
  <2>3. QED
    BY <1>3, <2>2
<1>5. ASSUME Ch(a) \in Strings PROVE Grasp("colon", f, e)
  <2>1. Ch(a) \notin NumberSigns /\ Ch(a) # "end"
    BY <1>5 DEF NumberSigns, Digits, Strings
  <2>2. /\ Nth(a) \in 1..Len(Bare) /\ Bare[Nth(a)] = Ch(a)
        /\ Ch(e) # "sp" /\ Nth(e) = Nth(a) + 1 /\ Gapless(e)
    BY <1>1, <2>1, MarkRead
  <2>3. Sound(Bare, "colon", f, Nth(a) + 1)
    BY <1>1, <1>2, <1>5, <2>2, SoundKey
  <2> HIDE DEF e
  <2>4. QED
    BY <1>3, <2>2, <2>3 DEF Grasp
<1>6. QED
  BY <1>4, <1>5

LEMMA GraspColon ==
  ASSUME Reads, NEW f \in Seq(Fn), f # <<>>, f[Len(f)] = "object",
         NEW a \in 1..(Len(text) + 1), Grasp("colon", f, a)
  PROVE  /\ Ch(a) = ":" => Grasp("value", f, SkipSpace(a + 1))
         /\ Ch(a) # ":" => ~IsJson(text)
<1> DEFINE e == SkipSpace(a + 1)
<1>1. Gapless(a) /\ Sound(Bare, "colon", f, Nth(a)) /\ Ch(a) # "sp"
  BY DEF Grasp
<1>2. Bare \in Seq(Symbols) /\ Nth(a) \in 1..(Len(Bare) + 1)
  BY NthIs
<1>3. IsJson(text) => /\ Nth(a) \in 1..Len(Bare) /\ Bare[Nth(a)] = ":"
                      /\ Complete(Bare, "value", f, Nth(a) + 1)
  <2>1. IsJson(text) => Complete(Bare, "colon", f, Nth(a))
    BY DEF Grasp
  <2>2. QED
    BY <2>1, CompleteColon
<1>4. IsJson(text) => Ch(a) = ":"
  <2>1. IsJson(text) => Ch(a) # "end"
    BY <1>1, <1>3, SignIs
  <2>2. IsJson(text) => Bare[Nth(a)] = Ch(a)
    BY <1>1, <2>1, SignIs
  <2>3. QED
    BY <1>3, <2>2
<1>5. ASSUME Ch(a) = ":" PROVE Grasp("value", f, e)
  <2>1. Ch(a) \notin NumberSigns /\ Ch(a) # "end"
    BY <1>5 DEF NumberSigns, Digits
  <2>2. /\ Nth(a) \in 1..Len(Bare) /\ Bare[Nth(a)] = Ch(a)
        /\ Ch(e) # "sp" /\ Nth(e) = Nth(a) + 1 /\ Clear(e) /\ Gapless(e)
    BY <1>1, <2>1, MarkRead
  <2>3. Sound(Bare, "value", f, Nth(a) + 1)
    BY <1>1, <1>2, <1>5, <2>2, SoundColon
  <2> HIDE DEF e
  <2>4. QED
    BY <1>3, <2>2, <2>3 DEF Grasp
<1>6. QED
  BY <1>4, <1>5

LEMMA GraspScalar ==
  ASSUME Reads, NEW f \in Seq(Fn), NEW a \in 1..(Len(text) + 1), Grasp("value", f, a),
         Ch(a) \notin {"[", "{"}
  PROVE  /\ ScalarEnd(a) # 0 => Grasp("returned", f, ScalarEnd(a))
         /\ ScalarEnd(a) = 0 => ~IsJson(text)
<1> DEFINE p == Nth(a)
<1>1. Gapless(a) /\ Clear(a) /\ Sound(Bare, "value", f, p) /\ Ch(a) # "sp"
  BY DEF Grasp
<1>2. Bare \in Seq(Symbols) /\ p \in 1..(Len(Bare) + 1)
  BY NthIs
<1>3. ASSUME IsJson(text)
      PROVE  ScalarEnd(a) # 0 /\ Complete(Bare, "returned", f, Nth(ScalarEnd(a)))
  <2>1. Complete(Bare, "value", f, p)
    BY <1>3 DEF Grasp
  <2>2. /\ p \in 1..Len(Bare)
        /\ Bare[p] \notin {"[", "{"} =>
             \E z \in (p + 1)..(Len(Bare) + 1) :
               /\ IsScalar(SubSeq(Bare, p, z - 1)) /\ Complete(Bare, "returned", f, z)
               /\ z <= Len(Bare) => Bare[z] \notin NumberSigns
    <3> HIDE DEF p
    <3>1. QED
      BY <1>2, <2>1, CompleteScalar, Zenon
  <2>3. Bare[p] = Ch(a)
    <3>1. Ch(a) # "end"
      BY <1>1, <2>2, SignIs
    <3>2. QED
      BY <1>1, <3>1, SignIs
  <2>4. PICK z \in (p + 1)..(Len(Bare) + 1) :
               /\ IsScalar(SubSeq(Bare, p, z - 1)) /\ Complete(Bare, "returned", f, z)
               /\ z <= Len(Bare) => Bare[z] \notin NumberSigns
    BY <2>2, <2>3
  <2>5. Gapless(Len(text) + 1)
    BY <1>3, JsonIs
  <2>6. ScalarEnd(a) # 0 /\ Nth(ScalarEnd(a)) = z
    BY <1>1, <2>4, <2>5, ScalarComes
  <2>7. QED
    BY <2>4, <2>6
<1>4. ASSUME ScalarEnd(a) # 0 PROVE Grasp("returned", f, ScalarEnd(a))
  <2> DEFINE e == ScalarEnd(a)
  <2>1. IsVal(Bare, p, Nth(e) - 1) /\ Gapless(e)
    BY <1>1, <1>4, ScalarGoes
  <2> HIDE DEF e, p
  <2>2. Sound(Bare, "returned", f, Nth(e))
    BY <1>1, <1>2, <2>1, SoundScalar
  <2>3. IsJson(text) => Complete(Bare, "returned", f, Nth(e))
    BY <1>3 DEF e
  <2>4. Grasp("returned", f, e)
    BY <2>1, <2>2, <2>3 DEF Grasp
  <2>5. QED
    BY <2>4 DEF e
<1>5. QED
  BY <1>3, <1>4

LEMMA GraspAppend ==
  ASSUME Reads, NEW f \in Seq(Fn), NEW a \in 1..(Len(text) + 1), Grasp("returned", f, a)
  PROVE  /\ Grasp("separator", f, SkipSpace(a))
         /\ f = <<>> /\ Ch(SkipSpace(a)) = "end" => Grasp("accepted", f, SkipSpace(a))
         /\ f = <<>> /\ Ch(SkipSpace(a)) # "end" => ~IsJson(text)
<1> DEFINE e == SkipSpace(a)
<1>1. Gapless(a) /\ Sound(Bare, "returned", f, Nth(a))
  BY DEF Grasp
<1>2. Bare \in Seq(Symbols) /\ Len(Bare) \in Nat
  BY NthIs
<1>3. e \in 1..(Len(text) + 1) /\ Ch(e) # "sp" /\ Nth(e) = Nth(a) /\ Gapless(e)
  BY <1>1, SkipsBlanks, GapsSkipped
<1>4. Nth(a) \in Nat \ {0}
  BY NthIs
<1> HIDE DEF e
<1>5. IsJson(text) => /\ Complete(Bare, "separator", f, Nth(a))
                      /\ f = <<>> => Nth(a) = Len(Bare) + 1
  <2>1. IsJson(text) => Complete(Bare, "returned", f, Nth(a))
    BY DEF Grasp
  <2>2. QED
    BY <1>2, <1>4, <2>1, CompleteAppend
<1>6. /\ Sound(Bare, "separator", f, Nth(a))
      /\ f = <<>> /\ Nth(a) = Len(Bare) + 1 => Sound(Bare, "accepted", f, Nth(a))
  BY <1>1, SoundAppend
<1>7. Grasp("separator", f, e)
  BY <1>3, <1>5, <1>6 DEF Grasp
<1>8. ASSUME f = <<>>, Ch(e) = "end" PROVE Grasp("accepted", f, e)
  <2>1. e = Len(text) + 1 /\ Nth(e) = Len(Bare) + 1
    BY <1>3, <1>8, SignIs
  <2>2. Complete(Bare, "accepted", f, Nth(e))
    BY DEF Complete
  <2>3. QED
    BY <1>3, <1>6, <1>8, <2>1, <2>2 DEF Grasp
<1>9. ASSUME f = <<>>, Ch(e) # "end" PROVE ~IsJson(text)
  <2>1. Nth(e) \in 1..Len(Bare)
    BY <1>3, <1>9, SignIs
  <2>2. Nth(e) # Len(Bare) + 1
    BY <1>2, <2>1
  <2>3. QED
    BY <1>3, <1>5, <1>9, <2>2
<1>10. QED
  BY <1>7, <1>8, <1>9 DEF e

LEMMA GraspComma ==
  ASSUME Reads, NEW f \in Seq(Fn), f # <<>>, NEW a \in 1..(Len(text) + 1),
         Grasp("separator", f, a)
  PROVE  /\ Ch(a) = Sep =>
              Grasp(IF f[Len(f)] = "array" THEN "value" ELSE "key", f, SkipSpace(a + 1))
         /\ Ch(a) \notin {Closes(f[Len(f)]), Sep} => ~IsJson(text)
<1> DEFINE e == SkipSpace(a + 1)
           q == IF f[Len(f)] = "array" THEN "value" ELSE "key"
<1>1. Gapless(a) /\ Sound(Bare, "separator", f, Nth(a)) /\ Ch(a) # "sp"
  BY DEF Grasp
<1>2. Bare \in Seq(Symbols) /\ Nth(a) \in Nat \ {0}
  BY NthIs
<1>3. q \in {"value", "key"}
  OBVIOUS
<1>4. IsJson(text) => /\ Nth(a) \in 1..Len(Bare)
                      /\ Bare[Nth(a)] \in {Closes(f[Len(f)]), Sep}
                      /\ Bare[Nth(a)] = Sep => Complete(Bare, q, f, Nth(a) + 1)
  <2>1. IsJson(text) => Complete(Bare, "separator", f, Nth(a))
    BY DEF Grasp
  <2>2. QED
    BY <1>2, <2>1, CompleteComma, Zenon
<1>5. IsJson(text) => Bare[Nth(a)] = Ch(a)
  <2>1. IsJson(text) => Ch(a) # "end"
    BY <1>1, <1>4, SignIs
  <2>2. QED
    BY <1>1, <2>1, SignIs
<1>6. ASSUME Ch(a) = Sep PROVE Grasp(q, f, e)
  <2>1. Sep \notin NumberSigns /\ Sep # "end" /\ Sep # "sp"
    BY Zenon DEF NumberSigns, Digits, Sep
  <2>2. /\ Nth(a) \in 1..Len(Bare) /\ Bare[Nth(a)] = Ch(a)
        /\ Ch(e) # "sp" /\ Nth(e) = Nth(a) + 1 /\ Clear(e) /\ Gapless(e)
    BY <1>1, <1>6, <2>1, MarkRead
  <2>3. Sound(Bare, q, f, Nth(a) + 1)
    BY <1>1, <1>2, <1>6, <2>2, SoundComma
  <2> HIDE DEF e, q
  <2>4. IsJson(text) => Complete(Bare, q, f, Nth(e))
    BY <1>4, <1>6, <2>2
  <2>5. QED
    BY <1>3, <2>2, <2>3, <2>4 DEF Grasp
<1>7. Ch(a) \notin {Closes(f[Len(f)]), Sep} => ~IsJson(text)
  BY <1>4, <1>5
<1>8. QED
  BY <1>6, <1>7

(* parse_value has failed somewhere.                                       *)
LEMMA GraspFails ==
  ASSUME NEW q \in {"failed", "rejected"}, NEW f, NEW a
  PROVE  Grasp(q, f, a) <=> ~IsJson(text)
<1>1. ~Complete(Bare, q, f, Nth(a))
  BY DEF Complete, Awaits
<1>2. Sound(Bare, q, f, Nth(a))
  BY DEF Sound
<1>3. QED
  BY <1>1, <1>2 DEF Grasp

LEMMA GraspFirst ==
  ASSUME Reads
  PROVE  Grasp("value", <<>>, SkipSpace(1))
<1> DEFINE e == SkipSpace(1)
<1>1. 1 \in 1..(Len(text) + 1) /\ 1..(1 - 1) = {}
  BY DEF Reads
<1>2. Gapless(1) /\ Clear(1)
  BY <1>1 DEF Gapless, Clear
<1>3. Ch(e) # "sp" /\ Nth(e) = Nth(1) /\ Gapless(e) /\ Clear(e)
  BY <1>1, <1>2, SkipsBlanks, GapsSkipped
<1>4. Bare \in Seq(Symbols) /\ Nth(1) = 1
  BY NthIs
<1> HIDE DEF e
<1>5. /\ Sound(Bare, "value", <<>>, Nth(e))
      /\ IsJson(text) => Complete(Bare, "value", <<>>, Nth(e))
  BY <1>3, <1>4, JsonIs, BeforeAll
<1>6. QED
  BY <1>3, <1>5 DEF Grasp, e

(* What the parser knows of a text that it accepts is that it is JSON.     *)
LEMMA GraspAccepted ==
  ASSUME Reads, NEW a, NEW f, Grasp("accepted", f, a)
  PROVE  IsJson(text)
<1>1. a = Len(text) + 1 /\ Gapless(a) /\ Sound(Bare, "accepted", f, Nth(a))
  BY DEF Grasp
<1>2. PICK c : Spells(Bare, f, c) /\ Stands(Bare, "accepted", f, c, Nth(a))
  BY <1>1 DEF Sound
<1>3. f = <<>> /\ Nth(a) = Len(Bare) + 1 /\ IsVal(Bare, Base(f, c, Len(f)), Nth(a) - 1)
  BY <1>2 DEF Stands
<1>4. Base(f, c, Len(f)) = 1
  <2>1. c[0] = 1
    BY <1>2 DEF Spells
  <2>2. Len(<<>>) = 0
    OBVIOUS
  <2>3. QED
    BY <1>3, <2>1, <2>2 DEF Base
<1>5. Nth(a) - 1 = Len(Bare)
  <2>1. Len(Bare) \in Nat
    BY NthIs
  <2>2. QED
    BY <1>3, <2>1
<1>6. QED
  BY <1>1, <1>3, <1>4, <1>5, JsonIs

-----------------------------------------------------------------------------
(* The calls that are active.                                              *)

FnsOf(fs) == [k \in 1..Len(fs) |-> fs[k].fn]
Fns       == FnsOf(frames)

LEMMA FnsAre ==
  ASSUME NEW fs \in Seq(Calls)
  PROVE  /\ FnsOf(fs) \in Seq(Fn) /\ Len(FnsOf(fs)) = Len(fs) /\ Len(fs) \in Nat
         /\ \A k \in 1..Len(fs) : FnsOf(fs)[k] = fs[k].fn
         /\ fs = <<>> => FnsOf(fs) = <<>>
         /\ fs # <<>> => FnsOf(fs) # <<>> /\ Len(fs) \in 1..Len(fs)
<1>1. Len(fs) \in Nat /\ \A k \in 1..Len(fs) : fs[k] \in Calls
  OBVIOUS
<1>2. \A c \in Calls : c.fn \in Fn
  BY DEF Calls, Fn
<1>3. \A k \in 1..Len(fs) : fs[k].fn \in Fn
  BY <1>1, <1>2
<1> DEFINE g == [k \in 1..Len(fs) |-> fs[k].fn]
<1>4. g \in Seq(Fn) /\ Len(g) = Len(fs) /\ \A k \in 1..Len(fs) : g[k] = fs[k].fn
  BY <1>1, <1>3, IsASeq
<1>5. FnsOf(fs) = g
  BY DEF FnsOf
<1> HIDE DEF g
<1>6. Len(<<>>) = 0
  OBVIOUS
<1>7. fs = <<>> => g = <<>>
  <2>1. fs = <<>> => Len(g) = 0
    BY <1>4, <1>6
  <2>2. QED
    BY <1>4, <2>1, EmptySeq
<1>8. fs # <<>> => g # <<>> /\ Len(fs) \in 1..Len(fs)
  <2>1. fs # <<>> => Len(fs) # 0
    BY EmptySeq
  <2>2. QED
    BY <1>1, <1>4, <1>6, <2>1
<1>9. QED
  BY <1>1, <1>4, <1>5, <1>7, <1>8

LEMMA FnsPush ==
  ASSUME NEW fs \in Seq(Calls), NEW c \in Calls
  PROVE  FnsOf(Append(fs, c)) = Append(FnsOf(fs), c.fn) /\ c.fn \in Fn
<1> DEFINE n == Len(fs)
           g == Append(fs, c)
           h == Append(FnsOf(fs), c.fn)
<1>0. c.fn \in Fn
  BY DEF Calls, Fn
<1>1. /\ FnsOf(fs) \in Seq(Fn) /\ Len(FnsOf(fs)) = n /\ n \in Nat
      /\ \A k \in 1..n : FnsOf(fs)[k] = fs[k].fn
  BY FnsAre
<1>2. g \in Seq(Calls) /\ Len(g) = n + 1 /\ g[n + 1] = c /\ \A k \in 1..n : g[k] = fs[k]
  BY AppendProperties
<1>3. /\ h \in Seq(Fn) /\ Len(h) = n + 1 /\ h[n + 1] = c.fn
      /\ \A k \in 1..n : h[k] = FnsOf(fs)[k]
  BY <1>0, <1>1, AppendProperties
<1> HIDE DEF g, h, n
<1>4. /\ FnsOf(g) \in Seq(Fn) /\ Len(FnsOf(g)) = n + 1
      /\ \A k \in 1..(n + 1) : FnsOf(g)[k] = g[k].fn
  BY <1>2, FnsAre
<1>5. \A k \in 1..(n + 1) : FnsOf(g)[k] = h[k]
  <2>1. \A k \in 1..(n + 1) : k \in 1..n \/ k = n + 1
    BY <1>1
  <2>2. QED
    BY <1>1, <1>2, <1>3, <1>4, <2>1
<1>6. FnsOf(g) = h
  BY <1>3, <1>4, <1>5, SeqEqual
<1>7. QED
  BY <1>0, <1>6 DEF g, h

LEMMA FnsPop ==
  ASSUME frames \in Seq(Calls), frames # <<>>
  PROVE  FnsOf(Pop) = SubSeq(Fns, 1, Len(Fns) - 1)
<1> DEFINE n == Len(frames)
           h == SubSeq(Fns, 1, n - 1)
<1>1. /\ Fns \in Seq(Fn) /\ Len(Fns) = n /\ n \in Nat /\ n \in 1..n
      /\ \A k \in 1..n : Fns[k] = frames[k].fn
  BY FnsAre DEF Fns
<1>2. /\ Pop \in Seq(Calls) /\ Len(Pop) = n - 1
      /\ \A k \in 1..Len(Pop) : Pop[k] = frames[k] /\ k \in 1..n
  BY Popped
<1> HIDE DEF n
<1>3. h \in Seq(Fn) /\ Len(h) = n - 1 /\ \A k \in 1..(n - 1) : h[k] = Fns[k]
  <2>1. 1 \in Int /\ n - 1 \in Int /\ \A k \in 1..(n - 1) : Fns[k] \in Fn
    <3>1. \A k \in 1..(n - 1) : k \in 1..n
      BY <1>1
    <3>2. QED
      BY <1>1, <3>1
  <2>2. /\ h \in Seq(Fn) /\ Len(h) = (IF 1 <= n - 1 THEN (n - 1) - 1 + 1 ELSE 0)
        /\ \A k \in 1..((n - 1) - 1 + 1) : h[k] = Fns[1 + k - 1]
    BY <2>1, SubSeqProperties
  <2> HIDE DEF h
  <2>3. n \in Nat /\ n \in 1..n
    BY <1>1, Zenon
  <2>4. (IF 1 <= n - 1 THEN (n - 1) - 1 + 1 ELSE 0) = n - 1 /\ (n - 1) - 1 + 1 = n - 1
    BY <2>3
  <2>5. \A k \in 1..(n - 1) : 1 + k - 1 = k
    BY <2>3
  <2>6. QED
    BY <2>2, <2>4, <2>5
<1>4. /\ FnsOf(Pop) \in Seq(Fn) /\ Len(FnsOf(Pop)) = n - 1
      /\ \A k \in 1..(n - 1) : FnsOf(Pop)[k] = Pop[k].fn
  BY <1>2, FnsAre
<1> HIDE DEF h
<1>5. \A k \in 1..(n - 1) : FnsOf(Pop)[k] = h[k]
  BY <1>1, <1>2, <1>3, <1>4
<1>6. FnsOf(Pop) = h
  BY <1>3, <1>4, <1>5, SeqEqual
<1>7. QED
  BY <1>1, <1>6 DEF h

LEMMA FnsTop ==
  ASSUME frames \in Seq(Calls)
  PROVE  /\ Fns \in Seq(Fn) /\ (frames = <<>> => Fns = <<>>)
         /\ frames # <<>> => /\ Fns # <<>> /\ Fns[Len(Fns)] = Top.fn
                             /\ Closer = Closes(Fns[Len(Fns)])
                             /\ LoopStart = IF Fns[Len(Fns)] = "array" THEN "value" ELSE "key"
<1>1. Fns \in Seq(Fn) /\ (frames = <<>> => Fns = <<>>)
  BY FnsAre DEF Fns
<1>2. ASSUME frames # <<>> PROVE Fns # <<>> /\ Fns[Len(Fns)] = Top.fn
  BY <1>2, FnsAre DEF Fns, Top
<1>3. QED
  BY <1>1, <1>2 DEF Closer, Closes, LoopStart

(* The key of the last call is set.                                        *)
LEMMA FnsKey ==
  ASSUME frames \in Seq(Calls), frames # <<>>, NEW x \in Places,
         NEW g, g = [frames EXCEPT ![Len(frames)].key = x]
  PROVE  FnsOf(g) = Fns
<1>1. KeyGiven(g, x)
  BY Keyed
<1>2. /\ g \in Seq(Calls) /\ Len(g) = Len(frames)
      /\ \A i \in 1..Len(frames) : g[i].fn = frames[i].fn
  BY <1>1 DEF KeyGiven, Top
<1>3. QED
  BY <1>2 DEF FnsOf, Fns

AcceptInv == Grasp(pc, Fns, at)

LEMMA GraspNext ==
  ASSUME text' = text, Grasp(pc', FnsOf(frames'), at')
  PROVE  AcceptInv'
BY DEF AcceptInv, Grasp, Fns, Clear, Gapless, Ch, Bare, Nth

LEMMA AcceptStep ==
  ASSUME TypeOK, Control, AcceptInv, [Next]_vars
  PROVE  AcceptInv'
<1>1. Reads /\ at \in 1..(Len(text) + 1) /\ frames \in Seq(Calls) /\ Fns \in Seq(Fn)
  BY Reading, FnsTop
<1>2. /\ pc \in {"first", "key", "colon", "separator"} => frames # <<>>
      /\ pc \in {"key", "colon"} => Fns[Len(Fns)] = "object"
  BY <1>1, FnsTop DEF Control
<1>3. frames # <<>> =>
        /\ Fns # <<>> /\ Closer = Closes(Fns[Len(Fns)])
        /\ LoopStart = IF Fns[Len(Fns)] = "array" THEN "value" ELSE "key"
        /\ FnsOf(Pop) = SubSeq(Fns, 1, Len(Fns) - 1)
  BY <1>1, FnsTop, FnsPop
<1>4. Grasp(pc, Fns, at)
  BY DEF AcceptInv
<1>5. ASSUME text' = text, ~IsJson(text), pc' \in {"failed", "rejected"} PROVE AcceptInv'
  BY <1>5, GraspFails, GraspNext
<1>6. CASE ParseScalar
  <2>1. /\ pc = "value" /\ Ch(at) \notin {"[", "{"} /\ ScalarEnd(at) # 0
        /\ at' = ScalarEnd(at) /\ pc' = "returned" /\ text' = text /\ frames' = frames
    BY <1>6 DEF ParseScalar
  <2>2. Grasp("returned", Fns, ScalarEnd(at))
    BY <1>1, <1>4, <2>1, GraspScalar
  <2>3. QED
    BY <2>1, <2>2, GraspNext DEF Fns
<1>7. CASE NoValue
  <2>1. /\ pc = "value" /\ Ch(at) \notin {"[", "{"} /\ ScalarEnd(at) = 0
        /\ pc' = "failed" /\ text' = text
    BY <1>7 DEF NoValue
  <2>2. ~IsJson(text)
    BY <1>1, <1>4, <2>1, GraspScalar
  <2>3. QED
    BY <1>5, <2>1, <2>2
<1>8. CASE OpenContainer
  <2> DEFINE fn == IF Ch(at) = "[" THEN "array" ELSE "object"
             c  == [fn |-> fn, ret |-> IF out THEN at ELSE NULL, key |-> NULL]
  <2>1. /\ pc = "value" /\ Ch(at) \in {"[", "{"} /\ frames' = Append(frames, c)
        /\ at' = SkipSpace(at + 1) /\ pc' = "first" /\ text' = text
    BY <1>8 DEF OpenContainer
  <2>2. fn \in Fn /\ Ch(at) = Opens(fn)
    BY <2>1 DEF Fn, Opens
  <2>3. c \in Calls /\ c.fn = fn
    <3>1. at \in Places
      BY <1>1, <2>1, MarkIs
    <3>2. QED
      BY <3>1 DEF Calls
  <2> HIDE DEF fn, c
  <2>4. Grasp("first", Append(Fns, fn), SkipSpace(at + 1))
    BY <1>1, <1>4, <2>1, <2>2, GraspOpen
  <2>5. FnsOf(Append(frames, c)) = Append(Fns, fn)
    BY <1>1, <2>3, FnsPush DEF Fns
  <2>6. QED
    BY <2>1, <2>4, <2>5, GraspNext
<1>9. CASE NotEmpty
  <2>1. /\ pc = "first" /\ Ch(at) # Closer /\ pc' = LoopStart
        /\ text' = text /\ at' = at /\ frames' = frames
    BY <1>9 DEF NotEmpty
  <2>2. Grasp(LoopStart, Fns, at)
    BY <1>1, <1>2, <1>3, <1>4, <2>1, GraspLoop
  <2>3. QED
    BY <2>1, <2>2, GraspNext DEF Fns
<1>10. CASE Close
  <2>1. /\ pc \in {"first", "separator"} /\ Ch(at) = Closer /\ at' = at + 1
        /\ frames' = Pop /\ pc' = "returned" /\ text' = text
    BY <1>10 DEF Close
  <2>2. Grasp("returned", SubSeq(Fns, 1, Len(Fns) - 1), at + 1)
    BY <1>1, <1>2, <1>3, <1>4, <2>1, GraspClose
  <2>3. QED
    BY <1>2, <1>3, <2>1, <2>2, GraspNext
<1>11. CASE ParseKey
  <2>1. /\ pc = "key" /\ Ch(at) \in Strings /\ at' = SkipSpace(at + 1) /\ pc' = "colon"
        /\ text' = text
        /\ frames' = frames \/ frames' = [frames EXCEPT ![Len(frames)].key = at]
    BY <1>11 DEF ParseKey
  <2>2. Grasp("colon", Fns, SkipSpace(at + 1))
    BY <1>1, <1>2, <1>3, <1>4, <2>1, GraspKey
  <2>3. at \in Places
    <3>1. Ch(at) # "end"
      BY <2>1 DEF Strings
    <3>2. QED
      BY <1>1, <3>1, MarkIs
  <2>4. FnsOf(frames') = Fns
    <3>1. CASE frames' = frames
      BY <3>1 DEF Fns
    <3>2. CASE frames' = [frames EXCEPT ![Len(frames)].key = at]
      <4>1. frames # <<>>
        BY <1>2, <2>1
      <4>2. QED
        BY <1>1, <2>3, <3>2, <4>1, FnsKey
    <3>3. QED
      BY <2>1, <3>1, <3>2
  <2>5. QED
    BY <2>1, <2>2, <2>4, GraspNext
<1>12. CASE Colon
  <2>1. /\ pc = "colon" /\ Ch(at) = ":" /\ at' = SkipSpace(at + 1) /\ pc' = "value"
        /\ text' = text /\ frames' = frames
    BY <1>12 DEF Colon
  <2>2. Grasp("value", Fns, SkipSpace(at + 1))
    BY <1>1, <1>2, <1>3, <1>4, <2>1, GraspColon
  <2>3. QED
    BY <2>1, <2>2, GraspNext DEF Fns
<1>13. CASE AppendValue
  <2>1. /\ pc = "returned" /\ at' = SkipSpace(at) /\ pc' = "separator"
        /\ text' = text /\ frames' = frames
    BY <1>13 DEF AppendValue
  <2>2. Grasp("separator", Fns, SkipSpace(at))
    BY <1>1, <1>4, <2>1, GraspAppend
  <2>3. QED
    BY <2>1, <2>2, GraspNext DEF Fns
<1>14. CASE Comma
  <2>1. /\ pc = "separator" /\ Ch(at) = Sep /\ at' = SkipSpace(at + 1) /\ pc' = LoopStart
        /\ text' = text /\ frames' = frames
    BY <1>14, Zenon DEF Comma, Sep
  <2>2. Grasp(LoopStart, Fns, SkipSpace(at + 1))
    BY <1>1, <1>2, <1>3, <1>4, <2>1, GraspComma
  <2>3. QED
    BY <2>1, <2>2, GraspNext DEF Fns
<1>15. CASE NoKey
  <2>1. pc = "key" /\ Ch(at) \notin Strings /\ pc' = "failed" /\ text' = text
    BY <1>15 DEF NoKey, GiveUp
  <2>2. ~IsJson(text)
    BY <1>1, <1>2, <1>3, <1>4, <2>1, GraspKey
  <2>3. QED
    BY <1>5, <2>1, <2>2
<1>16. CASE NoColon
  <2>1. pc = "colon" /\ Ch(at) # ":" /\ pc' = "failed" /\ text' = text
    BY <1>16 DEF NoColon, GiveUp
  <2>2. ~IsJson(text)
    BY <1>1, <1>2, <1>3, <1>4, <2>1, GraspColon
  <2>3. QED
    BY <1>5, <2>1, <2>2
<1>17. CASE NoComma
  <2>1. pc = "separator" /\ Ch(at) \notin {Closer, Sep} /\ pc' = "failed" /\ text' = text
    BY <1>17, Zenon DEF NoComma, GiveUp, Sep
  <2>2. ~IsJson(text)
    BY <1>1, <1>2, <1>3, <1>4, <2>1, GraspComma
  <2>3. QED
    BY <1>5, <2>1, <2>2
<1>18. CASE ValueFailed \/ Reject
  <2>1. pc = "failed" /\ pc' \in {"failed", "rejected"} /\ text' = text
    BY <1>18 DEF ValueFailed, GiveUp, Reject, Return
  <2>2. ~IsJson(text)
    BY <1>4, <2>1, GraspFails
  <2>3. QED
    BY <1>5, <2>1, <2>2
<1>19. CASE Accept
  <2>1. /\ pc = "returned" /\ frames = <<>> /\ Ch(SkipSpace(at)) = "end"
        /\ at' = SkipSpace(at) /\ pc' = "accepted" /\ text' = text /\ frames' = frames
    BY <1>19 DEF Accept, Return
  <2>2. Fns = <<>>
    BY <1>1, <2>1, FnsTop
  <2>3. Grasp("accepted", Fns, SkipSpace(at))
    BY <1>1, <1>4, <2>1, <2>2, GraspAppend
  <2>4. QED
    BY <2>1, <2>3, GraspNext DEF Fns
<1>20. CASE RejectRest
  <2>1. /\ pc = "returned" /\ frames = <<>> /\ Ch(SkipSpace(at)) # "end"
        /\ pc' = "rejected" /\ text' = text
    BY <1>20 DEF RejectRest, Return
  <2>2. Fns = <<>>
    BY <1>1, <2>1, FnsTop
  <2>3. ~IsJson(text)
    BY <1>1, <1>4, <2>1, <2>2, GraspAppend
  <2>4. QED
    BY <1>5, <2>1, <2>3
<1>21. CASE UNCHANGED vars
  <2>1. text' = text /\ pc' = pc /\ frames' = frames /\ at' = at
    BY <1>21 DEF vars
  <2>2. QED
    BY <1>4, <2>1, GraspNext DEF Fns
<1>22. QED
  BY <1>6, <1>7, <1>8, <1>9, <1>10, <1>11, <1>12, <1>13, <1>14, <1>15, <1>16, <1>17,
     <1>18, <1>19, <1>20, <1>21 DEF Next

LEMMA AcceptStart ==
  ASSUME Init
  PROVE  AcceptInv
<1>1. Reads /\ frames \in Seq(Calls)
  BY ParseInit, Reading DEF ParseInv
<1>2. pc = "value" /\ at = SkipSpace(1) /\ frames = <<>>
  BY DEF Init
<1>3. QED
  BY <1>1, <1>2, FnsTop, GraspFirst DEF AcceptInv

(* Whatever the text and however deep it nests, json_decode and            *)
(* json_validate accept it exactly if it is JSON: if it can be cut into    *)
(* the parts of a value, with no blank inside a number.                    *)
THEOREM AcceptsExactlyJson == Spec => []AcceptsJson
<1>1. Init => ParseInv /\ AcceptInv
  BY ParseInit, AcceptStart
<1>2. ParseInv /\ AcceptInv /\ [Next]_vars => ParseInv' /\ AcceptInv'
  BY ParseStep, AcceptStep DEF ParseInv
<1>3. ParseInv /\ AcceptInv => AcceptsJson
  <2> SUFFICES ASSUME ParseInv, AcceptInv, pc \in {"accepted", "rejected"}
               PROVE  pc = "accepted" <=> IsJson(text)
    BY DEF AcceptsJson, Done
  <2>1. Reads
    BY Reading DEF ParseInv
  <2>2. Grasp(pc, Fns, at)
    BY DEF AcceptInv
  <2>3. CASE pc = "accepted"
    BY <2>1, <2>2, <2>3, GraspAccepted
  <2>4. CASE pc = "rejected"
    BY <2>2, <2>4, GraspFails
  <2>5. QED
    BY <2>3, <2>4
<1>4. QED
  BY <1>1, <1>2, <1>3, PTL DEF Spec
=============================================================================
