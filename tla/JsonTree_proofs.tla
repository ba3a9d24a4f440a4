--------------------------- MODULE JsonTree_proofs ---------------------------
(***************************************************************************)
(* Why the trees of json.c stay whole.                                     *)
(*                                                                         *)
(* At every point there is, for each live node p, a sequence that has      *)
(* every live node whose parent is p, once, and that prev, next, head and  *)
(* tail spell out (Lists); a node without a parent has no siblings and no  *)
(* key, and only containers are parents (Parents); the nodes that the      *)
(* running json_delete has entered are roots, and each loop goes on with   *)
(* the first child that is left (Deleting).  An append, a prepend and a    *)
(* removal change one of the sequences and leave the others as they are.   *)
(* From this TreeInv follow NoDangling and LinksAgree, for any number of   *)
(* nodes.  That the pointers implement JsonForest also needs Doom: what    *)
(* the running json_delete is to free is closed under children, and each   *)
(* doomed node that is left is being deleted or hangs, over doomed ones,   *)
(* from one that is.                                                       *)
(***************************************************************************)
EXTENDS JsonTree, Reach_proofs

(* The i-th of the nodes in s, NULL before the first and behind the last.  *)
At(s, i) == IF i \in 1..Len(s) THEN s[i] ELSE NULL

(* s is the list of the children of p: it has each live node whose parent  *)
(* is p, once, and the links say so.                                       *)
IsListOf(p, s) ==
  /\ s \in Seq(Nodes)
  /\ \A i, j \in 1..Len(s) : s[i] = s[j] => i = j
  /\ \A i \in 1..Len(s) : s[i] \in live /\ parent[s[i]] = p
  /\ \A m \in live : parent[m] = p => \E i \in 1..Len(s) : s[i] = m
  /\ head[p] = At(s, 1) /\ tail[p] = At(s, Len(s))
  /\ \A i \in 1..Len(s) : prev[s[i]] = At(s, i - 1) /\ next[s[i]] = At(s, i + 1)

TypeOK ==
  /\ live \in SUBSET Nodes
  /\ tag \in [Nodes -> {"leaf"} \cup Containers]
  /\ parent \in [Nodes -> Pointers] /\ prev \in [Nodes -> Pointers]
  /\ next \in [Nodes -> Pointers] /\ key \in [Nodes -> Names \cup {NULL}]
  /\ head \in [Nodes -> Pointers] /\ tail \in [Nodes -> Pointers]
  /\ stack \in Seq([node : Nodes, next : Pointers])

Lists == \A p \in live : \E s \in Seq(Nodes) : IsListOf(p, s)

Parents ==
  \A n \in live :
    /\ parent[n] = NULL => prev[n] = NULL /\ next[n] = NULL /\ key[n] = NULL
    /\ parent[n] # NULL => /\ parent[n] \in live
                           /\ tag[parent[n]] \in Containers
                           /\ tag[parent[n]] = "object" <=> key[n] # NULL

(* The nodes being deleted have left their parents, and each loop goes on  *)
(* with the first child that is left.                                      *)
Deleting ==
  /\ \A i \in 1..Len(stack) : /\ stack[i].node \in live /\ parent[stack[i].node] = NULL
                              /\ stack[i].next = head[stack[i].node]
  /\ \A i, j \in 1..Len(stack) : stack[i].node = stack[j].node => i = j

TreeInv == TypeOK /\ Lists /\ Parents /\ Deleting

-----------------------------------------------------------------------------
(* Sequences of nodes.                                                     *)

LEMMA AtIs ==
  ASSUME NEW s \in Seq(Nodes), NEW i \in Int
  PROVE  /\ At(s, i) = NULL <=> i \notin 1..Len(s)
         /\ i \in 1..Len(s) => At(s, i) = s[i] /\ s[i] \in Nodes
BY JsonTreeAssumption DEF At

LEMMA Appended ==
  ASSUME NEW s \in Seq(Nodes), NEW c \in Nodes
  PROVE  /\ Append(s, c) \in Seq(Nodes) /\ Len(Append(s, c)) = Len(s) + 1
         /\ \A i \in 1..Len(s) : Append(s, c)[i] = s[i]
         /\ Append(s, c)[Len(s) + 1] = c
BY SMT

(* s behind c.                                                             *)
Ahead(c, s) == [i \in 1..(Len(s) + 1) |-> IF i = 1 THEN c ELSE s[i - 1]]

LEMMA AheadIs ==
  ASSUME NEW s \in Seq(Nodes), NEW c \in Nodes
  PROVE  /\ Ahead(c, s) \in Seq(Nodes) /\ Len(Ahead(c, s)) = Len(s) + 1
         /\ Ahead(c, s)[1] = c
         /\ \A i \in 1..Len(s) : Ahead(c, s)[i + 1] = s[i]
<1>1. Len(s) + 1 \in Nat /\ Ahead(c, s) \in [1..(Len(s) + 1) -> Nodes]
  BY SMT DEF Ahead
<1>2. Ahead(c, s) \in Seq(Nodes) /\ Len(Ahead(c, s)) = Len(s) + 1
  BY <1>1, SMT
<1>3. QED
  BY <1>1, <1>2, SMT DEF Ahead

(* s without its k-th node.                                                *)
Cut(s, k) == [i \in 1..(Len(s) - 1) |-> IF i < k THEN s[i] ELSE s[i + 1]]

LEMMA CutIs ==
  ASSUME NEW s \in Seq(Nodes), NEW k \in 1..Len(s)
  PROVE  /\ Cut(s, k) \in Seq(Nodes) /\ Len(Cut(s, k)) = Len(s) - 1
         /\ \A i \in 1..(Len(s) - 1) : Cut(s, k)[i] = IF i < k THEN s[i] ELSE s[i + 1]
<1>1. Len(s) - 1 \in Nat /\ Cut(s, k) \in [1..(Len(s) - 1) -> Nodes]
  BY DEF Cut
<1>2. Cut(s, k) \in Seq(Nodes) /\ Len(Cut(s, k)) = Len(s) - 1
  BY <1>1, SMT
<1>3. QED
  BY <1>2 DEF Cut

-----------------------------------------------------------------------------
(* What each edit does to the lists.                                       *)

LEMMA InitInv == Init => TreeInv
BY DEF Init, TreeInv, TypeOK, Lists, Parents, Deleting, Containers, Pointers

(* Other lists stay if their members' links and their own ends do.         *)
LEMMA ListStays ==
  ASSUME NEW p, NEW s, IsListOf(p, s),
         head'[p] = head[p], tail'[p] = tail[p],
         \A i \in 1..Len(s) : /\ s[i] \in live' /\ parent'[s[i]] = p
                              /\ prev'[s[i]] = prev[s[i]] /\ next'[s[i]] = next[s[i]],
         \A m \in live' : parent'[m] = p => m \in live /\ parent[m] = p
  PROVE  IsListOf(p, s)'
BY DEF IsListOf

LEMMA AppendLists ==
  ASSUME TypeOK, NEW p \in live, NEW c \in live, parent[c] = NULL,
         AppendNode(p, c), live' = live, NEW s \in Seq(Nodes), IsListOf(p, s)
  PROVE  /\ IsListOf(p, Append(s, c))'
         /\ \A q \in live \ {p} : \A t : IsListOf(q, t) => IsListOf(q, t)'
<1>1. /\ live \subseteq Nodes /\ p \in Nodes /\ c \in Nodes /\ NULL \notin Nodes
      /\ parent \in [Nodes -> Pointers] /\ prev \in [Nodes -> Pointers]
      /\ next \in [Nodes -> Pointers]
      /\ head \in [Nodes -> Pointers] /\ tail \in [Nodes -> Pointers]
  BY JsonTreeAssumption DEF TypeOK
<1>2. s \in Seq(Nodes) /\ IsListOf(p, s)
  BY DEF IsListOf
<1>3. /\ parent'[c] = p /\ \A m \in Nodes \ {c} : parent'[m] = parent[m]
      /\ prev'[c] = tail[p] /\ \A m \in Nodes \ {c} : prev'[m] = prev[m]
      /\ \A m \in Nodes : next'[m] = IF m = tail[p] THEN c ELSE IF m = c THEN NULL ELSE next[m]
      /\ head'[p] = (IF tail[p] = NULL THEN c ELSE head[p]) /\ tail'[p] = c
      /\ \A m \in Nodes \ {p} : head'[m] = head[m] /\ tail'[m] = tail[m]
  BY <1>1 DEF AppendNode
<1>4. /\ \A i, j \in 1..Len(s) : s[i] = s[j] => i = j
      /\ \A i \in 1..Len(s) : s[i] \in live /\ parent[s[i]] = p /\ s[i] # c
      /\ \A m \in live : parent[m] = p => \E i \in 1..Len(s) : s[i] = m
      /\ head[p] = At(s, 1) /\ tail[p] = At(s, Len(s))
      /\ \A i \in 1..Len(s) : prev[s[i]] = At(s, i - 1) /\ next[s[i]] = At(s, i + 1)
  BY <1>1, <1>2 DEF IsListOf
<1>5. IsListOf(p, Append(s, c))'
  <2> DEFINE t == Append(s, c)
             n == Len(s)
  <2>1. /\ t \in Seq(Nodes) /\ Len(t) = n + 1 /\ n \in Nat
        /\ \A i \in 1..n : t[i] = s[i]
        /\ t[n + 1] = c
    BY <1>1, Appended
  <2> HIDE DEF t
  <2>2. \A i, j \in 1..Len(t) : t[i] = t[j] => i = j
    BY <1>4, <2>1, SMT
  <2>3. \A i \in 1..Len(t) : t[i] \in live' /\ parent'[t[i]] = p
    BY <1>1, <1>3, <1>4, <2>1, SMT
  <2>4. \A m \in live' : parent'[m] = p => \E i \in 1..Len(t) : t[i] = m
    <3> SUFFICES ASSUME NEW m \in live, parent'[m] = p PROVE \E i \in 1..Len(t) : t[i] = m
      OBVIOUS
    <3>1. CASE m = c
      BY <2>1, <3>1, SMT
    <3>2. CASE m # c
      <4>1. PICK i \in 1..n : s[i] = m
        BY <1>1, <1>3, <1>4, <3>2
      <4>2. i \in 1..Len(t) /\ t[i] = m
        BY <2>1, <4>1, SMT
      <4>3. QED
        BY <4>2
    <3>3. QED
      BY <3>1, <3>2
  <2>5. At(s, n) = (IF n = 0 THEN NULL ELSE s[n])
    BY <2>1, SMT DEF At
  <2>6. head'[p] = At(t, 1) /\ tail'[p] = At(t, Len(t))
    <3>1. CASE n = 0
      BY <1>3, <1>4, <2>1, <2>5, <3>1, SMT DEF At
    <3>2. CASE n # 0
      <4>1. s[n] # NULL
        BY <1>1, <2>1, <3>2, SMT
      <4>2. QED
        BY <1>3, <1>4, <2>1, <2>5, <3>2, <4>1, SMT DEF At
    <3>3. QED
      BY <3>1, <3>2
  <2>7. \A i \in 1..Len(t) : prev'[t[i]] = At(t, i - 1) /\ next'[t[i]] = At(t, i + 1)
    <3> SUFFICES ASSUME NEW i \in 1..Len(t)
                 PROVE  prev'[t[i]] = At(t, i - 1) /\ next'[t[i]] = At(t, i + 1)
      OBVIOUS
    <3>1. CASE i = n + 1
      <4>1. prev'[c] = At(s, n) /\ next'[c] = NULL
        BY <1>1, <1>3, <1>4, <2>1, <2>5, SMT
      <4>2. At(t, n) = At(s, n) /\ At(t, n + 2) = NULL
        BY <2>1, SMT DEF At
      <4>3. QED
        BY <2>1, <3>1, <4>1, <4>2, SMT
    <3>2. CASE i # n + 1
      <4>1. i \in 1..n /\ t[i] = s[i] /\ s[i] \in Nodes /\ s[i] # c
        BY <1>1, <1>4, <2>1, <3>2, SMT
      <4>2. prev'[s[i]] = At(s, i - 1)
        BY <1>3, <1>4, <4>1
      <4>3. At(t, i - 1) = At(s, i - 1)
        BY <2>1, <4>1, SMT DEF At
      <4>4. next'[s[i]] = IF i = n THEN c ELSE At(s, i + 1)
        <5>1. s[i] = tail[p] <=> i = n
          BY <1>1, <1>4, <2>1, <2>5, <4>1, SMT
        <5>2. next[s[i]] = At(s, i + 1)
          BY <1>4, <4>1
        <5>3. next'[s[i]] = IF s[i] = tail[p] THEN c ELSE next[s[i]]
          BY <1>3, <4>1
        <5>4. QED
          BY <5>1, <5>2, <5>3
      <4>5. At(t, i + 1) = IF i = n THEN c ELSE At(s, i + 1)
        BY <2>1, <4>1, SMT DEF At
      <4>6. QED
        BY <4>1, <4>2, <4>3, <4>4, <4>5
    <3>3. QED
      BY <3>1, <3>2
  <2>8. IsListOf(p, t)'
    BY <2>1, <2>2, <2>3, <2>4, <2>6, <2>7 DEF IsListOf
  <2>9. QED
    BY <2>8 DEF t
<1>6. ASSUME NEW q \in live, q # p, NEW t, IsListOf(q, t)
      PROVE  IsListOf(q, t)'
  <2>1. IsListOf(q, t)
    BY <1>6
  <2>2. /\ \A i \in 1..Len(t) : t[i] \in live /\ parent[t[i]] = q
        /\ q \in Nodes /\ q # NULL
    BY <1>1, <2>1 DEF IsListOf
  <2>3. tail[p] # NULL => tail[p] \in Nodes /\ parent[tail[p]] = p
    <3>1. CASE Len(s) \in 1..Len(s)
      BY <1>1, <1>4, <3>1 DEF At
    <3>2. CASE Len(s) \notin 1..Len(s)
      <4>1. At(s, Len(s)) = NULL
        BY <3>2 DEF At
      <4>2. QED
        BY <1>4, <4>1
    <3>3. QED
      BY <3>1, <3>2
  <2>4. \A i \in 1..Len(t) : /\ t[i] \in live' /\ parent'[t[i]] = q
                             /\ prev'[t[i]] = prev[t[i]] /\ next'[t[i]] = next[t[i]]
    BY <1>1, <1>3, <1>6, <2>2, <2>3
  <2>5. \A m \in live' : parent'[m] = q => m \in live /\ parent[m] = q
    BY <1>1, <1>3, <1>6, <2>2
  <2>6. head'[q] = head[q] /\ tail'[q] = tail[q]
    BY <1>3, <1>6, <2>2
  <2>7. QED
    BY <2>1, <2>4, <2>5, <2>6, ListStays
<1>7. QED
  BY <1>5, <1>6

LEMMA PrependLists ==
  ASSUME TypeOK, NEW p \in live, NEW c \in live, parent[c] = NULL,
         PrependNode(p, c), live' = live, NEW s \in Seq(Nodes), IsListOf(p, s)
  PROVE  /\ IsListOf(p, Ahead(c, s))'
         /\ \A q \in live \ {p} : \A t : IsListOf(q, t) => IsListOf(q, t)'
<1>1. /\ live \subseteq Nodes /\ p \in Nodes /\ c \in Nodes /\ NULL \notin Nodes
      /\ parent \in [Nodes -> Pointers] /\ prev \in [Nodes -> Pointers]
      /\ next \in [Nodes -> Pointers]
      /\ head \in [Nodes -> Pointers] /\ tail \in [Nodes -> Pointers]
  BY JsonTreeAssumption DEF TypeOK
<1>2. s \in Seq(Nodes) /\ IsListOf(p, s)
  BY DEF IsListOf
<1>3. /\ parent'[c] = p /\ \A m \in Nodes \ {c} : parent'[m] = parent[m]
      /\ next'[c] = head[p] /\ \A m \in Nodes \ {c} : next'[m] = next[m]
      /\ \A m \in Nodes : prev'[m] = IF m = head[p] THEN c ELSE IF m = c THEN NULL ELSE prev[m]
      /\ tail'[p] = (IF head[p] = NULL THEN c ELSE tail[p]) /\ head'[p] = c
      /\ \A m \in Nodes \ {p} : head'[m] = head[m] /\ tail'[m] = tail[m]
  BY <1>1 DEF PrependNode
<1>4. /\ \A i, j \in 1..Len(s) : s[i] = s[j] => i = j
      /\ \A i \in 1..Len(s) : s[i] \in live /\ parent[s[i]] = p /\ s[i] # c
      /\ \A m \in live : parent[m] = p => \E i \in 1..Len(s) : s[i] = m
      /\ head[p] = At(s, 1) /\ tail[p] = At(s, Len(s))
      /\ \A i \in 1..Len(s) : prev[s[i]] = At(s, i - 1) /\ next[s[i]] = At(s, i + 1)
  BY <1>1, <1>2 DEF IsListOf
<1> DEFINE n == Len(s)
<1>5. At(s, 1) = (IF n = 0 THEN NULL ELSE s[1]) /\ n \in Nat
  BY SMT DEF At
<1>6. head[p] # NULL => head[p] \in Nodes /\ parent[head[p]] = p
  <2>1. CASE n = 0
    <3>1. At(s, 1) = NULL
      BY <1>5, <2>1
    <3>2. QED
      BY <1>4, <3>1
  <2>2. CASE n # 0
    <3>1. 1 \in 1..Len(s)
      BY <1>5, <2>2, SMT
    <3>2. QED
      BY <1>1, <1>4, <1>5, <2>2, <3>1
  <2>3. QED
    BY <2>1, <2>2
<1>7. IsListOf(p, Ahead(c, s))'
  <2> DEFINE t == Ahead(c, s)
  <2>1. /\ t \in Seq(Nodes) /\ Len(t) = n + 1 /\ n \in Nat
        /\ \A i \in 1..n : t[i + 1] = s[i]
        /\ t[1] = c
    BY <1>1, <1>5, AheadIs
  <2> HIDE DEF t
  <2>2. \A i \in 1..Len(t) : i # 1 => i - 1 \in 1..n /\ t[i] = s[i - 1]
    <3> SUFFICES ASSUME NEW i \in 1..Len(t), i # 1 PROVE i - 1 \in 1..n /\ t[i] = s[i - 1]
      OBVIOUS
    <3>1. i - 1 \in 1..n /\ (i - 1) + 1 = i
      BY <2>1, SMT
    <3>2. t[(i - 1) + 1] = s[i - 1]
      BY <2>1, <3>1
    <3>3. QED
      BY <3>1, <3>2
  <2>3. \A i, j \in 1..Len(t) : t[i] = t[j] => i = j
    <3> SUFFICES ASSUME NEW i \in 1..Len(t), NEW j \in 1..Len(t), t[i] = t[j] PROVE i = j
      OBVIOUS
    <3>1. CASE i # 1 /\ j # 1
      <4>1. /\ i - 1 \in 1..Len(s) /\ j - 1 \in 1..Len(s)
            /\ s[i - 1] = s[j - 1]
        BY <2>2, <3>1
      <4>2. i - 1 = j - 1
        BY <1>4, <4>1
      <4>3. QED
        BY <2>1, <4>2, SMT
    <3>2. CASE i = 1 \/ j = 1
      <4>1. \A a \in 1..Len(t) : a # 1 => t[a] # c
        <5>1. \A a \in 1..Len(s) : s[a] # c
          BY <1>4
        <5>2. QED
          BY <2>2, <5>1
      <4>2. QED
        BY <2>1, <3>2, <4>1
    <3>3. QED
      BY <3>1, <3>2
  <2>4. ASSUME NEW i \in 1..Len(t) PROVE t[i] \in live' /\ parent'[t[i]] = p
    <3>1. CASE i = 1
      BY <1>1, <1>3, <2>1, <3>1
    <3>2. CASE i # 1
      <4>1. i - 1 \in 1..Len(s) /\ t[i] = s[i - 1]
        BY <2>2, <3>2
      <4>2. s[i - 1] \in live /\ parent[s[i - 1]] = p /\ s[i - 1] # c
        BY <1>4, <4>1
      <4>3. QED
        BY <1>1, <1>3, <4>1, <4>2
    <3>3. QED
      BY <3>1, <3>2
  <2>5. \A m \in live' : parent'[m] = p => \E i \in 1..Len(t) : t[i] = m
    <3> SUFFICES ASSUME NEW m \in live, parent'[m] = p PROVE \E i \in 1..Len(t) : t[i] = m
      OBVIOUS
    <3>1. CASE m = c
      BY <2>1, <3>1, SMT
    <3>2. CASE m # c
      <4>1. PICK i \in 1..n : s[i] = m
        BY <1>1, <1>3, <1>4, <3>2
      <4>2. i + 1 \in 1..Len(t) /\ t[i + 1] = m
        BY <2>1, <4>1, SMT
      <4>3. QED
        BY <4>2
    <3>3. QED
      BY <3>1, <3>2
  <2>6. head'[p] = At(t, 1) /\ tail'[p] = At(t, Len(t))
    <3>1. CASE n = 0
      BY <1>3, <1>4, <1>5, <2>1, <3>1, SMT DEF At
    <3>2. CASE n # 0
      <4>1. 1 \in 1..Len(s) /\ n \in 1..n
        BY <1>5, <3>2, SMT
      <4>2. head[p] # NULL
        BY <1>1, <1>4, <1>5, <3>2, <4>1
      <4>3. At(t, Len(t)) = s[n] /\ At(s, Len(s)) = s[n]
        BY <2>1, <4>1, SMT DEF At
      <4>4. At(t, 1) = c
        BY <2>1, SMT DEF At
      <4>5. QED
        BY <1>3, <1>4, <4>2, <4>3, <4>4
    <3>3. QED
      BY <3>1, <3>2
  <2>7. \A i \in 1..Len(t) : prev'[t[i]] = At(t, i - 1) /\ next'[t[i]] = At(t, i + 1)
    <3> SUFFICES ASSUME NEW i \in 1..Len(t)
                 PROVE  prev'[t[i]] = At(t, i - 1) /\ next'[t[i]] = At(t, i + 1)
      OBVIOUS
    <3>1. CASE i = 1
      <4>1. next'[c] = At(s, 1)
        BY <1>3, <1>4
      <4>2. c # head[p]
        <5>1. p # NULL
          BY <1>1
        <5>2. QED
          BY <1>6, <5>1, <1>1
      <4>3. prev'[c] = NULL
        BY <1>1, <1>3, <4>2
      <4>4. At(t, 0) = NULL /\ At(t, 2) = At(s, 1)
        <5>1. n # 0 => 1 \in 1..n /\ 1 + 1 = 2
          BY <1>5, SMT
        <5>2. n # 0 => t[2] = s[1]
          BY <2>1, <5>1
        <5>3. QED
          BY <1>5, <2>1, <5>2, SMT DEF At
      <4>5. QED
        BY <2>1, <3>1, <4>1, <4>3, <4>4, SMT
    <3>2. CASE i # 1
      <4> DEFINE j == i - 1
      <4>1. j \in 1..n /\ t[i] = s[j] /\ s[j] \in Nodes /\ s[j] # c /\ j + 1 = i
        BY <1>1, <1>4, <2>1, <2>2, <3>2, SMT
      <4> HIDE DEF j
      <4>2. next'[s[j]] = At(s, j + 1)
        BY <1>3, <1>4, <4>1
      <4>3. At(t, i + 1) = At(s, j + 1)
        <5>1. CASE j + 1 \in 1..n
          <6>1. t[(j + 1) + 1] = s[j + 1] /\ i + 1 = (j + 1) + 1 /\ i + 1 \in 1..Len(t)
            BY <2>1, <4>1, <5>1, SMT
          <6>2. QED
            BY <5>1, <6>1 DEF At
        <5>2. CASE j + 1 \notin 1..n
          <6>1. i + 1 \notin 1..Len(t)
            BY <2>1, <4>1, <5>2, SMT
          <6>2. QED
            BY <5>2, <6>1 DEF At
        <5>3. QED
          BY <5>1, <5>2
      <4>4. s[j] = head[p] <=> j = 1
        <5>1. 1 \in 1..n /\ n # 0
          BY <1>5, <4>1, SMT
        <5>2. QED
          BY <1>4, <1>5, <4>1, <5>1
      <4>5. prev'[s[j]] = IF j = 1 THEN c ELSE At(s, j - 1)
        <5>1. prev[s[j]] = At(s, j - 1)
          BY <1>4, <4>1
        <5>2. prev'[s[j]] = IF s[j] = head[p] THEN c ELSE prev[s[j]]
          BY <1>3, <4>1
        <5>3. QED
          BY <4>4, <5>1, <5>2
      <4>6. At(t, i - 1) = IF j = 1 THEN c ELSE At(s, j - 1)
        <5>1. CASE j = 1
          BY <2>1, <4>1, <5>1, SMT DEF At
        <5>2. CASE j # 1
          <6>1. j - 1 \in 1..n /\ (j - 1) + 1 = i - 1 /\ i - 1 \in 1..Len(t)
            BY <2>1, <4>1, <5>2, SMT
          <6>2. t[i - 1] = s[j - 1]
            BY <2>1, <6>1
          <6>3. QED
            BY <5>2, <6>1, <6>2 DEF At
        <5>3. QED
          BY <5>1, <5>2
      <4>7. QED
        BY <4>1, <4>2, <4>3, <4>5, <4>6
    <3>3. QED
      BY <3>1, <3>2
  <2>8. IsListOf(p, t)'
    BY <2>1, <2>3, <2>4, <2>5, <2>6, <2>7 DEF IsListOf
  <2>9. QED
    BY <2>8 DEF t
<1>8. ASSUME NEW q \in live, q # p, NEW t, IsListOf(q, t)
      PROVE  IsListOf(q, t)'
  <2>1. IsListOf(q, t)
    BY <1>8
  <2>2. /\ \A i \in 1..Len(t) : t[i] \in live /\ parent[t[i]] = q
        /\ q \in Nodes /\ q # NULL
    BY <1>1, <2>1 DEF IsListOf
  <2>4. \A i \in 1..Len(t) : /\ t[i] \in live' /\ parent'[t[i]] = q
                             /\ prev'[t[i]] = prev[t[i]] /\ next'[t[i]] = next[t[i]]
    BY <1>1, <1>3, <1>6, <1>8, <2>2
  <2>5. \A m \in live' : parent'[m] = q => m \in live /\ parent[m] = q
    BY <1>1, <1>3, <1>8, <2>2
  <2>6. head'[q] = head[q] /\ tail'[q] = tail[q]
    BY <1>3, <1>8, <2>2
  <2>7. QED
    BY <2>1, <2>4, <2>5, <2>6, ListStays
<1>9. QED
  BY <1>7, <1>8

LEMMA CutAt ==
  ASSUME NEW s \in Seq(Nodes), NEW k \in 1..Len(s), NEW i \in Int
  PROVE  At(Cut(s, k), i) = IF i < k THEN At(s, i) ELSE At(s, i + 1)
<1>1. /\ Cut(s, k) \in Seq(Nodes) /\ Len(Cut(s, k)) = Len(s) - 1
      /\ \A j \in 1..(Len(s) - 1) : Cut(s, k)[j] = IF j < k THEN s[j] ELSE s[j + 1]
  BY CutIs
<1> DEFINE t == Cut(s, k)
           n == Len(s)
<1>2. n \in Nat /\ k \in Int /\ 1 <= k /\ k <= n
  BY SMT
<1> HIDE DEF t, n
<1>3. At(t, i) = IF i \in 1..(n - 1) THEN (IF i < k THEN s[i] ELSE s[i + 1]) ELSE NULL
  BY <1>1 DEF At, t, n
<1>4. /\ At(s, i) = IF i \in 1..n THEN s[i] ELSE NULL
      /\ At(s, i + 1) = IF i + 1 \in 1..n THEN s[i + 1] ELSE NULL
  BY DEF At, n
<1>5. At(t, i) = IF i < k THEN At(s, i) ELSE At(s, i + 1)
  BY <1>2, <1>3, <1>4, SMT
<1>6. QED
  BY <1>5 DEF t

(* In a list without repetitions a node says where it is.                  *)
LEMMA Where ==
  ASSUME NEW s \in Seq(Nodes), \A i, j \in 1..Len(s) : s[i] = s[j] => i = j,
         NEW i \in Int, NEW j \in 1..Len(s)
  PROVE  s[j] = At(s, i) <=> i = j
BY JsonTreeAssumption DEF At

LEMMA CutLists ==
  ASSUME TypeOK, NEW p \in live, NEW c \in live, parent[c] = p,
         CutFrom(p, c), live' = live, NEW s \in Seq(Nodes), IsListOf(p, s)
  PROVE  /\ \E k \in 1..Len(s) : s[k] = c /\ IsListOf(p, Cut(s, k))'
         /\ \A q \in live \ {p} : \A t : IsListOf(q, t) => IsListOf(q, t)'
         /\ head[p] = c => head'[p] = next[c]
<1>1. /\ live \subseteq Nodes /\ p \in Nodes /\ c \in Nodes /\ NULL \notin Nodes
      /\ parent \in [Nodes -> Pointers] /\ prev \in [Nodes -> Pointers]
      /\ next \in [Nodes -> Pointers]
      /\ head \in [Nodes -> Pointers] /\ tail \in [Nodes -> Pointers]
  BY JsonTreeAssumption DEF TypeOK
<1>2. s \in Seq(Nodes) /\ IsListOf(p, s)
  BY DEF IsListOf
<1> DEFINE n == Len(s)
<1>3. /\ parent'[c] = NULL /\ \A m \in Nodes \ {c} : parent'[m] = parent[m]
      /\ \A m \in Nodes : next'[m] = IF m = c THEN NULL
                                    ELSE IF m = prev[c] THEN next[c] ELSE next[m]
      /\ \A m \in Nodes : prev'[m] = IF m = c THEN NULL
                                    ELSE IF m = next[c] THEN prev[c] ELSE prev[m]
      /\ head'[p] = (IF prev[c] = NULL THEN next[c] ELSE head[p])
      /\ tail'[p] = (IF next[c] = NULL THEN prev[c] ELSE tail[p])
      /\ \A m \in Nodes \ {p} : head'[m] = head[m] /\ tail'[m] = tail[m]
  BY <1>1 DEF CutFrom
<1>4. /\ \A i, j \in 1..n : s[i] = s[j] => i = j
      /\ \A i \in 1..n : s[i] \in live /\ parent[s[i]] = p
      /\ \A m \in live : parent[m] = p => \E i \in 1..n : s[i] = m
      /\ head[p] = At(s, 1) /\ tail[p] = At(s, n)
      /\ \A i \in 1..n : prev[s[i]] = At(s, i - 1) /\ next[s[i]] = At(s, i + 1)
  BY <1>1, <1>2 DEF IsListOf
<1>5. PICK k \in 1..n : s[k] = c
  BY <1>4
<1>6. n \in Nat /\ k \in Int /\ 1 <= k /\ k <= n
  BY SMT
<1>7. prev[c] = At(s, k - 1) /\ next[c] = At(s, k + 1)
  BY <1>4, <1>5
<1>8. \A j \in 1..n, i \in Int : s[j] = At(s, i) <=> i = j
  <2> SUFFICES ASSUME NEW j \in 1..Len(s), NEW i \in Int PROVE s[j] = At(s, i) <=> i = j
    OBVIOUS
  <2>1. \A a, b \in 1..Len(s) : s[a] = s[b] => a = b
    BY <1>4
  <2>2. QED
    BY <2>1, Where
<1>9. \A i \in Int : At(s, i) = NULL <=> i \notin 1..n
  BY AtIs
<1>10. IsListOf(p, Cut(s, k))'
  <2> DEFINE t == Cut(s, k)
             u(i) == IF i < k THEN i ELSE i + 1
  <2>1. /\ t \in Seq(Nodes) /\ Len(t) = n - 1
        /\ \A i \in 1..(n - 1) : t[i] = IF i < k THEN s[i] ELSE s[i + 1]
    BY CutIs
  <2>2. \A i \in Int : At(t, i) = IF i < k THEN At(s, i) ELSE At(s, i + 1)
    BY CutAt
  <2> HIDE DEF t, n
  <2>3. ASSUME NEW i \in 1..Len(t)
        PROVE  u(i) \in 1..n /\ u(i) # k /\ t[i] = s[u(i)] /\ i \in Int
    BY <1>6, <2>1, <2>3, SMT
  <2> HIDE DEF u
  <2>4. \A i, j \in 1..Len(t) : t[i] = t[j] => i = j
    <3> SUFFICES ASSUME NEW i \in 1..Len(t), NEW j \in 1..Len(t), t[i] = t[j] PROVE i = j
      OBVIOUS
    <3>1. u(i) = u(j)
      <4>1. u(i) \in 1..n /\ u(j) \in 1..n /\ s[u(i)] = s[u(j)]
        BY <2>3
      <4>2. QED
        BY <1>4, <4>1
    <3>2. QED
      BY <1>6, <2>1, <3>1, SMT DEF u
  <2>5. ASSUME NEW i \in 1..Len(t) PROVE t[i] \in live' /\ parent'[t[i]] = p
    <3>1. s[u(i)] \in live /\ parent[s[u(i)]] = p /\ s[u(i)] # c
      BY <1>4, <1>5, <2>3
    <3>2. QED
      BY <1>1, <1>3, <2>3, <3>1
  <2>6. ASSUME NEW m \in live', parent'[m] = p PROVE \E i \in 1..Len(t) : t[i] = m
    <3>1. m \in live /\ m # c /\ parent[m] = p
      BY <1>1, <1>3, <2>6
    <3>2. PICK j \in 1..n : s[j] = m
      BY <1>4, <3>1
    <3>3. j # k
      BY <1>5, <3>1, <3>2
    <3>4. CASE j < k
      <4>1. j \in 1..(n - 1) /\ j \in 1..Len(t)
        BY <1>6, <2>1, <3>4, SMT
      <4>2. QED
        BY <2>1, <3>2, <3>4, <4>1
    <3>5. CASE ~(j < k)
      <4>1. j - 1 \in 1..(n - 1) /\ j - 1 \in 1..Len(t) /\ ~(j - 1 < k) /\ (j - 1) + 1 = j
        BY <1>6, <2>1, <3>3, <3>5, SMT
      <4>2. t[j - 1] = s[(j - 1) + 1]
        BY <2>1, <4>1
      <4>3. QED
        BY <3>2, <4>1, <4>2
    <3>6. QED
      BY <3>4, <3>5
  <2>7. head'[p] = At(t, 1) /\ tail'[p] = At(t, Len(t))
    <3>1. /\ prev[c] = NULL <=> k - 1 \notin 1..n
          /\ next[c] = NULL <=> k + 1 \notin 1..n
      BY <1>6, <1>7, <1>9, SMT
    <3>2. At(t, 1) = (IF 1 < k THEN At(s, 1) ELSE At(s, 1 + 1))
      BY <2>2
    <3>3. At(t, n - 1) = (IF n - 1 < k THEN At(s, n - 1) ELSE At(s, (n - 1) + 1))
      BY <1>6, <2>2, SMT
    <3>4. head'[p] = At(t, 1)
      <4>1. CASE k = 1
        BY <1>3, <1>6, <1>7, <3>1, <3>2, <4>1, SMT
      <4>2. CASE k # 1
        BY <1>3, <1>4, <1>6, <3>1, <3>2, <4>2, SMT
      <4>3. QED
        BY <4>1, <4>2
    <3>5. tail'[p] = At(t, n - 1)
      <4>1. CASE k = n
        BY <1>3, <1>6, <1>7, <3>1, <3>3, <4>1, SMT
      <4>2. CASE k # n
        BY <1>3, <1>4, <1>6, <3>1, <3>3, <4>2, SMT
      <4>3. QED
        BY <4>1, <4>2
    <3>6. QED
      BY <2>1, <3>4, <3>5
  <2>8. ASSUME NEW i \in 1..Len(t)
        PROVE  prev'[t[i]] = At(t, i - 1) /\ next'[t[i]] = At(t, i + 1)
    <3> DEFINE j == u(i)
    <3>1. j \in 1..n /\ j # k /\ t[i] = s[j] /\ i \in Int /\ j = (IF i < k THEN i ELSE i + 1)
      BY <2>3 DEF u
    <3> HIDE DEF j
    <3>2. s[j] \in Nodes /\ s[j] # c
      BY <1>1, <1>4, <1>5, <3>1
    <3>3. prev[s[j]] = At(s, j - 1) /\ next[s[j]] = At(s, j + 1)
      BY <1>4, <3>1
    <3>4. /\ s[j] = next[c] <=> k + 1 = j
          /\ s[j] = prev[c] <=> k - 1 = j
      BY <1>6, <1>7, <1>8, <3>1, SMT
    <3>5. prev'[s[j]] = IF k + 1 = j THEN At(s, k - 1) ELSE At(s, j - 1)
      BY <1>3, <1>7, <3>2, <3>3, <3>4
    <3>6. next'[s[j]] = IF k - 1 = j THEN At(s, k + 1) ELSE At(s, j + 1)
      BY <1>3, <1>7, <3>2, <3>3, <3>4
    <3>7. At(t, i - 1) = IF i - 1 < k THEN At(s, i - 1) ELSE At(s, (i - 1) + 1)
      BY <2>2, <3>1, SMT
    <3>8. At(t, i + 1) = IF i + 1 < k THEN At(s, i + 1) ELSE At(s, (i + 1) + 1)
      BY <2>2, <3>1, SMT
    <3>9. prev'[s[j]] = At(t, i - 1)
      BY <1>6, <3>1, <3>5, <3>7, SMT
    <3>10. next'[s[j]] = At(t, i + 1)
      BY <1>6, <3>1, <3>6, <3>8, SMT
    <3>11. QED
      BY <3>1, <3>9, <3>10
  <2>9. IsListOf(p, t)'
    BY <2>1, <2>4, <2>5, <2>6, <2>7, <2>8 DEF IsListOf
  <2>10. QED
    BY <2>9 DEF t
<1>11. ASSUME NEW q \in live, q # p, NEW t, IsListOf(q, t)
       PROVE  IsListOf(q, t)'
  <2>1. IsListOf(q, t)
    BY <1>11
  <2>2. /\ \A i \in 1..Len(t) : t[i] \in live /\ parent[t[i]] = q
        /\ q \in Nodes /\ q # NULL
    BY <1>1, <2>1 DEF IsListOf
  <2>3. \A i \in Int : At(s, i) # NULL => At(s, i) \in Nodes /\ parent[At(s, i)] = p
    BY <1>1, <1>4 DEF At
  <2>4. /\ prev[c] # NULL => prev[c] \in Nodes /\ parent[prev[c]] = p
        /\ next[c] # NULL => next[c] \in Nodes /\ parent[next[c]] = p
    <3>1. k - 1 \in Int /\ k + 1 \in Int
      BY <1>6, SMT
    <3>2. QED
      BY <1>7, <2>3, <3>1
  <2>5. \A i \in 1..Len(t) : /\ t[i] \in live' /\ parent'[t[i]] = q
                             /\ prev'[t[i]] = prev[t[i]] /\ next'[t[i]] = next[t[i]]
    BY <1>1, <1>3, <1>11, <2>2, <2>4
  <2>6. \A m \in live' : parent'[m] = q => m \in live /\ parent[m] = q
    BY <1>1, <1>3, <1>11, <2>2
  <2>7. head'[q] = head[q] /\ tail'[q] = tail[q]
    BY <1>3, <1>11, <2>2
  <2>8. QED
    BY <2>1, <2>5, <2>6, <2>7, ListStays
<1>12. head[p] = c => head'[p] = next[c]
  <2>1. head[p] = c => k = 1
    BY <1>4, <1>5, <1>8
  <2>2. k = 1 => prev[c] = NULL
    BY <1>6, <1>7, <1>9, SMT
  <2>3. QED
    BY <1>3, <2>1, <2>2
<1>13. QED
  BY <1>5, <1>10, <1>11, <1>12

-----------------------------------------------------------------------------
(* The actions keep the invariant.                                         *)

LEMMA Known ==
  ASSUME TypeOK
  PROVE  /\ live \subseteq Nodes /\ NULL \notin Nodes /\ NULL \notin Names
         /\ tag \in [Nodes -> {"leaf"} \cup Containers]
         /\ parent \in [Nodes -> Pointers] /\ prev \in [Nodes -> Pointers]
         /\ next \in [Nodes -> Pointers] /\ key \in [Nodes -> Names \cup {NULL}]
         /\ head \in [Nodes -> Pointers] /\ tail \in [Nodes -> Pointers]
         /\ stack \in Seq([node : Nodes, next : Pointers])
         /\ Nodes \subseteq Pointers /\ NULL \in Pointers
         /\ \A m \in Pointers : m # NULL => m \in Nodes
BY JsonTreeAssumption DEF TypeOK, Pointers

(* A new node has no links, and its list of children is empty.             *)
LEMMA NewNode ==
  ASSUME TreeInv, NEW n \in Nodes, NEW t, Mknode(n, t)
  PROVE  /\ live' = live \cup {n} /\ n \notin live
         /\ parent'[n] = NULL /\ prev'[n] = NULL /\ next'[n] = NULL /\ key'[n] = NULL
         /\ head'[n] = NULL /\ tail'[n] = NULL
         /\ \A m \in Nodes \ {n} :
              /\ tag'[m] = tag[m] /\ parent'[m] = parent[m] /\ prev'[m] = prev[m]
              /\ next'[m] = next[m] /\ key'[m] = key[m] /\ head'[m] = head[m]
              /\ tail'[m] = tail[m]
         /\ \A m \in live : parent[m] # NULL => parent[m] \in live
<1>1. TypeOK
  BY DEF TreeInv
<1>2. QED
  BY <1>1, Known DEF Mknode, TreeInv, Parents

LEMMA MknodeLists ==
  ASSUME TreeInv, NEW n \in Nodes, NEW t, Mknode(n, t)
  PROVE  /\ IsListOf(n, <<>>)'
         /\ \A q \in live : \A s : IsListOf(q, s) => IsListOf(q, s)'
<1>1. TypeOK
  BY DEF TreeInv
<1>2. ASSUME NEW q \in live, NEW s, IsListOf(q, s) PROVE IsListOf(q, s)'
  <2>1. \A i \in 1..Len(s) : s[i] \in live /\ parent[s[i]] = q
    BY <1>2 DEF IsListOf
  <2>2. q \in Nodes /\ q # n /\ q # NULL
    BY <1>1, NewNode, Known
  <2>3. \A i \in 1..Len(s) : /\ s[i] \in live' /\ parent'[s[i]] = q
                             /\ prev'[s[i]] = prev[s[i]] /\ next'[s[i]] = next[s[i]]
    BY <1>1, <2>1, NewNode, Known
  <2>4. \A m \in live' : parent'[m] = q => m \in live /\ parent[m] = q
    BY <1>1, <2>2, NewNode, Known
  <2>5. QED
    BY <1>2, <2>2, <2>3, <2>4, ListStays, NewNode
<1>3. IsListOf(n, <<>>)'
  <2> DEFINE e == <<>>
  <2>1. \A m \in live' : parent'[m] # n
    BY <1>1, NewNode, Known
  <2>2. e \in Seq(Nodes) /\ Len(e) = 0 /\ 1..Len(e) = {}
    BY SMT
  <2> HIDE DEF e
  <2>3. At(e, 1) = NULL /\ At(e, Len(e)) = NULL
    BY <2>2 DEF At
  <2>4. IsListOf(n, e)'
    BY <2>1, <2>2, <2>3, NewNode DEF IsListOf
  <2>5. QED
    BY <2>4 DEF e
<1>4. QED
  BY <1>2, <1>3

LEMMA MknodeInv ==
  ASSUME TreeInv, NEW n \in Nodes, NEW t \in {"leaf"} \cup Containers, Mknode(n, t)
  PROVE  TreeInv'
<1>1. TypeOK
  BY DEF TreeInv
<1>2. TypeOK'
  BY <1>1, Known DEF Mknode, TypeOK
<1>3. Lists'
  <2>1. ASSUME NEW q \in live PROVE \E s \in Seq(Nodes) : IsListOf(q, s)'
    <3>1. PICK s \in Seq(Nodes) : IsListOf(q, s)
      BY DEF TreeInv, Lists
    <3>2. QED
      BY <3>1, MknodeLists
  <2>2. \E s \in Seq(Nodes) : IsListOf(n, s)'
    <3>1. <<>> \in Seq(Nodes)
      BY SMT
    <3>2. QED
      BY <3>1, MknodeLists
  <2>3. QED
    BY <2>1, <2>2, NewNode DEF Lists
<1>4. Parents'
  BY <1>1, NewNode, Known DEF TreeInv, Parents
<1>5. Deleting'
  BY SMT DEF Mknode, Idle, Deleting
<1>6. QED
  BY <1>2, <1>3, <1>4, <1>5 DEF TreeInv

LEMMA ListsFound ==
  ASSUME Lists, NEW p \in live, live' = live, \E t : IsListOf(p, t)',
         \A q \in live \ {p} : \A t : IsListOf(q, t) => IsListOf(q, t)'
  PROVE  Lists'
<1>1. ASSUME NEW q \in live PROVE \E t \in Seq(Nodes) : IsListOf(q, t)'
  <2>1. PICK t : IsListOf(q, t)'
    BY DEF Lists
  <2>2. t \in Seq(Nodes)
    BY <2>1 DEF IsListOf
  <2>3. QED
    BY <2>1, <2>2
<1>2. QED
  BY <1>1 DEF Lists

LEMMA AddInv ==
  ASSUME TreeInv, NEW p \in Nodes, NEW c \in Nodes, NEW t \in Containers, MayAdd(p, c, t),
         AppendNode(p, c) \/ PrependNode(p, c),
         key' \in [Nodes -> Names \cup {NULL}],
         \A m \in Nodes \ {c} : key'[m] = key[m],
         key'[c] # NULL <=> t = "object",
         UNCHANGED <<live, tag, stack>>
  PROVE  TreeInv'
<1>1. /\ TypeOK /\ Lists /\ p \in live /\ c \in live /\ tag[p] = t
      /\ parent[c] = NULL /\ stack = <<>> /\ live' = live
  BY DEF TreeInv, MayAdd, Idle
<1>2. TypeOK'
  <2>1. parent' = [parent EXCEPT ![c] = p]
    BY DEF AppendNode, PrependNode
  <2>2. parent' \in [Nodes -> Pointers]
    BY <1>1, <2>1, Known
  <2>3. prev' \in [Nodes -> Pointers] /\ next' \in [Nodes -> Pointers]
    <3>1. CASE AppendNode(p, c)
      BY <1>1, <3>1, Known DEF AppendNode
    <3>2. CASE PrependNode(p, c)
      BY <1>1, <3>2, Known DEF PrependNode
    <3>3. QED
      BY <3>1, <3>2
  <2>4. head' \in [Nodes -> Pointers] /\ tail' \in [Nodes -> Pointers]
    <3>1. CASE AppendNode(p, c)
      BY <1>1, <3>1, Known DEF AppendNode
    <3>2. CASE PrependNode(p, c)
      BY <1>1, <3>2, Known DEF PrependNode
    <3>3. QED
      BY <3>1, <3>2
  <2>5. QED
    BY <1>1, <2>2, <2>3, <2>4 DEF TypeOK
<1>3. Lists'
  <2>1. PICK s \in Seq(Nodes) : IsListOf(p, s)
    BY <1>1 DEF Lists
  <2>2. /\ \E r : IsListOf(p, r)'
        /\ \A q \in live \ {p} : \A r : IsListOf(q, r) => IsListOf(q, r)'
    <3>1. CASE AppendNode(p, c)
      BY <1>1, <2>1, <3>1, AppendLists
    <3>2. CASE PrependNode(p, c)
      BY <1>1, <2>1, <3>2, PrependLists
    <3>3. QED
      BY <3>1, <3>2
  <2>3. QED
    BY <1>1, <2>2, ListsFound
<1>4. Parents'
  <2>1. parent'[c] = p /\ \A m \in Nodes \ {c} : parent'[m] = parent[m]
    BY <1>1, Known DEF AppendNode, PrependNode
  <2>2. ASSUME NEW m \in live, m # c, parent[m] = NULL
        PROVE  prev'[m] = NULL /\ next'[m] = NULL /\ key'[m] = NULL
    <3>1. prev[m] = NULL /\ next[m] = NULL /\ key[m] = NULL /\ m \in Nodes
      BY <1>1, <2>2, Known DEF TreeInv, Parents
    <3>2. m # head[p] /\ m # tail[p]
      <4>1. PICK s \in Seq(Nodes) : IsListOf(p, s)
        BY <1>1 DEF Lists
      <4>2. \A i : At(s, i) # NULL => parent[At(s, i)] = p
        BY <4>1 DEF At, IsListOf
      <4>3. p # NULL /\ m # NULL
        BY <1>1, <3>1, Known
      <4>4. QED
        BY <2>2, <4>1, <4>2, <4>3 DEF IsListOf
    <3>3. CASE AppendNode(p, c)
      BY <1>1, <2>2, <3>1, <3>2, <3>3, Known DEF AppendNode
    <3>4. CASE PrependNode(p, c)
      BY <1>1, <2>2, <3>1, <3>2, <3>4, Known DEF PrependNode
    <3>5. QED
      BY <3>3, <3>4
  <2>3. p # NULL
    BY <1>1, Known
  <2>4. QED
    BY <1>1, <2>1, <2>2, <2>3, Known DEF TreeInv, Parents
<1>5. Deleting'
  BY <1>1, SMT DEF Deleting
<1>6. QED
  BY <1>2, <1>3, <1>4, <1>5 DEF TreeInv

(* json_remove_from_parent leaves a root; but for its old parent, no head  *)
(* changes, and there the next child takes the place of the first.         *)
LEMMA RemoveKeeps ==
  ASSUME TreeInv, NEW n \in live, RemoveFromParent(n), live' = live, tag' = tag
  PROVE  /\ Lists' /\ Parents' /\ parent'[n] = NULL
         /\ parent' \in [Nodes -> Pointers] /\ prev' \in [Nodes -> Pointers]
         /\ next' \in [Nodes -> Pointers] /\ key' \in [Nodes -> Names \cup {NULL}]
         /\ head' \in [Nodes -> Pointers] /\ tail' \in [Nodes -> Pointers]
         /\ \A m \in Nodes : m # parent[n] => head'[m] = head[m]
         /\ \A m \in Nodes : m # n => parent'[m] = parent[m]
         /\ \A m \in live : m = parent[n] /\ head[m] = n => head'[m] = next[n]
<1>1. TypeOK /\ Lists /\ Parents
  BY DEF TreeInv
<1>2. CASE parent[n] = NULL
  BY <1>1, <1>2, Known DEF RemoveFromParent, links, Lists, IsListOf, Parents
<1>3. CASE parent[n] # NULL
  <2> DEFINE p == parent[n]
  <2>1. p \in live /\ CutFrom(p, n)
    BY <1>1, <1>3 DEF RemoveFromParent, Parents
  <2>2. Lists' /\ (head[p] = n => head'[p] = next[n])
    <3>1. PICK q \in live : q = p
      BY <2>1
    <3>2. PICK s \in Seq(Nodes) : IsListOf(q, s)
      BY <1>1 DEF Lists
    <3>3. /\ \E k \in 1..Len(s) : s[k] = n /\ IsListOf(q, Cut(s, k))'
          /\ \A m \in live \ {q} : \A t : IsListOf(m, t) => IsListOf(m, t)'
          /\ head[q] = n => head'[q] = next[n]
      BY <1>1, <2>1, <3>1, <3>2, CutLists
    <3>4. \E t : IsListOf(q, t)'
      BY <3>3
    <3>5. Lists'
      BY <1>1, <3>3, <3>4, ListsFound
    <3>6. QED
      BY <3>1, <3>3, <3>5
  <2>3. /\ parent' \in [Nodes -> Pointers] /\ prev' \in [Nodes -> Pointers]
        /\ next' \in [Nodes -> Pointers] /\ key' \in [Nodes -> Names \cup {NULL}]
        /\ head' \in [Nodes -> Pointers] /\ tail' \in [Nodes -> Pointers]
    BY <1>1, <2>1, Known DEF CutFrom
  <2>4. /\ parent'[n] = NULL /\ key'[n] = NULL /\ prev'[n] = NULL /\ next'[n] = NULL
        /\ \A m \in Nodes \ {n} : parent'[m] = parent[m] /\ key'[m] = key[m]
        /\ \A m \in Nodes : m # p => head'[m] = head[m]
    BY <1>1, <2>1, Known DEF CutFrom
  <2>5. ASSUME NEW m \in live, m # n, parent[m] = NULL
        PROVE  prev'[m] = NULL /\ next'[m] = NULL
    <3>1. prev[m] = NULL /\ next[m] = NULL /\ m \in Nodes /\ n \in Nodes
      BY <1>1, <2>5, Known DEF Parents
    <3>2. m # prev[n] /\ m # next[n]
      <4>1. PICK s \in Seq(Nodes) : IsListOf(p, s)
        BY <1>1, <2>1 DEF Lists
      <4>2. \A i : At(s, i) # NULL => parent[At(s, i)] = p
        BY <4>1 DEF At, IsListOf
      <4>3. PICK i \in 1..Len(s) : s[i] = n
        BY <4>1 DEF IsListOf
      <4>4. prev[n] = At(s, i - 1) /\ next[n] = At(s, i + 1)
        BY <4>1, <4>3 DEF IsListOf
      <4>5. p # NULL /\ m # NULL
        BY <1>1, <3>1, <2>1, Known
      <4>6. QED
        BY <2>5, <4>2, <4>4, <4>5
    <3>3. QED
      BY <2>1, <2>5, <3>1, <3>2 DEF CutFrom
  <2>6. Parents'
    BY <1>1, <2>4, <2>5, Known DEF Parents
  <2>7. QED
    BY <2>2, <2>3, <2>4, <2>6
<1>4. QED
  BY <1>2, <1>3

(* A value that is no container has no children, so every frame starts     *)
(* with the first child that there is.                                     *)
LEMMA LeafIsBare ==
  ASSUME TypeOK, Lists, Parents, NEW n \in live, tag[n] \notin Containers
  PROVE  head[n] = NULL
<1>1. PICK s \in Seq(Nodes) : IsListOf(n, s)
  BY DEF Lists
<1>2. n # NULL
  BY Known
<1>3. At(s, 1) # NULL => s[1] \in live /\ parent[s[1]] = n
  BY <1>1 DEF At, IsListOf
<1>4. QED
  BY <1>1, <1>2, <1>3 DEF IsListOf, Parents

LEMMA EnterFrame ==
  ASSUME TreeInv, NEW n \in live, NEW frames, Enter(frames, n), live' = live, tag' = tag
  PROVE  stack' = Append(frames, [node |-> n, next |-> head'[n]])
<1>1. TypeOK /\ Lists /\ Parents /\ n \in Nodes
  BY Known DEF TreeInv
<1>2. CASE tag[n] \in Containers
  BY <1>2 DEF Enter
<1>3. CASE tag[n] \notin Containers
  <2>1. n # parent[n]
    BY <1>1, <1>3, Known DEF Parents
  <2>2. head'[n] = head[n] /\ head[n] = NULL
    BY <1>1, <1>3, <2>1, RemoveKeeps, LeafIsBare DEF Enter
  <2>3. QED
    BY <1>3, <2>2 DEF Enter
<1>4. QED
  BY <1>2, <1>3

Frames == [node : Nodes, next : Pointers]

LEMMA NewFrame ==
  ASSUME NEW n \in Nodes, NEW h \in Pointers, NEW frames \in Seq(Frames),
         NEW st, st = Append(frames, [node |-> n, next |-> h])
  PROVE  /\ st \in Seq(Frames) /\ Len(st) = Len(frames) + 1
         /\ \A i \in 1..Len(frames) : st[i] = frames[i]
         /\ st[Len(st)].node = n /\ st[Len(st)].next = h
<1> DEFINE f == [node |-> n, next |-> h]
<1>1. f \in Frames /\ f.node = n /\ f.next = h
  BY DEF Frames
<1> HIDE DEF f, Frames
<1>2. /\ st \in Seq(Frames) /\ Len(st) = Len(frames) + 1
      /\ \A i \in 1..Len(frames) : st[i] = frames[i]
      /\ st[Len(frames) + 1] = f
  <2>1. st = Append(frames, f)
    BY DEF f
  <2>2. QED
    BY <1>1, <2>1, SMT
<1>3. QED
  BY <1>1, <1>2

LEMMA RemoveInv ==
  ASSUME TreeInv, NEW n \in Nodes, Remove(n)
  PROVE  TreeInv'
<1>1. n \in live /\ stack = <<>> /\ RemoveFromParent(n) /\ UNCHANGED <<live, tag, stack>>
  BY DEF Remove, Idle
<1>2. Lists' /\ Parents' /\ TypeOK'
  BY <1>1, RemoveKeeps DEF TypeOK, TreeInv
<1>3. Deleting'
  BY <1>1, SMT DEF Deleting
<1>4. QED
  BY <1>2, <1>3 DEF TreeInv

(* json_delete of a child, or a first call of it, starts a new frame.      *)
LEMMA EnterInv ==
  ASSUME TreeInv, NEW n \in live, NEW frames \in Seq(Frames),
         Enter(frames, n), live' = live, tag' = tag,
         Len(frames) = Len(stack),
         \A i \in 1..Len(stack) : frames[i].node = stack[i].node /\ stack[i].node # n,
         \A i \in 1..Len(stack) : frames[i].next = head'[frames[i].node]
  PROVE  TreeInv'
<1>1. TypeOK /\ n \in Nodes /\ Len(frames) \in Nat
  BY Known, SMT DEF TreeInv
<1>2. /\ Lists' /\ Parents' /\ parent'[n] = NULL
      /\ head' \in [Nodes -> Pointers]
      /\ \A m \in Nodes : m # n => parent'[m] = parent[m]
  BY RemoveKeeps DEF Enter
<1>3. stack' = Append(frames, [node |-> n, next |-> head'[n]])
  BY EnterFrame
<1>4. /\ stack' \in Seq(Frames) /\ Len(stack') = Len(frames) + 1
      /\ \A i \in 1..Len(frames) : stack'[i] = frames[i]
      /\ stack'[Len(stack')].node = n /\ stack'[Len(stack')].next = head'[n]
  <2>1. head'[n] \in Pointers
    BY <1>1, <1>2
  <2>2. QED
    BY <1>1, <1>3, <2>1, NewFrame
<1>5. TypeOK'
  BY <1>4, RemoveKeeps DEF TypeOK, TreeInv, Enter, Frames
<1>6. ASSUME NEW i \in 1..Len(stack')
      PROVE  \/ i = Len(stack')
             \/ /\ i \in 1..Len(stack) /\ i # Len(stack')
                /\ stack'[i].node = stack[i].node /\ stack'[i].node # n
                /\ stack'[i].next = head'[stack'[i].node]
  BY <1>1, <1>4, SMT
<1>7. Deleting'
  <2>1. ASSUME NEW i \in 1..Len(stack')
        PROVE  /\ stack'[i].node \in live' /\ parent'[stack'[i].node] = NULL
               /\ stack'[i].next = head'[stack'[i].node]
    BY <1>1, <1>2, <1>4, <1>6, Known DEF TreeInv, Deleting
  <2>2. ASSUME NEW i \in 1..Len(stack'), NEW j \in 1..Len(stack'),
               stack'[i].node = stack'[j].node
        PROVE  i = j
    BY <1>4, <1>6, <2>2 DEF TreeInv, Deleting
  <2>3. QED
    BY <2>1, <2>2 DEF Deleting
<1>8. QED
  BY <1>2, <1>5, <1>7 DEF TreeInv

LEMMA DeleteCallInv ==
  ASSUME TreeInv, NEW n \in Nodes, DeleteCall(n)
  PROVE  TreeInv'
<1>1. n \in live /\ Enter(<<>>, n) /\ live' = live /\ tag' = tag /\ stack = <<>>
  BY DEF DeleteCall, Idle
<1>2. <<>> \in Seq(Frames) /\ Len(<<>>) = Len(stack) /\ 1..Len(stack) = {}
  BY <1>1, SMT
<1>3. QED
  BY <1>1, <1>2, EnterInv

(* The frames json_delete goes on with, of which the innermost deletes d,  *)
(* when it calls itself for the child c.                                   *)
ChildFrames(frames, c, d) ==
  /\ Enter(frames, c) /\ parent[c] = d
  /\ \E i \in 1..Len(stack) : stack[i].node = d
  /\ Len(frames) = Len(stack)
  /\ \A i \in 1..Len(stack) : frames[i].node = stack[i].node /\ stack[i].node # c
  /\ \A i \in 1..Len(stack) : frames[i].next = head'[frames[i].node]

LEMMA ChildEntered ==
  ASSUME TreeInv, DeleteChild
  PROVE  \E f \in Seq(Frames), x \in live, y \in live : ChildFrames(f, x, y)
<1> DEFINE l == Len(stack)
           d == stack[l].node
           c == stack[l].next
           frames == [stack EXCEPT ![l].next = next[c]]
<1>1. /\ TypeOK /\ Lists /\ Parents /\ Deleting
      /\ stack # <<>> /\ c # NULL /\ Enter(frames, c) /\ live' = live /\ tag' = tag
  BY DEF TreeInv, DeleteChild, Top, Idle
<1>2. stack \in Seq(Frames) /\ l \in 1..Len(stack) /\ l \in Nat
  <2>1. stack \in Seq(Frames)
    BY <1>1, Known DEF Frames
  <2>2. QED
    BY <1>1, <2>1, SMT
<1>3. /\ d \in live /\ parent[d] = NULL /\ c = head[d]
      /\ \A i \in 1..Len(stack) : stack[i].node \in live /\ parent[stack[i].node] = NULL
                                   /\ stack[i].next = head[stack[i].node]
      /\ \A i, j \in 1..Len(stack) : stack[i].node = stack[j].node => i = j
  BY <1>1, <1>2 DEF Deleting
<1>4. c \in live /\ parent[c] = d
  <2>1. PICK s \in Seq(Nodes) : IsListOf(d, s)
    BY <1>1, <1>3 DEF Lists
  <2>2. QED
    BY <1>1, <1>3, <2>1 DEF IsListOf, At
<1>5. d # NULL /\ d \in Nodes /\ c \in Nodes
  BY <1>1, <1>3, <1>4, Known
<1>6. /\ head'[d] = next[c]
      /\ \A m \in Nodes : m # d => head'[m] = head[m]
      /\ next[c] \in Pointers
  BY <1>1, <1>3, <1>4, <1>5, RemoveKeeps, Known DEF Enter
<1>7. /\ frames \in Seq(Frames) /\ Len(frames) = l
      /\ \A i \in 1..Len(stack) :
           /\ frames[i].node = stack[i].node
           /\ frames[i].next = IF i = l THEN next[c] ELSE stack[i].next
  <2> DEFINE x == next[c]
             g == [stack[l] EXCEPT !.next = x]
  <2>1. stack[l] \in Frames /\ x \in Pointers
    BY <1>2, <1>6, SMT
  <2> HIDE DEF x
  <2>2. g \in Frames /\ g.node = stack[l].node /\ g.next = x
    BY <2>1 DEF Frames
  <2>3. frames = [stack EXCEPT ![l] = g]
    BY DEF x
  <2> HIDE DEF g, Frames
  <2>4. /\ frames \in Seq(Frames) /\ Len(frames) = Len(stack)
        /\ \A i \in 1..Len(stack) : frames[i] = IF i = l THEN g ELSE stack[i]
    <3> HIDE DEF frames, l
    <3>1. QED
      BY <1>2, <2>2, <2>3, SMT
  <2>5. QED
    BY <2>2, <2>4 DEF x
<1>8. \A i \in 1..Len(stack) : frames[i].next = head'[frames[i].node]
  BY <1>1, <1>2, <1>3, <1>6, <1>7, Known
<1>9. \A i \in 1..Len(stack) : stack[i].node # c
  BY <1>3, <1>4, <1>5
<1>10. ChildFrames(frames, c, d)
  <2> HIDE DEF frames, c, l
  <2>1. QED
    BY <1>1, <1>2, <1>4, <1>7, <1>8, <1>9 DEF ChildFrames, l
<1> HIDE DEF frames, c, d
<1>11. QED
  BY <1>3, <1>4, <1>7, <1>10

LEMMA DeleteChildInv ==
  ASSUME TreeInv, DeleteChild
  PROVE  TreeInv'
<1>1. PICK f \in Seq(Frames), x \in live, y \in live : ChildFrames(f, x, y)
  BY ChildEntered
<1>2. live' = live /\ tag' = tag
  BY DEF DeleteChild
<1>3. QED
  BY <1>1, <1>2, EnterInv DEF ChildFrames

LEMMA Popped ==
  ASSUME NEW S, NEW st \in Seq(S), NEW l \in Nat, l = Len(st), l # 0
  PROVE  /\ SubSeq(st, 1, l - 1) \in Seq(S) /\ Len(SubSeq(st, 1, l - 1)) = l - 1
         /\ \A i \in 1..(l - 1) : SubSeq(st, 1, l - 1)[i] = st[i]
<1>1. \A i \in 1..(l - 1) : st[i] \in S
  BY SMT
<1>2. SubSeq(st, 1, l - 1) = [i \in 1..(l - 1) |-> st[i]]
  BY SMT
<1>3. QED
  BY <1>1, <1>2, SMT

LEMMA DeleteReturnInv ==
  ASSUME TreeInv, DeleteReturn
  PROVE  TreeInv'
<1> DEFINE l == Len(stack)
           d == stack[l].node
<1>1. /\ TypeOK /\ Lists /\ Parents /\ Deleting
      /\ stack # <<>> /\ stack[l].next = NULL
      /\ live' = live \ {d} /\ stack' = SubSeq(stack, 1, l - 1)
      /\ UNCHANGED <<tag, links>>
  BY DEF TreeInv, DeleteReturn, Top, Idle
<1>2. stack \in Seq(Frames) /\ l \in 1..Len(stack) /\ l \in Nat
  <2>1. stack \in Seq(Frames)
    BY <1>1, Known DEF Frames
  <2>2. QED
    BY <1>1, <2>1, SMT
<1>3. /\ stack' \in Seq(Frames) /\ Len(stack') = l - 1
      /\ \A i \in 1..Len(stack') : stack'[i] = stack[i] /\ i \in 1..Len(stack) /\ i # l
  <2> HIDE DEF Frames, l
  <2>1. l = Len(stack) /\ l # 0
    BY <1>2, SMT DEF l
  <2>2. /\ stack' \in Seq(Frames) /\ Len(stack') = l - 1
        /\ \A i \in 1..(l - 1) : stack'[i] = stack[i]
    BY <1>1, <1>2, <2>1, Popped
  <2>3. \A i \in 1..(l - 1) : i \in 1..Len(stack) /\ i # l
    BY <1>2, <2>1, SMT
  <2>4. QED
    BY <2>2, <2>3
<1>4. d \in live /\ parent[d] = NULL /\ head[d] = NULL /\ d # NULL
  BY <1>1, <1>2, Known DEF Deleting
<1>5. \A m \in live : parent[m] # d
  <2>1. PICK s \in Seq(Nodes) : IsListOf(d, s)
    BY <1>1, <1>4 DEF Lists
  <2>2. 1 \notin 1..Len(s)
    BY <1>1, <1>4, <2>1, Known DEF IsListOf, At
  <2>3. Len(s) \in Nat /\ \A i \in 1..Len(s) : 1 \in 1..Len(s)
    BY SMT
  <2>4. QED
    BY <2>1, <2>2, <2>3 DEF IsListOf
<1>6. TypeOK'
  BY <1>1, <1>3 DEF TypeOK, links, Frames
<1>7. Lists'
  <2>1. ASSUME NEW q \in live' PROVE \E s \in Seq(Nodes) : IsListOf(q, s)'
    <3>1. q \in live /\ q # d /\ q # NULL
      BY <1>1, Known
    <3>2. PICK s \in Seq(Nodes) : IsListOf(q, s)
      BY <1>1, <3>1 DEF Lists
    <3>3. \A i \in 1..Len(s) : s[i] \in live /\ parent[s[i]] = q
      BY <3>2 DEF IsListOf
    <3>4. QED
      BY <1>1, <1>4, <3>1, <3>2, <3>3, ListStays DEF links
  <2>2. QED
    BY <2>1 DEF Lists
<1>8. Parents'
  BY <1>1, <1>5 DEF Parents, links
<1>9. Deleting'
  <2>1. \A i \in 1..Len(stack') : stack'[i].node # d
    BY <1>1, <1>2, <1>3 DEF Deleting
  <2>2. QED
    BY <1>1, <1>3, <2>1, SMTT(60) DEF Deleting, links
<1>10. QED
  BY <1>6, <1>7, <1>8, <1>9 DEF TreeInv

LEMMA NextInv == TreeInv /\ [Next]_vars => TreeInv'
<1> SUFFICES ASSUME TreeInv, [Next]_vars PROVE TreeInv'
  OBVIOUS
<1>1. ASSUME NEW n \in Nodes, NEW t \in {"leaf"} \cup Containers, Mknode(n, t)
      PROVE  TreeInv'
  BY <1>1, MknodeInv
<1>2. ASSUME NEW p \in Nodes, NEW c \in Nodes, AppendElement(p, c) \/ PrependElement(p, c)
      PROVE  TreeInv'
  <2>1. /\ MayAdd(p, c, "array") /\ (AppendNode(p, c) \/ PrependNode(p, c))
        /\ UNCHANGED <<live, tag, key, stack>> /\ "array" \in Containers
    BY <1>2 DEF AppendElement, PrependElement, Containers
  <2>2. key \in [Nodes -> Names \cup {NULL}] /\ key[c] = NULL
    BY <2>1, Known DEF TreeInv, Parents, MayAdd
  <2>3. QED
    BY <2>1, <2>2, AddInv
<1>3. ASSUME NEW p \in Nodes, NEW c \in Nodes, NEW k \in Names,
             AppendMember(p, c, k) \/ PrependMember(p, c, k)
      PROVE  TreeInv'
  <2>1. /\ MayAdd(p, c, "object") /\ (AppendNode(p, c) \/ PrependNode(p, c))
        /\ key' = [key EXCEPT ![c] = k]
        /\ UNCHANGED <<live, tag, stack>> /\ "object" \in Containers
    BY <1>3 DEF AppendMember, PrependMember, Containers
  <2>2. /\ key' \in [Nodes -> Names \cup {NULL}] /\ key'[c] # NULL
        /\ \A m \in Nodes \ {c} : key'[m] = key[m]
    BY <2>1, Known DEF TreeInv
  <2>3. QED
    BY <2>1, <2>2, AddInv
<1>4. ASSUME NEW n \in Nodes, Remove(n) \/ DeleteCall(n)
      PROVE  TreeInv'
  BY <1>4, RemoveInv, DeleteCallInv
<1>5. CASE DeleteChild
  BY <1>5, DeleteChildInv
<1>6. CASE DeleteReturn
  BY <1>6, DeleteReturnInv
<1>7. CASE UNCHANGED vars
  BY <1>7 DEF vars, links, TreeInv, TypeOK, Lists, IsListOf, Parents, Deleting, Pointers
<1>8. QED
  BY <1>1, <1>2, <1>3, <1>4, <1>5, <1>6, <1>7 DEF Next

LEMMA TreeKept == Spec => []TreeInv
BY InitInv, NextInv, PTL DEF Spec

LEMMA NothingDangles == TreeInv => NoDangling
<1> SUFFICES ASSUME TreeInv PROVE NoDangling
  OBVIOUS
<1>1. TypeOK /\ Lists /\ Parents /\ Deleting
  BY DEF TreeInv
<1>2. ASSUME NEW n \in live
      PROVE  head[n] \in live \cup {NULL} /\ tail[n] \in live \cup {NULL}
  BY <1>1 DEF Lists, IsListOf, At
<1>3. ASSUME NEW n \in live
      PROVE  /\ parent[n] \in live \cup {NULL}
             /\ prev[n] \in live \cup {NULL} /\ next[n] \in live \cup {NULL}
  <2>1. CASE parent[n] = NULL
    BY <1>1, <2>1 DEF Parents
  <2>2. CASE parent[n] # NULL
    <3>1. parent[n] \in live
      BY <1>1, <2>2 DEF Parents
    <3>2. PICK s \in Seq(Nodes) : IsListOf(parent[n], s)
      BY <1>1, <3>1 DEF Lists
    <3>3. PICK i \in 1..Len(s) : s[i] = n
      BY <3>2 DEF IsListOf
    <3>4. prev[n] = At(s, i - 1) /\ next[n] = At(s, i + 1)
      BY <3>2, <3>3 DEF IsListOf
    <3>5. \A j : At(s, j) \in live \cup {NULL}
      BY <3>2 DEF IsListOf, At
    <3>6. QED
      BY <3>1, <3>4, <3>5
  <2>3. QED
    BY <2>1, <2>2
<1>4. ASSUME NEW i \in 1..Len(stack)
      PROVE  stack[i].node \in live /\ stack[i].next \in live \cup {NULL}
  BY <1>1, <1>2 DEF Deleting
<1>5. QED
  BY <1>2, <1>3, <1>4 DEF NoDangling

(* No live node and no frame of json_delete points to a freed node.        *)
THEOREM NothingFreed == Spec => []NoDangling
BY TreeKept, NothingDangles, PTL

-----------------------------------------------------------------------------
(* A walk over the children of p meets the list of p.                      *)

LEMMA ListFits ==
  ASSUME NEW s \in Seq(Nodes), \A i, j \in 1..Len(s) : s[i] = s[j] => i = j
  PROVE  Cardinality(Nodes) \in Nat /\ Len(s) <= Cardinality(Nodes)
<1>1. IsFiniteSet(Nodes) /\ Cardinality(Nodes) \in Nat
  BY JsonTreeAssumption, FS_CardinalityType
<1>2. Len(s) \in Nat /\ \A i \in 1..Len(s) : s[i] \in Nodes
  BY SMT
<1>3. IsFiniteSet(1..Len(s)) /\ Cardinality(1..Len(s)) = Len(s)
  <2>1. /\ IsFiniteSet(1..Len(s))
        /\ Cardinality(1..Len(s)) = IF 1 > Len(s) THEN 0 ELSE Len(s) - 1 + 1
    BY <1>2, FS_Interval
  <2>2. QED
    BY <1>2, <2>1, SMT
<1>4. ASSUME Cardinality(1..Len(s)) > Cardinality(Nodes) PROVE FALSE
  <2>1. \A f \in [1..Len(s) -> Nodes] : \E x, y \in 1..Len(s) : x # y /\ f[x] = f[y]
    BY <1>1, <1>3, <1>4, FS_PigeonHole
  <2>2. [i \in 1..Len(s) |-> s[i]] \in [1..Len(s) -> Nodes]
    BY <1>2
  <2>3. QED
    BY <2>1, <2>2
<1>5. QED
  BY <1>1, <1>2, <1>3, <1>4, SMT

LEMMA WalkMeets ==
  ASSUME TypeOK, NEW p \in live, NEW s, IsListOf(p, s)
  PROVE  Children(p) = s
<1> DEFINE n == Len(s)
           N == Cardinality(Nodes) + 1
           step(f, i) == IF i = 1 THEN head[p]
                         ELSE IF f[i - 1] = NULL THEN NULL ELSE next[f[i - 1]]
           g == [i \in 1..N |-> At(s, i)]
<1>1. /\ s \in Seq(Nodes) /\ \A i, j \in 1..n : s[i] = s[j] => i = j
      /\ head[p] = At(s, 1)
      /\ \A i \in 1..n : next[s[i]] = At(s, i + 1)
  BY DEF IsListOf
<1>2. n \in Nat /\ N \in Nat /\ n < N /\ 1 <= N
  <2>1. Cardinality(Nodes) \in Nat /\ n <= Cardinality(Nodes)
    BY <1>1, ListFits
  <2>2. n \in Nat
    BY <1>1, SMT
  <2>3. QED
    BY <2>1, <2>2, SMT
<1> HIDE DEF N, n
<1>3. \A i \in Int : At(s, i) = IF i \in 1..n THEN s[i] ELSE NULL
  BY DEF At, n
<1>4. \A i \in 1..n : s[i] \in Nodes /\ s[i] # NULL
  BY <1>1, JsonTreeAssumption, SMT DEF n
<1>5. ASSUME NEW f, NEW i \in 1..N, i = 1 \/ f[i - 1] = At(s, i - 1)
      PROVE  step(f, i) = At(s, i)
  <2>1. CASE i = 1
    BY <1>1, <2>1
  <2>2. CASE i # 1
    <3>1. f[i - 1] = At(s, i - 1) /\ i - 1 \in 1..N /\ i - 1 \in Int /\ i \in Int /\ (i - 1) + 1 = i
      BY <1>2, <1>5, <2>2, SMT
    <3>2. CASE i - 1 \in 1..n
      BY <1>1, <1>3, <1>4, <2>2, <3>1, <3>2
    <3>3. CASE i - 1 \notin 1..n
      <4>1. i \notin 1..n
        BY <1>2, <2>2, <3>1, <3>3, SMT
      <4>2. At(s, i - 1) = NULL /\ At(s, i) = NULL
        BY <1>3, <3>1, <3>3, <4>1
      <4>3. QED
        BY <2>2, <3>1, <4>2
    <3>4. QED
      BY <3>2, <3>3
  <2>3. QED
    BY <2>1, <2>2
<1>6. g = [i \in 1..N |-> step(g, i)]
  <2>1. ASSUME NEW i \in 1..N PROVE g[i] = step(g, i)
    <3>1. i = 1 \/ g[i - 1] = At(s, i - 1)
      <4>1. i # 1 => i - 1 \in 1..N
        BY <1>2, SMT
      <4>2. QED
        BY <4>1
    <3> HIDE DEF step
    <3>2. step(g, i) = At(s, i)
      BY <1>5, <3>1
    <3>3. QED
      BY <3>2
  <2> HIDE DEF step
  <2>2. QED
    BY <2>1
<1>7. ASSUME NEW f, f = [i \in 1..N |-> step(f, i)] PROVE f = g
  <2> DEFINE bad == {i \in 1..N : f[i] # At(s, i)}
  <2> HIDE DEF step
  <2>1. bad = {}
    <3> SUFFICES ASSUME bad # {} PROVE FALSE
      OBVIOUS
    <3>1. bad \in SUBSET Nat
      BY <1>2, SMT
    <3>2. PICK m \in bad : \A k \in bad : m <= k
      BY <3>1, Least
    <3>3. m \in 1..N /\ f[m] = step(f, m) /\ f[m] # At(s, m)
      BY <1>7
    <3>4. m = 1 \/ f[m - 1] = At(s, m - 1)
      <4>1. m # 1 => m - 1 \in 1..N /\ ~(m <= m - 1)
        BY <1>2, <3>3, SMT
      <4>2. QED
        BY <3>2, <4>1
    <3>5. QED
      BY <1>5, <3>3, <3>4
  <2>2. \A i \in 1..N : f[i] = At(s, i)
    BY <2>1
  <2>3. f = [i \in 1..N |-> f[i]]
    BY <1>7
  <2>4. QED
    BY <2>2, <2>3
<1> DEFINE at == CHOOSE f : f = [i \in 1..N |-> step(f, i)]
<1>8. at = g
  <2> HIDE DEF step, g
  <2>1. at = [i \in 1..N |-> step(at, i)]
    BY <1>6
  <2>2. QED
    BY <1>7, <2>1
<1>9. Children(p) = SubSeq(at, 1, Cardinality({i \in DOMAIN at : at[i] # NULL}))
  BY DEF Children, Walk, N
<1> HIDE DEF at
<1>10. {i \in DOMAIN at : at[i] # NULL} = 1..n
  <2>1. DOMAIN at = 1..N /\ \A i \in 1..N : at[i] = At(s, i)
    BY <1>8
  <2>2. \A i \in 1..n : i \in 1..N
    BY <1>2, SMT
  <2>3. \A i \in 1..N : At(s, i) # NULL <=> i \in 1..n
    BY <1>2, <1>3, <1>4, SMT
  <2> HIDE DEF g
  <2>4. QED
    BY <2>1, <2>2, <2>3
<1>11. Cardinality(1..n) = n
  <2>1. Cardinality(1..n) = IF 1 > n THEN 0 ELSE n - 1 + 1
    BY <1>2, FS_Interval
  <2>2. QED
    BY <1>2, <2>1, SMT
<1>12. SubSeq(g, 1, n) = s
  <2>1. g \in Seq(Pointers) /\ Len(g) = N
    <3>1. \A i \in 1..N : At(s, i) \in Pointers
      BY <1>2, <1>3, <1>4 DEF Pointers
    <3>2. g \in [1..N -> Pointers]
      BY <3>1
    <3> HIDE DEF g
    <3>3. QED
      BY <1>2, <3>2, SMT
  <2>2. \A i \in 1..n : g[i] = s[i] /\ i \in 1..N
    BY <1>2, <1>3, SMT
  <2> HIDE DEF g
  <2>3. SubSeq(g, 1, n) = [i \in 1..n |-> g[i]]
    BY <1>2, <2>1, SMT
  <2>4. s = [i \in 1..n |-> s[i]]
    BY <1>1, SMT DEF n
  <2>5. QED
    BY <2>2, <2>3, <2>4
<1>13. QED
  BY <1>8, <1>9, <1>10, <1>11, <1>12

LEMMA LinksChecked == TreeInv => LinksAgree
<1> SUFFICES ASSUME TreeInv PROVE LinksAgree
  OBVIOUS
<1>1. TypeOK /\ Lists /\ Parents
  BY DEF TreeInv
<1>2. ASSUME NEW p \in live, tag[p] \in Containers PROVE ChecksOut(p)
  <2>1. PICK s \in Seq(Nodes) : IsListOf(p, s)
    BY <1>1 DEF Lists
  <2>2. Children(p) = s
    BY <1>1, <2>1, WalkMeets
  <2> DEFINE n == Len(s)
  <2>3. n \in Nat
    BY SMT
  <2>4. /\ \A i, j \in 1..n : s[i] = s[j] => i = j
        /\ \A i \in 1..n : s[i] \in live /\ parent[s[i]] = p
        /\ head[p] = At(s, 1) /\ tail[p] = At(s, n)
        /\ \A i \in 1..n : prev[s[i]] = At(s, i - 1) /\ next[s[i]] = At(s, i + 1)
    BY <2>1 DEF IsListOf
  <2>5. \A i \in Int : /\ At(s, i) = NULL <=> i \notin 1..n
                       /\ i \in 1..n => At(s, i) = s[i]
    BY AtIs
  <2>6. \A i \in Int, j \in 1..n : s[j] = At(s, i) <=> i = j
    <3> SUFFICES ASSUME NEW j \in 1..Len(s), NEW i \in Int PROVE s[j] = At(s, i) <=> i = j
      OBVIOUS
    <3>1. \A a, b \in 1..Len(s) : s[a] = s[b] => a = b
      BY <2>4
    <3>2. QED
      BY <3>1, Where
  <2>7. s # <<>> => n # 0
    BY SMT
  <2> HIDE DEF n
  <2>8. head[p] = NULL <=> tail[p] = NULL
    BY <2>3, <2>4, <2>5, SMT
  <2>9. ASSUME head[p] # NULL PROVE prev[head[p]] = NULL
    <3>1. 1 \in 1..n /\ 1 - 1 \notin 1..n /\ 1 - 1 \in Int
      BY <2>3, <2>4, <2>5, <2>9, SMT
    <3>2. head[p] = s[1] /\ prev[s[1]] = At(s, 1 - 1) /\ At(s, 1 - 1) = NULL
      BY <2>4, <2>5, <3>1
    <3>3. QED
      BY <3>2
  <2>10. ASSUME NEW i \in 1..n
         PROVE  /\ next[s[i]] \notin {s[i], head[p]}
                /\ parent[s[i]] = p
                /\ next[s[i]] # NULL => prev[next[s[i]]] = s[i]
                /\ tag[p] = "array" => key[s[i]] = NULL
                /\ tag[p] = "object" => key[s[i]] # NULL
    <3>1. i \in Int /\ i + 1 \in Int /\ i + 1 # i /\ i + 1 # 1 /\ (i + 1) - 1 = i /\ 1 \in 1..n
      BY <2>3, SMT
    <3>2. next[s[i]] = At(s, i + 1)
      BY <2>4
    <3>3. next[s[i]] # s[i] /\ next[s[i]] # head[p]
      BY <2>4, <2>5, <2>6, <3>1, <3>2
    <3>4. ASSUME next[s[i]] # NULL PROVE prev[next[s[i]]] = s[i]
      <4>1. i + 1 \in 1..n /\ next[s[i]] = s[i + 1]
        BY <2>5, <3>1, <3>2, <3>4
      <4>2. prev[s[i + 1]] = At(s, (i + 1) - 1)
        BY <2>4, <4>1
      <4>3. QED
        BY <2>5, <3>1, <4>1, <4>2
    <3>5. /\ parent[s[i]] = p /\ p # NULL /\ s[i] \in live
      BY <1>1, <2>4, Known
    <3>6. /\ tag[p] = "array" => key[s[i]] = NULL
          /\ tag[p] = "object" => key[s[i]] # NULL
      BY <1>1, <3>5 DEF Parents
    <3>7. QED
      BY <3>3, <3>4, <3>5, <3>6
  <2>11. s # <<>> => s[Len(s)] = tail[p]
    BY <2>3, <2>4, <2>5, <2>7, SMT DEF n
  <2>12. QED
    BY <2>2, <2>8, <2>9, <2>10, <2>11 DEF ChecksOut, n
<1>3. ASSUME NEW n \in live
      PROVE  IF parent[n] = NULL
             THEN prev[n] = NULL /\ next[n] = NULL /\ key[n] = NULL
             ELSE LET c == Children(parent[n])
                  IN  Cardinality({i \in 1..Len(c) : c[i] = n}) = 1
  <2>1. CASE parent[n] = NULL
    BY <1>1, <2>1 DEF Parents
  <2>2. CASE parent[n] # NULL
    <3>1. parent[n] \in live
      BY <1>1, <2>2 DEF Parents
    <3>2. PICK s \in Seq(Nodes) : IsListOf(parent[n], s)
      BY <1>1, <3>1 DEF Lists
    <3>3. Children(parent[n]) = s
      BY <1>1, <3>1, <3>2, WalkMeets
    <3>4. PICK k \in 1..Len(s) : s[k] = n
      BY <3>2 DEF IsListOf
    <3>5. {i \in 1..Len(s) : s[i] = n} = {k}
      BY <3>2, <3>4 DEF IsListOf
    <3>6. Cardinality({k}) = 1
      BY FS_Singleton
    <3>7. QED
      BY <2>2, <3>3, <3>5, <3>6
  <2>3. QED
    BY <2>1, <2>2
<1>4. QED
  BY <1>2, <1>3 DEF LinksAgree, ParentMeansChild

(* In every container and at every point json_check finds no problem, and  *)
(* what a child says of its parent agrees with the parent's list.          *)
THEOREM LinksStayWhole == Spec => []LinksAgree
BY TreeKept, LinksChecked, PTL

-----------------------------------------------------------------------------
LEMMA BelowReads ==
  ASSUME NEW n \in live, NEW g \in [live -> SUBSET live],
         \A p \in live : g[p] = {m \in live : parent[m] = p},
         NEW f \in [0..Cardinality(Nodes) -> SUBSET live],
         Grows(f, n, g, Cardinality(Nodes))
  PROVE  Below(n) = f[Cardinality(Nodes)]
<1> DEFINE C == Cardinality(Nodes)
           step(h, i) == IF i = 0 THEN {n}
                         ELSE UNION {{p} \cup {m \in live : parent[m] = p} : p \in h[i - 1]}
           reach == CHOOSE h : h = [i \in 0..C |-> step(h, i)]
<1>1. C \in Nat
  BY JsonTreeAssumption, FS_CardinalityType
<1>2. Below(n) = reach[C]
  BY DEF Below
<1> HIDE DEF C
<1>3. ASSUME NEW h, NEW i \in 1..C, h[i - 1] = f[i - 1] PROVE step(h, i) = f[i]
  <2>1. i # 0 /\ i - 1 \in 0..C
    BY <1>1, SMT
  <2>2. f[i - 1] \subseteq live
    BY <2>1 DEF C
  <2>3. f[i] = UNION {{m} \cup g[m] : m \in f[i - 1]}
    BY DEF Grows, Grown, C
  <2>4. UNION {{p} \cup {m \in live : parent[m] = p} : p \in f[i - 1]}
          = UNION {{m} \cup g[m] : m \in f[i - 1]}
    BY <2>2
  <2>5. QED
    BY <1>3, <2>1, <2>3, <2>4
<1> HIDE DEF reach
<1>4. \A i \in 0..C : step(f, i) = f[i]
  <2> SUFFICES ASSUME NEW i \in 0..C PROVE step(f, i) = f[i]
    OBVIOUS
  <2>1. i # 0 => i \in 1..C
    BY <1>1, SMT
  <2>2. CASE i = 0
    BY <2>2 DEF Grows
  <2>3. CASE i # 0
    <3> HIDE DEF step
    <3>1. QED
      BY <1>3, <2>1, <2>3
  <2>4. QED
    BY <2>2, <2>3
<1>5. f = [i \in 0..C |-> step(f, i)]
  <2> HIDE DEF step
  <2>1. f = [i \in 0..C |-> f[i]]
    BY DEF C
  <2>2. QED
    BY <1>4, <2>1
<1>6. reach = [i \in 0..C |-> step(reach, i)]
  <2> HIDE DEF step
  <2>1. QED
    BY <1>5 DEF reach
<1>7. \A i \in 0..C : reach[i] = step(reach, i)
  <2> HIDE DEF step
  <2>1. QED
    BY <1>6
<1>8. 0 \in 0..C /\ C \in 0..C /\ \A i \in 1..C : i \in 0..C
  BY <1>1, SMT
<1>9. reach[0] = f[0]
  BY <1>7, <1>8 DEF Grows
<1> HIDE DEF step
<1>10. \A i \in 1..C : reach[i - 1] = f[i - 1] => reach[i] = f[i]
  BY <1>3, <1>7, <1>8
<1>11. \A i \in 0..C : reach[i] = f[i]
  <2>1. Together(reach, f, C)
    BY <1>9, <1>10 DEF Together
  <2>2. Alike(reach, f, C)
    BY <1>1, <2>1, SameSteps
  <2>3. QED
    BY <2>2 DEF Alike
<1>12. QED
  BY <1>2, <1>8, <1>11 DEF C

Tags  == [n \in Nodes |-> IF n \in Kept THEN tag[n] ELSE "free"]
Kids  == [n \in Nodes |-> IF n \in Kept THEN Children(n) ELSE <<>>]
Labels == [n \in Nodes |-> IF n \in Kept THEN key[n] ELSE NULL]

LEMMA SubtreeReads ==
  ASSUME live \subseteq Nodes, Kept = live,
         NEW n \in live, NEW g \in [live -> SUBSET live],
         \A p \in live : g[p] = Forest!ToSet(Children(p)),
         NEW f \in [0..Cardinality(Nodes) -> SUBSET live],
         Grows(f, n, g, Cardinality(Nodes))
  PROVE  Forest!Subtree(n) = f[Cardinality(Nodes)]
<1> DEFINE C == Cardinality(Nodes)
           step(h, i) == IF i = 0 THEN {n}
                         ELSE UNION {{m} \cup Forest!ToSet(Kids[m]) : m \in h[i - 1]}
           reach == CHOOSE h : h = [i \in 0..C |-> step(h, i)]
<1>1. C \in Nat
  BY JsonTreeAssumption, FS_CardinalityType
<1>2. Forest!Subtree(n) = reach[C]
  <2>1. Forest!Cardinality(Nodes) = Cardinality(Nodes)
    BY DEF Forest!Cardinality, Cardinality
  <2>2. QED
    BY <2>1 DEF Forest!Subtree, Kids
<1> HIDE DEF C
<1>3. ASSUME NEW h, NEW i \in 1..C, h[i - 1] = f[i - 1] PROVE step(h, i) = f[i]
  <2>1. i # 0 /\ i - 1 \in 0..C
    BY <1>1, SMT
  <2>2. f[i - 1] \subseteq live
    BY <2>1 DEF C
  <2>3. f[i] = UNION {{m} \cup g[m] : m \in f[i - 1]}
    BY DEF Grows, Grown, C
  <2>4. \A m \in live : Kids[m] = Children(m)
    BY DEF Kids
  <2>5. UNION {{m} \cup Forest!ToSet(Kids[m]) : m \in f[i - 1]}
          = UNION {{m} \cup g[m] : m \in f[i - 1]}
    BY <2>2, <2>4
  <2>6. QED
    BY <1>3, <2>1, <2>3, <2>5
<1> HIDE DEF reach
<1>4. \A i \in 0..C : step(f, i) = f[i]
  <2> SUFFICES ASSUME NEW i \in 0..C PROVE step(f, i) = f[i]
    OBVIOUS
  <2>1. i # 0 => i \in 1..C
    BY <1>1, SMT
  <2>2. CASE i = 0
    BY <2>2 DEF Grows
  <2>3. CASE i # 0
    <3> HIDE DEF step
    <3>1. QED
      BY <1>3, <2>1, <2>3
  <2>4. QED
    BY <2>2, <2>3
<1>5. f = [i \in 0..C |-> step(f, i)]
  <2> HIDE DEF step
  <2>1. f = [i \in 0..C |-> f[i]]
    BY DEF C
  <2>2. QED
    BY <1>4, <2>1
<1>6. reach = [i \in 0..C |-> step(reach, i)]
  <2> HIDE DEF step
  <2>1. QED
    BY <1>5 DEF reach
<1>7. \A i \in 0..C : reach[i] = step(reach, i)
  <2> HIDE DEF step
  <2>1. QED
    BY <1>6
<1>8. 0 \in 0..C /\ C \in 0..C /\ \A i \in 1..C : i \in 0..C
  BY <1>1, SMT
<1>9. reach[0] = f[0]
  BY <1>7, <1>8 DEF Grows
<1> HIDE DEF step
<1>10. \A i \in 1..C : reach[i - 1] = f[i - 1] => reach[i] = f[i]
  BY <1>3, <1>7, <1>8
<1>11. \A i \in 0..C : reach[i] = f[i]
  <2>1. Together(reach, f, C)
    BY <1>9, <1>10 DEF Together
  <2>2. Alike(reach, f, C)
    BY <1>1, <2>1, SameSteps
  <2>3. QED
    BY <2>2 DEF Alike
<1>12. QED
  BY <1>2, <1>8, <1>11 DEF C

-----------------------------------------------------------------------------
(* The nodes that a json_delete is to free.  Each of those that are left   *)
(* is being deleted or is the child of one that is nearer to the node that *)
(* json_delete was called for; so when that one has no children any more,  *)
(* it is the last.                                                         *)

Framed(m) == \E i \in 1..Len(stack) : stack[i].node = m

Ranked(rank) ==
  \A m \in live \cap doomed :
    \/ Framed(m)
    \/ parent[m] \in live \cap doomed /\ rank[parent[m]] < rank[m]

Doom ==
  /\ doomed \in SUBSET Nodes
  /\ stack = <<>> => doomed = {}
  /\ \A m : Framed(m) => m \in doomed
  /\ \A m \in live : parent[m] \in doomed => m \in doomed
  /\ \E rank \in [Nodes -> Nat] : Ranked(rank)

LEMMA Undoomed ==
  ASSUME stack' = <<>>, doomed' = {}
  PROVE  Doom'
<1>1. ~ \E m : Framed(m)'
  BY SMT DEF Framed
<1>2. [m \in Nodes |-> 0] \in [Nodes -> Nat]
  OBVIOUS
<1>3. Ranked([m \in Nodes |-> 0])'
  BY DEF Ranked
<1>4. QED
  BY <1>1, <1>2, <1>3 DEF Doom

Climbs(rank, X, n) ==
  \A m \in X : m = n \/ (parent[m] \in X /\ rank[parent[m]] < rank[m])

LEMMA BelowIs ==
  ASSUME TypeOK, NEW n \in live
  PROVE  /\ Below(n) \in SUBSET live /\ n \in Below(n)
         /\ \A m \in live : parent[m] \in Below(n) => m \in Below(n)
         /\ \E rank \in [Nodes -> Nat] : Climbs(rank, Below(n), n)
<1> DEFINE C == Cardinality(Nodes)
           g == [p \in live |-> {m \in live : parent[m] = p}]
<1>1. /\ C \in Nat /\ IsFiniteSet(live) /\ Cardinality(live) <= C /\ live \subseteq Nodes
      /\ g \in [live -> SUBSET live]
  BY JsonTreeAssumption, Known, FS_CardinalityType, FS_Subset
<1>2. PICK f \in [0..C -> SUBSET live] :
             Grows(f, n, g, C)
  <2> HIDE DEF C, g
  <2>1. QED
    BY <1>1, Unfolds
<1>3. Below(n) = f[C]
  <2>1. \A p \in live : g[p] = {m \in live : parent[m] = p}
    OBVIOUS
  <2> HIDE DEF g
  <2>2. QED
    BY <1>1, <1>2, <2>1, BelowReads
<1>4. /\ f[C] \in SUBSET live /\ n \in f[C]
      /\ \A m \in f[C] : g[m] \subseteq f[C]
      /\ \E rank \in [live -> Nat] : Nearer(rank, f[C], n, g)
  <2> HIDE DEF C, g
  <2>1. QED
    BY <1>1, <1>2, Closed
<1>5. PICK rank \in [live -> Nat] : Nearer(rank, f[C], n, g)
  BY <1>4
<1> HIDE DEF C
<1>6. \E r \in [Nodes -> Nat] : Climbs(r, f[C], n)
  <2> DEFINE r == [m \in Nodes |-> IF m \in live THEN rank[m] ELSE 0]
  <2>1. r \in [Nodes -> Nat] /\ \A m \in live : r[m] = rank[m]
    BY <1>1
  <2> HIDE DEF r
  <2>2. ASSUME NEW m \in f[C], m # n PROVE parent[m] \in f[C] /\ r[parent[m]] < r[m]
    <3>1. PICK p \in f[C] : m \in g[p] /\ rank[p] < rank[m]
      BY <1>5, <2>2 DEF Nearer
    <3>2. parent[m] = p /\ p \in live /\ m \in live
      BY <1>4, <3>1
    <3>3. QED
      BY <2>1, <3>1, <3>2
  <2>3. QED
    BY <2>1, <2>2 DEF Climbs
<1>7. QED
  BY <1>3, <1>4, <1>6 DEF C

(* The frames after json_delete was entered for n.                         *)
LEMMA EnterFrames ==
  ASSUME TreeInv, NEW n \in live, NEW frames \in Seq(Frames),
         Enter(frames, n), live' = live, tag' = tag, Len(frames) = Len(stack),
         \A i \in 1..Len(stack) : frames[i].node = stack[i].node
  PROVE  stack' # <<>> /\ \A m : Framed(m)' <=> m = n \/ Framed(m)
<1>1. TypeOK /\ n \in Nodes /\ Len(frames) \in Nat
  BY Known, SMT DEF TreeInv
<1>2. stack' = Append(frames, [node |-> n, next |-> head'[n]]) /\ head'[n] \in Pointers
  BY <1>1, EnterFrame, RemoveKeeps DEF Enter
<1>3. /\ stack' \in Seq(Frames) /\ Len(stack') = Len(frames) + 1
      /\ \A i \in 1..Len(frames) : stack'[i] = frames[i]
      /\ stack'[Len(stack')].node = n
  BY <1>1, <1>2, NewFrame
<1>4. /\ Len(stack') \in 1..Len(stack')
      /\ \A i \in 1..Len(stack) : i \in 1..Len(stack') /\ i \in 1..Len(frames)
      /\ \A i \in 1..Len(stack') : i # Len(stack') => i \in 1..Len(frames) /\ i \in 1..Len(stack)
  BY <1>1, <1>3, SMT
<1>5. stack' # <<>>
  BY <1>1, <1>3, SMT
<1>6. ASSUME NEW m, Framed(m)' PROVE m = n \/ Framed(m)
  BY <1>3, <1>4, <1>6 DEF Framed
<1>7. ASSUME NEW m, m = n \/ Framed(m) PROVE Framed(m)'
  BY <1>3, <1>4, <1>7 DEF Framed
<1>8. QED
  BY <1>5, <1>6, <1>7

LEMMA DeleteCallDoom ==
  ASSUME TreeInv, Doom, NEW n \in Nodes, DeleteCall(n)
  PROVE  Doom'
<1>1. /\ n \in live /\ Enter(<<>>, n) /\ live' = live /\ tag' = tag /\ stack = <<>>
      /\ doomed' = Below(n) /\ TypeOK
  BY DEF DeleteCall, Idle, TreeInv
<1>2. <<>> \in Seq(Frames) /\ Len(<<>>) = Len(stack) /\ 1..Len(stack) = {}
  BY <1>1, SMT
<1>3. stack' # <<>> /\ \A m : Framed(m)' <=> m = n
  BY <1>1, <1>2, EnterFrames DEF Framed
<1>4. /\ parent'[n] = NULL /\ \A m \in Nodes : m # n => parent'[m] = parent[m]
      /\ NULL \notin live /\ live \subseteq Nodes
  BY <1>1, RemoveKeeps, Known DEF Enter
<1>5. /\ doomed' \in SUBSET live /\ n \in doomed'
      /\ \A m \in live : parent[m] \in doomed' => m \in doomed'
  BY <1>1, BelowIs
<1>6. PICK rank \in [Nodes -> Nat] : Climbs(rank, Below(n), n)
  BY <1>1, BelowIs
<1>7. Ranked(rank)'
  BY <1>1, <1>3, <1>4, <1>5, <1>6 DEF Ranked, Climbs
<1>8. \A m \in live' : parent'[m] \in doomed' => m \in doomed'
  BY <1>1, <1>4, <1>5
<1>9. QED
  BY <1>3, <1>4, <1>5, <1>7, <1>8 DEF Doom

LEMMA DeleteChildDoom ==
  ASSUME TreeInv, Doom, DeleteChild
  PROVE  Doom'
<1>1. PICK frames \in Seq(Frames), c \in live, d \in live : ChildFrames(frames, c, d)
  BY ChildEntered
<1>2. /\ Enter(frames, c) /\ live' = live /\ tag' = tag /\ doomed' = doomed
      /\ stack # <<>> /\ Framed(d) /\ parent[c] = d /\ TypeOK
  BY <1>1 DEF ChildFrames, DeleteChild, Idle, TreeInv, Framed
<1>3. stack' # <<>> /\ \A m : Framed(m)' <=> m = c \/ Framed(m)
  BY <1>1, <1>2, EnterFrames DEF ChildFrames
<1>4. /\ parent'[c] = NULL /\ \A m \in Nodes : m # c => parent'[m] = parent[m]
      /\ live \subseteq Nodes /\ NULL \notin Nodes
  BY <1>2, RemoveKeeps, Known DEF Enter
<1>5. c \in doomed
  BY <1>2 DEF Doom
<1>6. PICK rank \in [Nodes -> Nat] : Ranked(rank)
  BY DEF Doom
<1>7. Ranked(rank)'
  BY <1>2, <1>3, <1>4, <1>6 DEF Ranked
<1>8. QED
  BY <1>2, <1>3, <1>4, <1>5, <1>7 DEF Doom

(* json_delete returns from d, which has no children.                      *)
LEMMA Returned ==
  ASSUME TreeInv, DeleteReturn
  PROVE  \E d \in live :
           /\ live' = live \ {d} /\ Framed(d)
           /\ \A m \in live : parent[m] # d
           /\ \A m : Framed(m)' <=> Framed(m) /\ m # d
           /\ IF stack' = <<>> THEN \A m : Framed(m) => m = d ELSE TRUE
           /\ doomed' = IF stack' = <<>> THEN {} ELSE doomed
           /\ UNCHANGED <<tag, links>>
<1> DEFINE l == Len(stack)
           d == stack[l].node
<1>1. /\ TypeOK /\ Lists /\ Parents /\ Deleting
      /\ stack # <<>> /\ stack[l].next = NULL
      /\ live' = live \ {d} /\ stack' = SubSeq(stack, 1, l - 1)
      /\ doomed' = IF l = 1 THEN {} ELSE doomed
      /\ UNCHANGED <<tag, links>>
  BY DEF TreeInv, DeleteReturn, Top, Idle
<1>2. stack \in Seq(Frames) /\ l \in 1..Len(stack) /\ l \in Nat
  <2>1. stack \in Seq(Frames)
    BY <1>1, Known DEF Frames
  <2>2. QED
    BY <1>1, <2>1, SMT
<1>3. /\ Len(stack') = l - 1 /\ stack' \in Seq(Frames)
      /\ \A i \in 1..Len(stack') : stack'[i] = stack[i] /\ i \in 1..Len(stack) /\ i # l
      /\ \A i \in 1..Len(stack) : i # l => i \in 1..Len(stack')
  <2> HIDE DEF Frames, l
  <2>1. l = Len(stack) /\ l # 0
    BY <1>2, SMT DEF l
  <2>2. /\ stack' \in Seq(Frames) /\ Len(stack') = l - 1
        /\ \A i \in 1..(l - 1) : stack'[i] = stack[i]
    BY <1>1, <1>2, <2>1, Popped
  <2>3. \A i \in 1..(l - 1) : i \in 1..Len(stack) /\ i # l
    BY <1>2, <2>1, SMT
  <2>4. \A i \in 1..Len(stack) : i # l => i \in 1..(l - 1)
    BY <1>2, <2>1, SMT
  <2>5. QED
    BY <2>2, <2>3, <2>4
<1>4. d \in live /\ parent[d] = NULL /\ head[d] = NULL /\ d # NULL
  BY <1>1, <1>2, Known DEF Deleting
<1>5. \A m \in live : parent[m] # d
  <2>1. PICK s \in Seq(Nodes) : IsListOf(d, s)
    BY <1>1, <1>4 DEF Lists
  <2>2. 1 \notin 1..Len(s)
    BY <1>1, <1>4, <2>1, Known DEF IsListOf, At
  <2>3. Len(s) \in Nat /\ \A i \in 1..Len(s) : 1 \in 1..Len(s)
    BY SMT
  <2>4. QED
    BY <2>1, <2>2, <2>3 DEF IsListOf
<1>6. stack' = <<>> <=> l = 1
  BY <1>2, <1>3, SMT
<1>7. \A i, j \in 1..Len(stack) : stack[i].node = stack[j].node => i = j
  BY <1>1 DEF Deleting
<1>8. \A m : Framed(m)' <=> Framed(m) /\ m # d
  <2>1. ASSUME NEW m, Framed(m)' PROVE Framed(m) /\ m # d
    BY <1>2, <1>3, <1>7, <2>1 DEF Framed
  <2>2. ASSUME NEW m, Framed(m), m # d PROVE Framed(m)'
    BY <1>2, <1>3, <2>2 DEF Framed
  <2>3. QED
    BY <2>1, <2>2
<1>9. l = 1 => \A m : Framed(m) => m = d
  <2> SUFFICES ASSUME l = 1, NEW m, Framed(m) PROVE m = d
    OBVIOUS
  <2>1. PICK i \in 1..Len(stack) : stack[i].node = m
    BY DEF Framed
  <2>2. i = l
    BY <1>2, SMT
  <2>3. QED
    BY <2>1, <2>2
<1>10. Framed(d)
  BY <1>2 DEF Framed
<1> HIDE DEF l, d
<1>11. QED
  BY <1>1, <1>4, <1>5, <1>6, <1>8, <1>9, <1>10

LEMMA DeleteReturnDoom ==
  ASSUME TreeInv, Doom, DeleteReturn
  PROVE  Doom' /\ Kept' = Kept
<1>1. PICK d \in live :
           /\ live' = live \ {d} /\ Framed(d)
           /\ \A m \in live : parent[m] # d
           /\ \A m : Framed(m)' <=> Framed(m) /\ m # d
           /\ IF stack' = <<>> THEN \A m : Framed(m) => m = d ELSE TRUE
           /\ doomed' = IF stack' = <<>> THEN {} ELSE doomed
           /\ UNCHANGED <<tag, links>>
  BY Returned
<1>2. parent' = parent
  BY <1>1 DEF links
<1>3. PICK rank \in [Nodes -> Nat] : Ranked(rank)
  BY DEF Doom
<1>4. live \subseteq Nodes /\ d \in doomed
  BY <1>1, Known DEF TreeInv, Doom
<1>5. CASE stack' = <<>>
  <2>1. Doom'
    BY <1>1, <1>5, Undoomed
  <2>2. live \cap doomed \subseteq {d}
    <3> DEFINE X == (live \cap doomed) \ {d}
               R == {rank[m] : m \in X}
    <3> SUFFICES ASSUME X # {} PROVE FALSE
      OBVIOUS
    <3>1. R \in SUBSET Nat /\ R # {}
      BY <1>4
    <3>2. PICK r \in R : \A k \in R : r <= k
      BY <3>1, Least
    <3>3. PICK m \in X : r = rank[m]
      OBVIOUS
    <3>4. ~Framed(m)
      BY <1>1, <1>5, <3>3
    <3>5. parent[m] \in live \cap doomed /\ rank[parent[m]] < rank[m]
      BY <1>3, <3>3, <3>4 DEF Ranked
    <3>6. parent[m] # d
      BY <1>1, <3>3
    <3>7. rank[parent[m]] \in R
      BY <3>5, <3>6
    <3>8. r <= rank[parent[m]] /\ r \in Nat /\ rank[parent[m]] \in Nat
      BY <3>1, <3>2, <3>7
    <3>9. QED
      BY <3>3, <3>5, <3>8, SMT
  <2>3. Kept' = Kept
    BY <1>1, <1>4, <1>5, <2>2 DEF Kept
  <2>4. QED
    BY <2>1, <2>3
<1>6. CASE stack' # <<>>
  <2>1. doomed' = doomed
    BY <1>1, <1>6
  <2>2. Ranked(rank)'
    BY <1>1, <1>2, <1>3, <2>1 DEF Ranked
  <2>3. Doom'
    BY <1>1, <1>2, <1>6, <2>1, <2>2 DEF Doom
  <2>4. QED
    BY <1>1, <1>4, <2>1, <2>3 DEF Kept
<1>7. QED
  BY <1>5, <1>6

LEMMA DoomKept == TreeInv /\ Doom /\ [Next]_vars => Doom'
<1> SUFFICES ASSUME TreeInv, Doom, [Next]_vars PROVE Doom'
  OBVIOUS
<1>1. CASE \E n \in Nodes, t \in {"leaf"} \cup Containers : Mknode(n, t)
  BY <1>1, Undoomed DEF Mknode, Idle, Doom
<1>2. CASE \E p, c \in Nodes : AppendElement(p, c) \/ PrependElement(p, c)
  BY <1>2, Undoomed DEF AppendElement, PrependElement, MayAdd, Idle, Doom
<1>3. CASE \E p, c \in Nodes, k \in Names : AppendMember(p, c, k) \/ PrependMember(p, c, k)
  BY <1>3, Undoomed DEF AppendMember, PrependMember, MayAdd, Idle, Doom
<1>4. ASSUME NEW n \in Nodes, Remove(n) PROVE Doom'
  BY <1>4, Undoomed DEF Remove, Idle, Doom
<1>5. ASSUME NEW n \in Nodes, DeleteCall(n) PROVE Doom'
  BY <1>5, DeleteCallDoom
<1>6. CASE DeleteChild
  BY <1>6, DeleteChildDoom
<1>7. CASE DeleteReturn
  BY <1>7, DeleteReturnDoom
<1>8. CASE UNCHANGED vars
  <2>1. PICK rank \in [Nodes -> Nat] : Ranked(rank)
    BY DEF Doom
  <2>2. Ranked(rank)'
    BY <1>8, <2>1 DEF vars, links, Ranked, Framed
  <2>3. QED
    BY <1>8, <2>1, <2>2 DEF vars, links, Doom, Framed
<1>9. QED
  BY <1>1, <1>2, <1>3, <1>4, <1>5, <1>6, <1>7, <1>8 DEF Next

LEMMA DoomInit == Init => Doom
<1> SUFFICES ASSUME Init PROVE Doom
  OBVIOUS
<1>1. stack = <<>> /\ doomed = {} /\ live = {}
  BY DEF Init
<1>2. ~ \E m : Framed(m)
  BY <1>1, SMT DEF Framed
<1>3. [m \in Nodes |-> 0] \in [Nodes -> Nat] /\ Ranked([m \in Nodes |-> 0])
  BY <1>1 DEF Ranked
<1>4. QED
  BY <1>1, <1>2, <1>3 DEF Doom

-----------------------------------------------------------------------------
(* The lists that the forest sees.                                         *)

ListsRead == TypeOK => \A p \in live : \A s : IsListOf(p, s) => Children(p) = s

LEMMA ReadLists == ListsRead
BY WalkMeets DEF ListsRead

LEMMA ReadListsNext == ListsRead'
BY ReadLists, PTL

LEMMA KidsNow ==
  ASSUME TypeOK', NEW p \in live', NEW s, IsListOf(p, s)'
  PROVE  Children(p)' = s
BY ReadListsNext DEF ListsRead

LEMMA KidsStay ==
  ASSUME TreeInv, TypeOK', NEW p \in live, p \in live',
         \A s : IsListOf(p, s) => IsListOf(p, s)'
  PROVE  Children(p)' = Children(p)
<1>1. PICK s \in Seq(Nodes) : IsListOf(p, s)
  BY DEF TreeInv, Lists
<1>2. Children(p) = s
  BY <1>1, WalkMeets DEF TreeInv
<1>3. Children(p)' = s
  BY <1>1, KidsNow
<1>4. QED
  BY <1>2, <1>3

LEMMA KidsAre ==
  ASSUME TreeInv, NEW p \in live
  PROVE  /\ Children(p) \in Seq(Nodes) /\ IsListOf(p, Children(p))
         /\ Forest!ToSet(Children(p)) = {m \in live : parent[m] = p}
<1>1. PICK s \in Seq(Nodes) : IsListOf(p, s)
  BY DEF TreeInv, Lists
<1>2. Children(p) = s
  BY <1>1, WalkMeets DEF TreeInv
<1>3. DOMAIN s = 1..Len(s)
  BY SMT
<1>4. Forest!ToSet(s) = {m \in live : parent[m] = p}
  BY <1>1, <1>3 DEF Forest!ToSet, IsListOf
<1>5. QED
  BY <1>1, <1>2, <1>4

LEMMA Joined ==
  ASSUME NEW x \in Seq(Nodes), NEW y \in Seq(Nodes), NEW a \in Nat, NEW n \in Nat,
         Len(x) = a, Len(x) + Len(y) = n
  PROVE  x \o y = [i \in 1..n |-> IF i <= a THEN x[i] ELSE y[i - a]]
<1> DEFINE z == x \o y
<1>1. /\ z \in Seq(Nodes) /\ Len(z) = Len(x) + Len(y)
      /\ \A i \in 1..Len(x) : z[i] = x[i]
      /\ \A i \in 1..(Len(x) + Len(y)) : i > Len(x) => z[i] = y[i - Len(x)]
  BY SMT
<1> HIDE DEF z
<1>2. z = [i \in 1..n |-> z[i]]
  BY <1>1, SMT
<1>3. ASSUME NEW i \in 1..n PROVE z[i] = IF i <= a THEN x[i] ELSE y[i - a]
  BY <1>1, SMT
<1>4. z = [i \in 1..n |-> IF i <= a THEN x[i] ELSE y[i - a]]
  BY <1>2, <1>3
<1>5. QED
  BY <1>4 DEF z

LEMMA Removed ==
  ASSUME NEW s \in Seq(Nodes), \A i, j \in 1..Len(s) : s[i] = s[j] => i = j,
         NEW k \in 1..Len(s)
  PROVE  Forest!RemoveFirst(s, s[k]) = Cut(s, k)
<1> DEFINE I == {i \in 1..Len(s) : s[i] = s[k]}
<1>1. I = {k}
  OBVIOUS
<1>2. k \in Int /\ k <= k
  BY SMT
<1>3. Forest!RemoveFirst(s, s[k]) = Forest!RemoveAt(s, k)
  <2>1. Forest!SelectInSeq(s, LAMBDA v : v = s[k]) = k
    BY <1>1, <1>2 DEF Forest!SelectInSeq, Forest!Min
  <2>2. \E i \in 1..Len(s) : s[i] = s[k]
    OBVIOUS
  <2>3. QED
    BY <2>1, <2>2 DEF Forest!RemoveFirst
<1> DEFINE n == Len(s)
<1>4. n \in Nat /\ k \in Int /\ 1 <= k /\ k <= n
  BY SMT
<1>5. /\ SubSeq(s, 1, k - 1) \in Seq(Nodes) /\ Len(SubSeq(s, 1, k - 1)) = k - 1
      /\ \A i \in 1..(k - 1) : SubSeq(s, 1, k - 1)[i] = s[i]
  BY <1>4, SMT
<1>6. /\ SubSeq(s, k + 1, n) \in Seq(Nodes) /\ Len(SubSeq(s, k + 1, n)) = n - k
      /\ \A i \in 1..(n - k) : SubSeq(s, k + 1, n)[i] = s[i + k]
  BY <1>4, SMT
<1>7. Forest!RemoveAt(s, k) = SubSeq(s, 1, k - 1) \o SubSeq(s, k + 1, n)
  BY DEF Forest!RemoveAt
<1>8. ASSUME NEW x \in Seq(Nodes), NEW y \in Seq(Nodes), Len(x) = k - 1, Len(y) = n - k,
             \A i \in 1..(k - 1) : x[i] = s[i], \A i \in 1..(n - k) : y[i] = s[i + k]
      PROVE  x \o y = Cut(s, k)
  <2>1. x \o y = [i \in 1..(n - 1) |-> IF i <= k - 1 THEN x[i] ELSE y[i - (k - 1)]]
    <3>1. k - 1 \in Nat /\ n - 1 \in Nat /\ Len(x) + Len(y) = n - 1
      BY <1>4, <1>8, SMT
    <3>2. QED
      BY <1>8, <3>1, Joined
  <2>2. ASSUME NEW i \in 1..(n - 1)
        PROVE  (IF i <= k - 1 THEN x[i] ELSE y[i - (k - 1)]) = IF i < k THEN s[i] ELSE s[i + 1]
    <3>1. CASE i < k
      BY <1>4, <1>8, <3>1, SMT
    <3>2. CASE ~(i < k)
      <4>1. i - (k - 1) \in 1..(n - k) /\ (i - (k - 1)) + k = i + 1 /\ ~(i <= k - 1)
        BY <1>4, <3>2, SMT
      <4>2. y[i - (k - 1)] = s[(i - (k - 1)) + k]
        BY <1>8, <4>1
      <4>3. QED
        BY <3>2, <4>1, <4>2
    <3>3. QED
      BY <3>1, <3>2
  <2>3. QED
    BY <2>1, <2>2 DEF Cut
<1>9. QED
  BY <1>3, <1>5, <1>6, <1>7, <1>8

LEMMA NotThere ==
  ASSUME NEW s \in Seq(Nodes), NEW n, \A i \in 1..Len(s) : s[i] # n
  PROVE  Forest!RemoveFirst(s, n) = s
BY DEF Forest!RemoveFirst

LEMMA AheadJoins ==
  ASSUME NEW s \in Seq(Nodes), NEW c \in Nodes
  PROVE  <<c>> \o s = Ahead(c, s)
<1>1. ASSUME NEW x \in Seq(Nodes), Len(x) = 1, x[1] = c
      PROVE  x \o s = Ahead(c, s)
  <2>1. x \o s = [i \in 1..(Len(s) + 1) |-> IF i <= 1 THEN x[i] ELSE s[i - 1]]
    <3>1. Len(s) \in Nat /\ Len(s) + 1 \in Nat /\ Len(x) + Len(s) = Len(s) + 1
      BY <1>1, SMT
    <3>2. QED
      BY <1>1, <3>1, Joined
  <2>2. ASSUME NEW i \in 1..(Len(s) + 1)
        PROVE  (IF i <= 1 THEN x[i] ELSE s[i - 1]) = IF i = 1 THEN c ELSE s[i - 1]
    BY <1>1, SMT
  <2>3. QED
    BY <2>1, <2>2 DEF Ahead
<1>2. <<c>> \in Seq(Nodes) /\ Len(<<c>>) = 1 /\ <<c>>[1] = c
  BY SMT
<1>3. QED
  BY <1>1, <1>2

(* json_remove_from_parent takes a node out of every list it is in.        *)
LEMMA RemovedKids ==
  ASSUME TreeInv, TypeOK', NEW n \in live, RemoveFromParent(n), live' = live,
         NEW q \in live
  PROVE  Children(q)' = Forest!RemoveFirst(Children(q), n)
<1>1. TypeOK /\ Lists /\ Parents
  BY DEF TreeInv
<1>2. PICK s \in Seq(Nodes) : IsListOf(q, s)
  BY <1>1 DEF Lists
<1>3. Children(q) = s
  BY <1>1, <1>2, WalkMeets
<1>4. /\ \A i, j \in 1..Len(s) : s[i] = s[j] => i = j
      /\ \A i \in 1..Len(s) : parent[s[i]] = q
  BY <1>2 DEF IsListOf
<1>5. q # NULL
  BY <1>1, Known
<1>6. CASE parent[n] = NULL
  <2>1. IsListOf(q, s)'
    BY <1>2, <1>6 DEF RemoveFromParent, links, IsListOf
  <2>2. \A i \in 1..Len(s) : s[i] # n
    BY <1>4, <1>5, <1>6
  <2>3. QED
    BY <1>3, <2>1, <2>2, KidsNow, NotThere
<1>7. CASE parent[n] # NULL
  <2>1. PICK p \in live : p = parent[n]
    BY <1>1, <1>7 DEF Parents
  <2>2. CutFrom(p, n)
    BY <1>7, <2>1 DEF RemoveFromParent
  <2>3. PICK t \in Seq(Nodes) : IsListOf(p, t)
    BY <1>1 DEF Lists
  <2>4. /\ \E k \in 1..Len(t) : t[k] = n /\ IsListOf(p, Cut(t, k))'
        /\ \A m \in live \ {p} : \A u : IsListOf(m, u) => IsListOf(m, u)'
    BY <1>1, <2>1, <2>2, <2>3, CutLists
  <2>5. CASE q = p
    <3>1. Children(q) = t
      BY <1>1, <2>3, <2>5, WalkMeets
    <3>2. PICK k \in 1..Len(t) : t[k] = n /\ IsListOf(p, Cut(t, k))'
      BY <2>4
    <3>3. Children(q)' = Cut(t, k)
      BY <2>5, <3>2, KidsNow
    <3>4. \A i, j \in 1..Len(t) : t[i] = t[j] => i = j
      BY <2>3 DEF IsListOf
    <3>5. Forest!RemoveFirst(t, t[k]) = Cut(t, k)
      BY <3>4, Removed
    <3>6. QED
      BY <3>1, <3>2, <3>3, <3>5
  <2>6. CASE q # p
    <3>1. IsListOf(q, s)'
      BY <1>2, <2>4, <2>6
    <3>2. \A i \in 1..Len(s) : s[i] # n
      BY <1>4, <2>1, <2>6
    <3>3. QED
      BY <1>3, <3>1, <3>2, KidsNow, NotThere
  <2>7. QED
    BY <2>5, <2>6
<1>8. QED
  BY <1>6, <1>7

-----------------------------------------------------------------------------
(* Every step is a step of the forest or does not touch it.                *)

LEMMA ForestInit == Init => Forest!Init
BY DEF Init, Forest!Init, Kept

LEMMA IdleKept ==
  ASSUME TreeInv, Doom, stack = <<>>
  PROVE  Kept = live /\ doomed = {}
BY DEF Doom, Kept

LEMMA MakeStep ==
  ASSUME TreeInv, TreeInv', Doom, NEW n \in Nodes, NEW t \in {"leaf"} \cup Containers,
         Mknode(n, t)
  PROVE  Forest!Make(n, t)
<1>1. /\ Kept = live /\ Kept' = live' /\ live' = live \cup {n} /\ n \notin live
      /\ live \subseteq Nodes /\ tag \in [Nodes -> {"leaf"} \cup Containers]
      /\ tag' = [tag EXCEPT ![n] = t]
  BY IdleKept, Known DEF Mknode, Idle, Kept, TreeInv
<1>2. \A m \in live : Children(m)' = Children(m)
  <2> SUFFICES ASSUME NEW m \in live PROVE Children(m)' = Children(m)
    OBVIOUS
  <2>1. m \in live' /\ TypeOK'
    BY <1>1 DEF TreeInv
  <2>2. QED
    BY <2>1, KidsStay, MknodeLists
<1>3. Children(n)' = <<>>
  <2>1. n \in live' /\ TypeOK' /\ IsListOf(n, <<>>)'
    BY <1>1, MknodeLists DEF TreeInv
  <2>2. QED
    BY <2>1, KidsNow
<1>4. key'[n] = NULL /\ \A m \in live : key'[m] = key[m]
  BY <1>1, NewNode
<1>5. Tags' = [Tags EXCEPT ![n] = t]
  <2>1. \A m \in Nodes : Tags'[m] = IF m = n THEN t ELSE Tags[m]
    BY <1>1 DEF Tags
  <2>2. QED
    BY <2>1 DEF Tags
<1>6. Kids' = Kids
  BY <1>1, <1>2, <1>3 DEF Kids
<1>7. Labels' = Labels
  BY <1>1, <1>4 DEF Labels
<1>8. QED
  BY <1>1, <1>5, <1>6, <1>7 DEF Forest!Make, Tags, Kids, Labels

LEMMA JoinStep ==
  ASSUME TreeInv, TreeInv', Doom, NEW p \in Nodes, NEW c \in Nodes, NEW t \in Containers,
         NEW k \in Names \cup {NULL}, MayAdd(p, c, t), k # NULL <=> t = "object",
         AppendNode(p, c) \/ PrependNode(p, c),
         key' = [key EXCEPT ![c] = k],
         UNCHANGED <<live, tag, stack, doomed>>
  PROVE  /\ Forest!Join(p, c, k)
         /\ AppendNode(p, c) => Kids' = [Kids EXCEPT ![p] = Append(@, c)]
         /\ PrependNode(p, c) => Kids' = [Kids EXCEPT ![p] = <<c>> \o @]
<1>1. /\ Kept = live /\ Kept' = Kept /\ live' = live /\ {p, c} \subseteq live
      /\ tag[p] = t /\ parent[c] = NULL /\ NULL \notin Nodes
      /\ live \subseteq Nodes /\ key \in [Nodes -> Names \cup {NULL}]
      /\ TypeOK /\ TypeOK' /\ Lists
  BY IdleKept, Known DEF MayAdd, Idle, Kept, TreeInv
<1>2. Labels' = [Labels EXCEPT ![c] = k]
  <2>1. \A m \in Nodes : Labels'[m] = IF m = c THEN k ELSE Labels[m]
    BY <1>1 DEF Labels
  <2>2. QED
    BY <2>1 DEF Labels
<1>3. Tags' = Tags /\ Tags[p] = t
  BY <1>1 DEF Tags
<1>4. Forest!IsRoot(c)
  <2>1. ASSUME NEW q \in Nodes PROVE c \notin Forest!ToSet(Kids[q])
    <3>1. CASE q \in live
      BY <1>1, <3>1, KidsAre DEF Kids
    <3>2. CASE q \notin live
      <4>1. Kids[q] = <<>> /\ DOMAIN <<>> = {}
        BY <1>1, <3>2, SMT DEF Kids
      <4>2. QED
        BY <4>1 DEF Forest!ToSet
    <3>3. QED
      BY <3>1, <3>2
  <2>2. QED
    BY <2>1 DEF Forest!IsRoot, Kids
<1>5. Forest!NameFits(p, k)
  BY <1>1, <1>3 DEF Forest!NameFits, Tags, Containers
<1>6. Forest!Join(p, c, k)
  BY <1>1, <1>2, <1>3, <1>4, <1>5 DEF Forest!Join, Tags, Labels
<1>7. PICK s \in Seq(Nodes) : IsListOf(p, s)
  BY <1>1 DEF Lists
<1>8. Children(p) = s
  BY <1>1, <1>7, WalkMeets
<1>9. ASSUME NEW q \in live, q # p PROVE Children(q)' = Children(q)
  <2>1. \A u : IsListOf(q, u) => IsListOf(q, u)'
    BY <1>1, <1>7, <1>9, AppendLists, PrependLists
  <2>2. QED
    BY <1>1, <2>1, KidsStay
<1>10. ASSUME AppendNode(p, c) PROVE Kids' = [Kids EXCEPT ![p] = Append(@, c)]
  <2>1. Children(p)' = Append(s, c)
    BY <1>1, <1>7, <1>10, AppendLists, KidsNow
  <2>2. \A m \in Nodes : Kids'[m] = IF m = p THEN Append(Kids[p], c) ELSE Kids[m]
    BY <1>1, <1>8, <1>9, <2>1 DEF Kids
  <2>3. QED
    BY <2>2 DEF Kids
<1>11. ASSUME PrependNode(p, c) PROVE Kids' = [Kids EXCEPT ![p] = <<c>> \o @]
  <2>1. Children(p)' = <<c>> \o s
    BY <1>1, <1>7, <1>11, PrependLists, KidsNow, AheadJoins
  <2>2. \A m \in Nodes : Kids'[m] = IF m = p THEN <<c>> \o Kids[p] ELSE Kids[m]
    BY <1>1, <1>8, <1>9, <2>1 DEF Kids
  <2>3. QED
    BY <2>2 DEF Kids
<1>12. QED
  BY <1>6, <1>10, <1>11

LEMMA AddStep ==
  ASSUME TreeInv, TreeInv', Doom, NEW p \in Nodes, NEW c \in Nodes, NEW t \in Containers,
         NEW k \in Names \cup {NULL}, MayAdd(p, c, t), k # NULL <=> t = "object",
         AppendNode(p, c) \/ PrependNode(p, c),
         key' = [key EXCEPT ![c] = k],
         UNCHANGED <<live, tag, stack, doomed>>
  PROVE  Forest!AddLast(p, c, k) \/ Forest!AddFirst(p, c, k)
<1>1. CASE AppendNode(p, c)
  BY <1>1, JoinStep DEF Forest!AddLast, Kids
<1>2. CASE PrependNode(p, c)
  BY <1>2, JoinStep DEF Forest!AddFirst, Kids
<1>3. QED
  BY <1>1, <1>2

LEMMA KeysAfter ==
  ASSUME TreeInv, NEW n \in live, RemoveFromParent(n)
  PROVE  key'[n] = NULL /\ \A m \in Nodes : m # n => key'[m] = key[m]
BY Known DEF TreeInv, Parents, RemoveFromParent, CutFrom, links

LEMMA WithoutIs ==
  ASSUME TypeOK, Kept = live, NEW n \in Nodes, NEW q \in Nodes
  PROVE  Forest!Without(n)[q] = IF q \in live THEN Forest!RemoveFirst(Children(q), n) ELSE <<>>
<1>1. Forest!Without(n)[q] = Forest!RemoveFirst(Kids[q], n)
  BY DEF Forest!Without, Kids
<1>2. Forest!RemoveFirst(<<>>, n) = <<>>
  <2>1. <<>> \in Seq(Nodes) /\ 1..Len(<<>>) = {}
    BY SMT
  <2>2. QED
    BY <2>1, NotThere
<1>3. QED
  BY <1>1, <1>2 DEF Kids

LEMMA DetachStep ==
  ASSUME TreeInv, TreeInv', Doom, NEW n \in Nodes, Remove(n)
  PROVE  Forest!Detach(n)
<1>1. /\ Kept = live /\ Kept' = Kept /\ live' = live /\ n \in live /\ tag' = tag
      /\ live \subseteq Nodes /\ TypeOK /\ TypeOK' /\ RemoveFromParent(n)
  BY IdleKept, Known DEF Remove, Idle, Kept, TreeInv
<1>2. Labels' = [Labels EXCEPT ![n] = NULL]
  <2>1. \A m \in Nodes : Labels'[m] = IF m = n THEN NULL ELSE Labels[m]
    BY <1>1, KeysAfter DEF Labels
  <2>2. QED
    BY <2>1 DEF Labels
<1>3. Tags' = Tags
  BY <1>1 DEF Tags
<1>4. Kids' = Forest!Without(n)
  <2>1. ASSUME NEW q \in Nodes PROVE Kids'[q] = Forest!Without(n)[q]
    BY <1>1, RemovedKids, WithoutIs DEF Kids
  <2>2. Kids' = [q \in Nodes |-> Kids'[q]]
    BY DEF Kids
  <2>3. Forest!Without(n) = [q \in Nodes |-> Forest!Without(n)[q]]
    BY DEF Forest!Without
  <2>4. QED
    BY <2>1, <2>2, <2>3
<1>5. QED
  BY <1>1, <1>2, <1>3, <1>4 DEF Forest!Detach, Tags, Kids, Labels

LEMMA SubtreeIs ==
  ASSUME TreeInv, Kept = live, NEW n \in live
  PROVE  Forest!Subtree(n) = Below(n)
<1> DEFINE C == Cardinality(Nodes)
           g == [p \in live |-> {m \in live : parent[m] = p}]
<1>1. C \in Nat /\ live \subseteq Nodes /\ g \in [live -> SUBSET live]
  BY JsonTreeAssumption, Known, FS_CardinalityType DEF TreeInv
<1>2. PICK f \in [0..C -> SUBSET live] : Grows(f, n, g, C)
  <2> HIDE DEF C, g
  <2>1. QED
    BY <1>1, Unfolds
<1>3. \A p \in live : /\ g[p] = {m \in live : parent[m] = p}
                      /\ g[p] = Forest!ToSet(Children(p))
  BY KidsAre
<1> HIDE DEF g
<1>4. Below(n) = f[C]
  BY <1>1, <1>2, <1>3, BelowReads
<1>5. Forest!Subtree(n) = f[C]
  BY <1>1, <1>2, <1>3, SubtreeReads
<1>6. QED
  BY <1>4, <1>5

LEMMA DeleteStep ==
  ASSUME TreeInv, TreeInv', Doom, NEW n \in Nodes, DeleteCall(n)
  PROVE  Forest!Delete(n)
<1> DEFINE gone == Forest!Subtree(n)
<1>1. /\ Kept = live /\ live' = live /\ n \in live /\ tag' = tag
      /\ live \subseteq Nodes /\ TypeOK /\ TypeOK' /\ RemoveFromParent(n)
      /\ doomed' = Below(n)
  BY IdleKept, Known DEF DeleteCall, Enter, Idle, TreeInv
<1>2. gone = Below(n) /\ n \in gone /\ gone \subseteq live
  BY <1>1, SubtreeIs, BelowIs
<1> HIDE DEF gone
<1>3. Kept' = live \ gone
  BY <1>1, <1>2 DEF Kept
<1>4. Tags' = [m \in Nodes |-> IF m \in gone THEN "free" ELSE Tags[m]]
  BY <1>1, <1>3 DEF Tags
<1>5. Labels' = [m \in Nodes |-> IF m \in gone THEN NULL ELSE Labels[m]]
  <2>1. \A m \in Nodes : Labels'[m] = IF m \in gone THEN NULL ELSE Labels[m]
    BY <1>1, <1>2, <1>3, KeysAfter DEF Labels
  <2>2. QED
    BY <2>1 DEF Labels
<1>6. Kids' = [m \in Nodes |-> IF m \in gone THEN <<>> ELSE Forest!Without(n)[m]]
  <2>1. ASSUME NEW q \in Nodes
        PROVE  Kids'[q] = IF q \in gone THEN <<>> ELSE Forest!Without(n)[q]
    BY <1>1, <1>2, <1>3, RemovedKids, WithoutIs DEF Kids
  <2>2. Kids' = [q \in Nodes |-> Kids'[q]]
    BY DEF Kids
  <2>3. QED
    BY <2>1, <2>2
<1>7. QED
  BY <1>1, <1>3, <1>4, <1>5, <1>6 DEF Forest!Delete, Tags, Kids, Labels, gone

LEMMA DeleteChildStutters ==
  ASSUME TreeInv, TreeInv', Doom, DeleteChild
  PROVE  UNCHANGED <<Kept, Tags, Kids, Labels>>
<1>1. PICK frames \in Seq(Frames), c \in live, d \in live : ChildFrames(frames, c, d)
  BY ChildEntered
<1>2. /\ RemoveFromParent(c) /\ live' = live /\ tag' = tag /\ doomed' = doomed
      /\ Framed(d) /\ parent[c] = d /\ TypeOK /\ TypeOK'
      /\ live \subseteq Nodes
  BY <1>1, Known DEF ChildFrames, Enter, DeleteChild, TreeInv, Framed
<1>3. c \in doomed /\ d \in doomed
  BY <1>2 DEF Doom
<1>4. Kept' = Kept /\ Kept \subseteq live /\ c \notin Kept /\ d \notin Kept
  BY <1>2, <1>3 DEF Kept
<1>5. ASSUME NEW q \in Kept PROVE Children(q)' = Children(q)
  <2>1. q \in live /\ q # d
    BY <1>4
  <2>2. Children(q)' = Forest!RemoveFirst(Children(q), c)
    BY <1>2, <2>1, RemovedKids
  <2>3. PICK s \in Seq(Nodes) : s = Children(q) /\ IsListOf(q, s)
    BY <2>1, KidsAre
  <2>4. \A i \in 1..Len(s) : s[i] # c
    BY <1>2, <2>1, <2>3 DEF IsListOf
  <2>5. QED
    BY <2>2, <2>3, <2>4, NotThere
<1>6. Tags' = Tags
  BY <1>2, <1>4 DEF Tags
<1>7. Kids' = Kids
  BY <1>4, <1>5 DEF Kids
<1>8. Labels' = Labels
  BY <1>1, <1>2, <1>4, KeysAfter DEF Labels
<1>9. QED
  BY <1>4, <1>6, <1>7, <1>8

LEMMA DeleteReturnStutters ==
  ASSUME TreeInv, Doom, DeleteReturn
  PROVE  UNCHANGED <<Kept, Tags, Kids, Labels>>
<1>1. Kept' = Kept
  BY DeleteReturnDoom
<1>2. UNCHANGED <<tag, key, head, next>>
  BY DEF DeleteReturn, links
<1>3. \A q : Children(q)' = Children(q)
  BY <1>2 DEF Children, Walk
<1>4. QED
  BY <1>1, <1>2, <1>3 DEF Tags, Kids, Labels

LEMMA StepIsForest ==
  TreeInv /\ TreeInv' /\ Doom /\ [Next]_vars => [Forest!Next]_(Forest!jfvars)
<1> SUFFICES ASSUME TreeInv, TreeInv', Doom, [Next]_vars
             PROVE  Forest!Next \/ UNCHANGED <<Kept, Tags, Kids, Labels>>
  BY DEF Forest!jfvars, Tags, Kids, Labels
<1>1. ASSUME NEW n \in Nodes, NEW t \in {"leaf"} \cup Containers, Mknode(n, t)
      PROVE  Forest!Next
  BY <1>1, MakeStep DEF Forest!Next, Containers
<1>2. ASSUME NEW p \in Nodes, NEW c \in Nodes, NEW t \in Containers,
             NEW k \in Names \cup {NULL}, MayAdd(p, c, t), k # NULL <=> t = "object",
             AppendNode(p, c) \/ PrependNode(p, c),
             key' = [key EXCEPT ![c] = k],
             UNCHANGED <<live, tag, stack, doomed>>
      PROVE  Forest!Next
  <2>1. Forest!AddLast(p, c, k) \/ Forest!AddFirst(p, c, k)
    BY <1>2, AddStep
  <2>2. QED
    BY <2>1 DEF Forest!Next
<1>3. ASSUME NEW p \in Nodes, NEW c \in Nodes, AppendElement(p, c) \/ PrependElement(p, c)
      PROVE  Forest!Next
  <2>1. /\ MayAdd(p, c, "array") /\ (AppendNode(p, c) \/ PrependNode(p, c))
        /\ UNCHANGED <<live, tag, key, stack, doomed>> /\ "array" \in Containers
    BY <1>3 DEF AppendElement, PrependElement, Containers
  <2>2. key' = [key EXCEPT ![c] = NULL] /\ NULL \in Names \cup {NULL}
    <3>1. key \in [Nodes -> Names \cup {NULL}] /\ key[c] = NULL
      BY <2>1, Known DEF TreeInv, Parents, MayAdd
    <3>2. QED
      BY <2>1, <3>1
  <2>3. NULL # NULL <=> "array" = "object"
    OBVIOUS
  <2>4. QED
    BY <1>2, <2>1, <2>2, <2>3
<1>4. ASSUME NEW p \in Nodes, NEW c \in Nodes, NEW k \in Names,
             AppendMember(p, c, k) \/ PrependMember(p, c, k)
      PROVE  Forest!Next
  <2>1. /\ MayAdd(p, c, "object") /\ (AppendNode(p, c) \/ PrependNode(p, c))
        /\ key' = [key EXCEPT ![c] = k]
        /\ UNCHANGED <<live, tag, stack, doomed>> /\ "object" \in Containers
    BY <1>4 DEF AppendMember, PrependMember, Containers
  <2>2. k # NULL <=> "object" = "object"
    BY JsonTreeAssumption
  <2>3. QED
    BY <1>2, <2>1, <2>2
<1>5. ASSUME NEW n \in Nodes, Remove(n) \/ DeleteCall(n) PROVE Forest!Next
  BY <1>5, DetachStep, DeleteStep DEF Forest!Next
<1>6. CASE DeleteChild
  BY <1>6, DeleteChildStutters
<1>7. CASE DeleteReturn
  BY <1>7, DeleteReturnStutters
<1>8. CASE UNCHANGED vars
  BY <1>8 DEF vars, links, Kept, Tags, Kids, Labels, Children, Walk
<1>9. QED
  BY <1>1, <1>3, <1>4, <1>5, <1>6, <1>7, <1>8 DEF Next

LEMMA DoomAlways == Spec => [](TreeInv /\ Doom)
<1>1. Init => TreeInv /\ Doom
  BY InitInv, DoomInit
<1>2. TreeInv /\ Doom /\ [Next]_vars => (TreeInv /\ Doom)'
  BY NextInv, DoomKept
<1>3. QED
  BY <1>1, <1>2, PTL DEF Spec

(* What the links, cut and walked one by one, amount to is a forest: every *)
(* step of json.c is one of its operations or changes nothing of it, and   *)
(* json_delete, however deep, is one of them.                              *)
THEOREM ForestImplemented == Spec => ImplementsForest
<1>1. Init => Forest!Init
  BY ForestInit
<1>2. TreeInv /\ Doom /\ (TreeInv /\ Doom)' /\ [Next]_vars => [Forest!Next]_(Forest!jfvars)
  BY StepIsForest
<1>3. QED
  BY <1>1, <1>2, DoomAlways, PTL DEF Spec, ImplementsForest, Forest!Spec
=============================================================================
