----------------------------- MODULE JsonForest -----------------------------
(***************************************************************************)
(* What json.h promises the caller that builds, edits and deletes values:  *)
(* each container has a sequence of children, a member has a name, a node  *)
(* is a child at most once, and deleting a node removes it and all below   *)
(* it at once and touches nothing else.  No pointers.                      *)
(***************************************************************************)
EXTENDS Naturals, FiniteSets, SequencesExt

CONSTANTS Nodes, Names, NULL

VARIABLES
  alive,    \* nodes that exist
  tags,     \* "leaf", "array", "object"; "free" when the node does not exist
  kids,     \* children, in order
  names     \* a member's name, NULL for any other node

jfvars == <<alive, tags, kids, names>>

Init ==
  /\ alive = {}
  /\ tags = [n \in Nodes |-> "free"]
  /\ kids = [n \in Nodes |-> <<>>]
  /\ names = [n \in Nodes |-> NULL]

IsRoot(n) == \A p \in Nodes : n \notin ToSet(kids[p])

Make(n, t) ==
  /\ n \notin alive
  /\ alive' = alive \cup {n}
  /\ tags' = [tags EXCEPT ![n] = t]
  /\ UNCHANGED <<kids, names>>

NameFits(p, k) == \/ tags[p] = "array" /\ k = NULL
                  \/ tags[p] = "object" /\ k \in Names

(* c, which is nobody's child, becomes a child of p and is called k.       *)
Join(p, c, k) ==
  /\ {p, c} \subseteq alive /\ NameFits(p, k)
  /\ names' = [names EXCEPT ![c] = k]
  /\ UNCHANGED <<alive, tags>>
  /\ IsRoot(c)

AddLast(p, c, k)  == Join(p, c, k) /\ kids' = [kids EXCEPT ![p] = Append(@, c)]
AddFirst(p, c, k) == Join(p, c, k) /\ kids' = [kids EXCEPT ![p] = <<c>> \o @]

Without(n) == [p \in Nodes |-> RemoveFirst(kids[p], n)]

Detach(n) ==
  /\ n \in alive
  /\ names' = [names EXCEPT ![n] = NULL]
  /\ UNCHANGED <<alive, tags>>
  /\ kids' = Without(n)

(* n and everything below it.                                              *)
Subtree(n) ==
  LET reach[i \in 0..Cardinality(Nodes)] ==
        IF i = 0 THEN {n}
        ELSE UNION {{m} \cup ToSet(kids[m]) : m \in reach[i - 1]}
  IN  reach[Cardinality(Nodes)]

Delete(n) ==
  LET gone == Subtree(n) IN
  /\ n \in alive
  /\ alive' = alive \ gone
  /\ tags' = [m \in Nodes |-> IF m \in gone THEN "free" ELSE tags[m]]
  /\ kids' = [m \in Nodes |-> IF m \in gone THEN <<>> ELSE Without(n)[m]]
  /\ names' = [m \in Nodes |-> IF m \in gone THEN NULL ELSE names[m]]

Next ==
  \/ \E n \in Nodes, t \in {"leaf", "array", "object"} : Make(n, t)
  \/ \E p, c \in Nodes, k \in Names \cup {NULL} : AddLast(p, c, k) \/ AddFirst(p, c, k)
  \/ \E n \in Nodes : Detach(n) \/ Delete(n)

Spec == Init /\ [][Next]_jfvars
=============================================================================
