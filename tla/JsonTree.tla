------------------------------ MODULE JsonTree ------------------------------
(***************************************************************************)
(* The values of src/json.c as the heap of nodes they are, and the calls   *)
(* that build, edit and delete them, in any order the assertions allow.    *)
(* json_delete is recursive and runs step by step here, on an explicit     *)
(* stack, because it walks links that it is cutting and nodes that it is   *)
(* freeing.  The fields string_, number_ and bool_ are a leaf's own and    *)
(* are left out.                                                           *)
(***************************************************************************)
EXTENDS Naturals, FiniteSets, Sequences

CONSTANTS
  Nodes,     \* addresses of JsonNodes
  Names,     \* member names
  NULL       \* the null pointer

ASSUME JsonTreeAssumption ==
  NULL \notin Nodes /\ NULL \notin Names /\ IsFiniteSet(Nodes)

VARIABLES
  live,      \* the nodes that are allocated
  tag,       \* JsonTag; "leaf" is any value that is no container
  parent, prev, next,   \* the links of a node
  key,       \* its key, NULL unless it is an object's member
  head, tail,           \* children.head, children.tail
  stack,     \* active calls of json_delete, innermost last: the node being
             \* deleted and the loop's "next" pointer
  doomed     \* history variable: the nodes the running json_delete is to free

links == <<parent, prev, next, key, head, tail>>
vars  == <<live, tag, links, stack, doomed>>

Containers == {"array", "object"}
Pointers   == Nodes \cup {NULL}

Init ==
  /\ live = {}
  /\ tag = [n \in Nodes |-> "leaf"]
  /\ parent = [n \in Nodes |-> NULL]
  /\ prev = [n \in Nodes |-> NULL]
  /\ next = [n \in Nodes |-> NULL]
  /\ key = [n \in Nodes |-> NULL]
  /\ head = [n \in Nodes |-> NULL]
  /\ tail = [n \in Nodes |-> NULL]
  /\ stack = <<>>
  /\ doomed = {}

Idle == stack = <<>>

-----------------------------------------------------------------------------
(* Building.                                                               *)

(* mknode: calloc, so every pointer is NULL.                               *)
Mknode(n, t) ==
  /\ Idle
  /\ n \notin live
  /\ live' = live \cup {n}
  /\ tag' = [tag EXCEPT ![n] = t]
  /\ parent' = [parent EXCEPT ![n] = NULL]
  /\ prev' = [prev EXCEPT ![n] = NULL]
  /\ next' = [next EXCEPT ![n] = NULL]
  /\ key' = [key EXCEPT ![n] = NULL]
  /\ head' = [head EXCEPT ![n] = NULL]
  /\ tail' = [tail EXCEPT ![n] = NULL]
  /\ UNCHANGED <<stack, doomed>>

(* append_node: c becomes the last child of p.                             *)
AppendNode(p, c) ==
  /\ parent' = [parent EXCEPT ![c] = p]
  /\ prev' = [prev EXCEPT ![c] = tail[p]]
  /\ next' = [n \in Nodes |-> IF n = tail[p] THEN c
                              ELSE IF n = c THEN NULL ELSE next[n]]
  /\ head' = IF tail[p] = NULL THEN [head EXCEPT ![p] = c] ELSE head
  /\ tail' = [tail EXCEPT ![p] = c]

(* Slip: the old first child's prev is not set.                            *)
PrependNode_NoBackLink(p, c) ==
  /\ parent' = [parent EXCEPT ![c] = p]
  /\ next' = [next EXCEPT ![c] = head[p]]
  /\ prev' = [prev EXCEPT ![c] = NULL]
  /\ tail' = IF head[p] = NULL THEN [tail EXCEPT ![p] = c] ELSE tail
  /\ head' = [head EXCEPT ![p] = c]

(* prepend_node: c becomes the first child of p.                           *)
PrependNode(p, c) ==
  /\ parent' = [parent EXCEPT ![c] = p]
  /\ next' = [next EXCEPT ![c] = head[p]]
  /\ prev' = [n \in Nodes |-> IF n = head[p] THEN c
                              ELSE IF n = c THEN NULL ELSE prev[n]]
  /\ tail' = IF head[p] = NULL THEN [tail EXCEPT ![p] = c] ELSE tail
  /\ head' = [head EXCEPT ![p] = c]

(* What the assertions of the four functions below demand; in particular   *)
(* they do not keep a root from being added to its own descendant.         *)
MayAdd(p, c, t) == Idle /\ {p, c} \subseteq live /\ tag[p] = t /\ parent[c] = NULL

AppendElement(p, c) ==
  /\ MayAdd(p, c, "array")
  /\ AppendNode(p, c)
  /\ UNCHANGED <<live, tag, key, stack, doomed>>

PrependElement(p, c) ==
  /\ MayAdd(p, c, "array")
  /\ PrependNode(p, c)
  /\ UNCHANGED <<live, tag, key, stack, doomed>>

AppendMember(p, c, k) ==
  /\ MayAdd(p, c, "object")
  /\ key' = [key EXCEPT ![c] = k]
  /\ AppendNode(p, c)
  /\ UNCHANGED <<live, tag, stack, doomed>>

PrependMember(p, c, k) ==
  /\ MayAdd(p, c, "object")
  /\ key' = [key EXCEPT ![c] = k]
  /\ PrependNode(p, c)
  /\ UNCHANGED <<live, tag, stack, doomed>>

-----------------------------------------------------------------------------
(* Taking apart.                                                           *)

(* json_remove_from_parent, of a node that has one.                        *)
CutFrom(p, n) ==
  /\ next' = [m \in Nodes |-> IF m = n THEN NULL
                              ELSE IF m = prev[n] THEN next[n] ELSE next[m]]
  /\ prev' = [m \in Nodes |-> IF m = n THEN NULL
                              ELSE IF m = next[n] THEN prev[n] ELSE prev[m]]
  /\ head' = IF prev[n] = NULL THEN [head EXCEPT ![p] = next[n]] ELSE head
  /\ tail' = IF next[n] = NULL THEN [tail EXCEPT ![p] = prev[n]] ELSE tail
  /\ parent' = [parent EXCEPT ![n] = NULL]
  /\ key' = [key EXCEPT ![n] = NULL]

RemoveFromParent(n) ==
  IF parent[n] # NULL THEN CutFrom(parent[n], n) ELSE UNCHANGED links

Remove(n) ==
  /\ Idle
  /\ n \in live
  /\ RemoveFromParent(n)
  /\ UNCHANGED <<live, tag, stack, doomed>>

(* n and the nodes whose chain of parents leads to n.                      *)
Below(n) ==
  LET reach[i \in 0..Cardinality(Nodes)] ==
        IF i = 0 THEN {n}
        ELSE UNION {{p} \cup {m \in live : parent[m] = p} : p \in reach[i - 1]}
  IN  reach[Cardinality(Nodes)]

(* Slip: the node stays in its parent's list.                              *)
Enter_StaysInParent(frames, n) ==
  /\ stack' = Append(frames, [node |-> n, next |-> head[n]])
  /\ UNCHANGED links

(* The call json_delete(n): n leaves its parent, then the loop starts at   *)
(* its first child.                                                        *)
Enter(frames, n) ==
  /\ RemoveFromParent(n)
  /\ stack' = Append(frames,
                     [node |-> n,
                      next |-> IF tag[n] \in Containers THEN head'[n] ELSE NULL])

DeleteCall(n) ==
  /\ Idle
  /\ n \in live
  /\ Enter(<<>>, n)
  /\ doomed' = Below(n)
  /\ UNCHANGED <<live, tag>>

Top == stack[Len(stack)]

(* Slip: child->next is read after the child was deleted.                  *)
DeleteChild_ReadsLate ==
  /\ ~Idle
  /\ Top.next # NULL
  /\ Enter([stack EXCEPT ![Len(stack)].next = NULL], Top.next)
  /\ UNCHANGED <<live, tag, doomed>>

(* Slip: the loop does not advance.                                        *)
DeleteChild_NoAdvance ==
  /\ ~Idle
  /\ Top.next # NULL
  /\ Enter(stack, Top.next)
  /\ UNCHANGED <<live, tag, doomed>>

(* One turn of the loop: save child->next, then delete the child.          *)
DeleteChild ==
  /\ ~Idle
  /\ Top.next # NULL
  /\ Enter([stack EXCEPT ![Len(stack)].next = next[Top.next]], Top.next)
  /\ UNCHANGED <<live, tag, doomed>>

(* The loop has ended: free(node) and return.                              *)
DeleteReturn ==
  /\ ~Idle
  /\ Top.next = NULL
  /\ live' = live \ {Top.node}
  /\ stack' = SubSeq(stack, 1, Len(stack) - 1)
  /\ doomed' = IF Len(stack) = 1 THEN {} ELSE doomed
  /\ UNCHANGED <<tag, links>>

-----------------------------------------------------------------------------

Next ==
  \/ \E n \in Nodes, t \in {"leaf"} \cup Containers : Mknode(n, t)
  \/ \E p, c \in Nodes : AppendElement(p, c) \/ PrependElement(p, c)
  \/ \E p, c \in Nodes, k \in Names : AppendMember(p, c, k) \/ PrependMember(p, c, k)
  \/ \E n \in Nodes : Remove(n) \/ DeleteCall(n)
  \/ DeleteChild
  \/ DeleteReturn

(* json_delete runs on until it returns; no caller has to do anything.     *)
Spec == Init /\ [][Next]_vars /\ WF_vars(DeleteChild \/ DeleteReturn)

-----------------------------------------------------------------------------

(* The nodes json_foreach visits from n on: n, n->next, ...  It would run  *)
(* for ever on a ring of siblings; a walk is cut at one node too many.     *)
Walk(n) ==
  LET at[i \in 1..(Cardinality(Nodes) + 1)] ==
        IF i = 1 THEN n ELSE IF at[i - 1] = NULL THEN NULL ELSE next[at[i - 1]]
  IN  SubSeq(at, 1, Cardinality({i \in DOMAIN at : at[i] # NULL}))

Children(p) == Walk(head[p])

(* json_check of one node, its messages apart, but for the one problem the *)
(* caller may cause: "node is its own child".                              *)
ChecksOut(p) ==
  LET c == Children(p) IN
  /\ (head[p] = NULL) <=> (tail[p] = NULL)
  /\ head[p] # NULL => prev[head[p]] = NULL
  /\ \A i \in 1..Len(c) :
       /\ next[c[i]] \notin {c[i], head[p]}
       /\ parent[c[i]] = p
       /\ next[c[i]] # NULL => prev[next[c[i]]] = c[i]
       /\ tag[p] = "array" => key[c[i]] = NULL
       /\ tag[p] = "object" => key[c[i]] # NULL
  /\ c # <<>> => c[Len(c)] = tail[p]

(* Parent and child agree: a node that names p as its parent is met by a   *)
(* walk over p's children, exactly once; a node without a parent has no    *)
(* siblings and no key.                                                    *)
ParentMeansChild ==
  \A n \in live :
    IF parent[n] = NULL
    THEN prev[n] = NULL /\ next[n] = NULL /\ key[n] = NULL
    ELSE LET c == Children(parent[n])
         IN  Cardinality({i \in 1..Len(c) : c[i] = n}) = 1

(* Whatever is built, cut and deleted, json_check finds no problem in any  *)
(* container, and what children say of their parents agrees with it, in    *)
(* the middle of a json_delete too.                                        *)
LinksAgree ==
  /\ \A p \in live : tag[p] \in Containers => ChecksOut(p)
  /\ ParentMeansChild

(* No live node and no frame of json_delete points to a freed node, so     *)
(* nothing the functions follow has been freed; a frame's node is still    *)
(* there when the loop over its children ends.                             *)
NoDangling ==
  /\ \A n \in live : {parent[n], prev[n], next[n], head[n], tail[n]} \subseteq live \cup {NULL}
  /\ \A i \in 1..Len(stack) :
       stack[i].node \in live /\ stack[i].next \in live \cup {NULL}

(* A json_delete that was called returns.                                  *)
DeleteEnds == (stack # <<>>) ~> (stack = <<>>)

(* The pointers implement ordered forests; json_delete is one atomic step  *)
(* of theirs: at its first step all nodes below n are gone from the        *)
(* forest, and when it returns they have been freed, each of them.         *)
Kept == live \ doomed
Forest == INSTANCE JsonForest WITH
            alive <- Kept,
            tags  <- [n \in Nodes |-> IF n \in Kept THEN tag[n] ELSE "free"],
            kids  <- [n \in Nodes |-> IF n \in Kept THEN Children(n) ELSE <<>>],
            names <- [n \in Nodes |-> IF n \in Kept THEN key[n] ELSE NULL]
ImplementsForest == Forest!Spec
=============================================================================
