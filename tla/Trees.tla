-------------------------------- MODULE Trees --------------------------------
(*************************************************************************)
(* The red-black and splay trees of src/Headers/libkern/tree.h.  A tree  *)
(* is a record of the root and the fields of all nodes, and an operation *)
(* an operator on trees; the loops are recursive.  The halves of the     *)
(* code that mirror each other are one definition with the side as       *)
(* parameter.                                                            *)
(*                                                                       *)
(* The color in the low bit of rbe_parent is a field of its own here.    *)
(* The links of a node that has left the tree are cleared: insertion     *)
(* sets all of them, and nothing reads them before.                      *)
(*************************************************************************)
EXTENDS Integers, SequencesExt

CONSTANTS
  Nodes,
  SplayNodes,   \* the nodes used in splay trees, which have more shapes
  MaxIterated,  \* bound: the size of the trees that are iterated over
  Key,          \* what cmp compares; two nodes may have the same
  Null

ASSUME TreesAssumption ==
  Key \in [Nodes -> Int] /\ SplayNodes \subseteq Nodes /\ MaxIterated \in Nat
  /\ Null \notin Nodes /\ 0 \notin Nodes

VARIABLES
  kind,      \* which of the two trees this is
  tree,      \* [root, left, right, parent, red]
  content,   \* history: the nodes in the tree
  it         \* the iteration in progress

vars == <<kind, tree, content, it>>

Temp == 0   \* SPLAY's local __node
Other(s) == IF s = "left" THEN "right" ELSE "left"
Red(T, e) == e # Null /\ e \in T.red
NoIteration == [at |-> Null, ne |-> Null, seen |-> <<>>, from |-> <<>>]

\* The tests of cmp, e against the node n.
Less(e, n) == Key[e] < Key[n]
Same(e, n) == Key[e] = Key[n]
SideOf(e, n) == IF Less(e, n) THEN "left" ELSE "right"

----------------------------------------------------------------------------
\* Red-black trees.

Paint(T, e, red) == [T EXCEPT !.red = IF red THEN @ \cup {e} ELSE @ \ {e}]
RB_SET_BLACKRED(T, black, red) == Paint(Paint(T, black, FALSE), red, TRUE)
SetParent(T, e, p) == IF e = Null THEN T ELSE [T EXCEPT !.parent[e] = p]

\* The link of p that leads to old, or the root, now leads to new.
Relink(T, p, old, new) ==
  IF p = Null THEN [T EXCEPT !.root = new]
  ELSE IF T.left[p] = old THEN [T EXCEPT !.left[p] = new]
  ELSE [T EXCEPT !.right[p] = new]

\* RB_ROTATE_LEFT and RB_ROTATE_RIGHT: elm goes down on side s.
Rotate_KeepsParent(T, elm, s) ==   \* Mutant: the subtree between keeps its parent
  LET tmp == T[Other(s)][elm]
      T1 == [T EXCEPT ![Other(s)][elm] = T[s][tmp]]
      T2 == Relink([T1 EXCEPT !.parent[tmp] = T.parent[elm]], T.parent[elm], elm, tmp)
  IN  [T2 EXCEPT ![s][tmp] = elm, !.parent[elm] = tmp]

Rotate(T, elm, s) ==
  LET tmp == T[Other(s)][elm]
      T1 == SetParent([T EXCEPT ![Other(s)][elm] = T[s][tmp]], T[s][tmp], elm)
      T2 == Relink([T1 EXCEPT !.parent[tmp] = T.parent[elm]], T.parent[elm], elm, tmp)
  IN  [T2 EXCEPT ![s][tmp] = elm, !.parent[elm] = tmp]

RECURSIVE RB_INSERT_COLOR(_, _)
RB_INSERT_COLOR(T, elm) ==
  LET parent == T.parent[elm] IN
  IF ~Red(T, parent) THEN Paint(T, T.root, FALSE)
  ELSE
    LET gparent == T.parent[parent]
        s == IF parent = T.left[gparent] THEN "left" ELSE "right"
        uncle == T[Other(s)][gparent]
        inner == T[Other(s)][parent] = elm
        T1 == IF inner THEN Rotate(T, parent, s) ELSE T
        upper == IF inner THEN elm ELSE parent
        lower == IF inner THEN parent ELSE elm
    IN
    IF Red(T, uncle)
    THEN RB_INSERT_COLOR(RB_SET_BLACKRED(Paint(T, uncle, FALSE), parent, gparent), gparent)
    ELSE RB_INSERT_COLOR(Rotate(RB_SET_BLACKRED(T1, upper, gparent), gparent, Other(s)), lower)

RB_REMOVE_COLOR_Not(T, parent, elm) ==   \* Mutant: no rebalancing
  IF elm = Null THEN T ELSE Paint(T, elm, FALSE)

RECURSIVE RB_REMOVE_COLOR(_, _, _)
RB_REMOVE_COLOR(T, parent, elm) ==
  IF Red(T, elm) \/ elm = T.root
  THEN IF elm = Null THEN T ELSE Paint(T, elm, FALSE)
  ELSE
    LET s == IF T.left[parent] = elm THEN "left" ELSE "right"
        o == Other(s)
        T1 == IF Red(T, T[o][parent]) THEN Rotate(RB_SET_BLACKRED(T, T[o][parent], parent), parent, s)
              ELSE T
        tmp == T1[o][parent]
        inner == T1[s][tmp]
        T2 == IF Red(T1, T1[o][tmp]) THEN T1
              ELSE Rotate(RB_SET_BLACKRED(T1, inner, tmp), tmp, o)
        top == T2[o][parent]
        T3 == Paint(Paint(T2, top, Red(T2, parent)), parent, FALSE)
        T4 == Rotate(IF T3[o][top] = Null THEN T3 ELSE Paint(T3, T3[o][top], FALSE), parent, s)
    IN
    IF ~Red(T1, inner) /\ ~Red(T1, T1[o][tmp])
    THEN RB_REMOVE_COLOR(Paint(T1, tmp, TRUE), T1.parent[parent], parent)
    ELSE Paint(T4, T4.root, FALSE)

RECURSIVE Furthest(_, _, _)
Furthest(T, e, s) == IF T[s][e] = Null THEN e ELSE Furthest(T, T[s][e], s)

\* A node with two children gives its place to its successor.
RB_REMOVE(T, old) ==
  LET two == T.left[old] # Null /\ T.right[old] # Null
      elm == IF two THEN Furthest(T, T.right[old], "left") ELSE old
      child == IF T.left[elm] = Null THEN T.right[elm] ELSE T.left[elm]
      p == T.parent[elm]
      T1 == Relink(SetParent(T, child, p), p, elm, child)
      T2 == Relink([T1 EXCEPT !.left[elm] = T1.left[old], !.right[elm] = T1.right[old],
                              !.parent[elm] = T1.parent[old],
                              !.red = IF old \in @ THEN @ \cup {elm} ELSE @ \ {elm}],
                   T1.parent[old], old, elm)
      T3 == IF two THEN SetParent(SetParent(T2, T2.left[old], elm), T2.right[old], elm) ELSE T1
      parent == IF two /\ p = old THEN elm ELSE p
      T4 == IF Red(T, elm) THEN T3 ELSE RB_REMOVE_COLOR(T3, parent, child)
  IN  [T4 EXCEPT !.left[old] = Null, !.right[old] = Null, !.parent[old] = Null, !.red = @ \ {old}]

\* The last node met on the way down to e, or the one with its key.
RECURSIVE Descend(_, _, _)
Descend(T, e, n) ==
  IF Same(e, n) \/ T[SideOf(e, n)][n] = Null THEN n ELSE Descend(T, e, T[SideOf(e, n)][n])

\* The tree and the node already there, if any.
RB_INSERT(T, elm) ==
  LET parent == IF T.root = Null THEN Null ELSE Descend(T, elm, T.root)
      T1 == [T EXCEPT !.parent[elm] = parent, !.left[elm] = Null, !.right[elm] = Null,
                      !.red = @ \cup {elm}]
      T2 == IF parent = Null THEN [T1 EXCEPT !.root = elm]
            ELSE [T1 EXCEPT ![SideOf(elm, parent)][parent] = elm]
  IN
  IF parent # Null /\ Same(elm, parent) THEN [tree |-> T, ret |-> parent]
  ELSE [tree |-> RB_INSERT_COLOR(T2, elm), ret |-> Null]

RB_FIND(T, e) ==
  LET n == IF T.root = Null THEN Null ELSE Descend(T, e, T.root)
  IN  IF n # Null /\ Same(e, n) THEN n ELSE Null

RECURSIVE NFind(_, _, _, _)
NFind(T, e, n, res) ==
  IF n = Null THEN res
  ELSE IF Same(e, n) THEN n
  ELSE NFind(T, e, T[SideOf(e, n)][n], IF Less(e, n) THEN n ELSE res)
RB_NFIND(T, e) == NFind(T, e, T.root, Null)

\* RB_NEXT with side right and RB_PREV with side left.
RECURSIVE Climb(_, _, _)
Climb(T, e, s) ==
  LET p == T.parent[e] IN IF p # Null /\ e = T[s][p] THEN Climb(T, p, s) ELSE p
RB_STEP(T, e, s) == IF T[s][e] # Null THEN Furthest(T, T[s][e], Other(s)) ELSE Climb(T, e, s)

RB_MINMAX(T, s) == IF T.root = Null THEN Null ELSE Furthest(T, T.root, s)

----------------------------------------------------------------------------
\* Splay trees.  dir[n] is the side of n on which the search goes on.

Toward(e) == [n \in SplayNodes |-> IF Same(e, n) THEN "here" ELSE SideOf(e, n)]
ToEnd(s) == [n \in SplayNodes |-> s]

\* SPLAY_ROTATE_RIGHT for s = left, SPLAY_ROTATE_LEFT for s = right.
SplayRotate(T, s) ==
  LET tmp == T[s][T.root] IN
  [T EXCEPT ![s][T.root] = T[Other(s)][tmp], ![Other(s)][tmp] = T.root, !.root = tmp]

SPLAY_ASSEMBLE(T, hook) ==
  LET T1 == [T EXCEPT !.right[hook.left] = T.left[T.root]]
      T2 == [T1 EXCEPT !.left[hook.right] = T1.right[T.root]]
  IN  [T2 EXCEPT !.left[T.root] = T2.right[Temp], !.right[T.root] = T2.left[Temp],
                 !.left[Temp] = Null, !.right[Temp] = Null]

\* hook.left and hook.right are __left and __right, where the next node that is
\* smaller or greater than what is sought is hung.
RECURSIVE SplayLoop(_, _, _)
SplayLoop(T, dir, hook) ==
  LET s == dir[T.root]
      T1 == IF dir[T[s][T.root]] = s THEN SplayRotate(T, s) ELSE T
      o == Other(s)
  IN
  IF s = "here" THEN SPLAY_ASSEMBLE(T, hook)
  ELSE IF T[s][T.root] = Null THEN SPLAY_ASSEMBLE(T, hook)
  ELSE IF T1[s][T1.root] = Null THEN SPLAY_ASSEMBLE(T1, hook)
  ELSE SplayLoop([T1 EXCEPT ![s][hook[o]] = T1.root, !.root = T1[s][T1.root]],   \* SPLAY_LINKLEFT, -RIGHT
                 dir, [hook EXCEPT ![o] = T1.root])

SPLAY(T, dir) == SplayLoop(T, dir, [left |-> Temp, right |-> Temp])

SPLAY_INSERT(T, elm) ==
  LET T1 == IF T.root = Null THEN T ELSE SPLAY(T, Toward(elm))
      root == T1.root
      s == SideOf(elm, root)
  IN
  IF T.root = Null THEN [tree |-> [T EXCEPT !.root = elm], ret |-> Null]
  ELSE IF Same(elm, root) THEN [tree |-> T1, ret |-> root]
  ELSE [tree |-> [T1 EXCEPT ![s][elm] = T1[s][root], ![Other(s)][elm] = root,
                            ![s][root] = Null, !.root = elm], ret |-> Null]

\* What is removed is the node with elm's key; what is returned is elm.
SPLAY_REMOVE(T, elm) ==
  LET T1 == SPLAY(T, Toward(elm))
      root == T1.root
      left == SPLAY([T1 EXCEPT !.root = T1.left[root]], Toward(elm))
      T2 == IF T1.left[root] = Null THEN [T1 EXCEPT !.root = T1.right[root]]
            ELSE [left EXCEPT !.right[left.root] = T1.right[root]]
  IN
  IF T.root = Null THEN [tree |-> T, gone |-> Null, ret |-> Null]
  ELSE IF ~Same(elm, root) THEN [tree |-> T1, gone |-> Null, ret |-> Null]
  ELSE [tree |-> [T2 EXCEPT !.left[root] = Null, !.right[root] = Null], gone |-> root, ret |-> elm]

SPLAY_FIND(T, e) ==
  LET T1 == SPLAY(T, Toward(e)) IN
  IF T.root = Null THEN [tree |-> T, ret |-> Null]
  ELSE [tree |-> T1, ret |-> IF Same(e, T1.root) THEN T1.root ELSE Null]

SPLAY_NEXT_Here(T, e) ==         \* Mutant: the tree is not splayed first
  [tree |-> T, ret |-> IF T.right[e] = Null THEN Null ELSE Furthest(T, T.right[e], "left")]

SPLAY_NEXT(T, e) ==
  LET T1 == SPLAY(T, Toward(e)) IN
  [tree |-> T1, ret |-> IF T1.right[e] = Null THEN Null ELSE Furthest(T1, T1.right[e], "left")]

\* SPLAY_MIN and SPLAY_MAX.
SPLAY_MIN_MAX(T, s) ==
  LET T1 == SPLAY(T, ToEnd(s)) IN
  IF T.root = Null THEN [tree |-> T, ret |-> Null] ELSE [tree |-> T1, ret |-> T1.root]

----------------------------------------------------------------------------
\* One tree of either kind, and one iteration at a time.

Links == [n \in Nodes \cup {Temp} |-> Null]
Init ==
  /\ kind \in {"rb", "splay"}
  /\ tree = [root |-> Null, left |-> Links, right |-> Links, parent |-> Links, red |-> {}]
  /\ content = {} /\ it = NoIteration

\* The nodes in the tree by their keys.
Sorted ==
  [i \in 1 .. Cardinality(content) |->
     CHOOSE a \in content : Cardinality({b \in content : Less(b, a)}) = i - 1]

\* While an iteration is going on, only the node it is at may leave the tree,
\* and that only under RB_FOREACH_SAFE, which has read the next node before.
MayChange == it = NoIteration

rb_insert(e) ==
  LET r == RB_INSERT(tree, e) IN
  /\ kind = "rb" /\ MayChange /\ e \notin content
  /\ tree' = r.tree /\ content' = (IF r.ret = Null THEN content \cup {e} ELSE content)
  /\ UNCHANGED <<kind, it>>

rb_remove(e) ==
  /\ kind = "rb" /\ e \in content /\ (MayChange \/ it.at = e)
  /\ tree' = RB_REMOVE(tree, e) /\ content' = content \ {e} /\ UNCHANGED <<kind, it>>

splay_insert(e) ==
  LET r == SPLAY_INSERT(tree, e) IN
  /\ kind = "splay" /\ MayChange /\ e \notin content
  /\ tree' = r.tree /\ content' = (IF r.ret = Null THEN content \cup {e} ELSE content)
  /\ UNCHANGED <<kind, it>>

splay_remove(e) ==
  LET r == SPLAY_REMOVE(tree, e) IN
  /\ kind = "splay" /\ MayChange
  /\ tree' = r.tree /\ content' = content \ {r.gone} /\ UNCHANGED <<kind, it>>

\* Lookups move nodes, also during an iteration.
splay_find(e) ==
  kind = "splay" /\ tree' = SPLAY_FIND(tree, e).tree /\ UNCHANGED <<kind, content, it>>

splay_min_max(s) ==
  kind = "splay" /\ tree' = SPLAY_MIN_MAX(tree, s).tree /\ UNCHANGED <<kind, content, it>>

\* RB_FOREACH_SAFE.
rb_foreach_begin ==
  LET x == RB_MINMAX(tree, "left") IN
  /\ kind = "rb" /\ it = NoIteration /\ x # Null /\ Cardinality(content) <= MaxIterated
  /\ it' = [at |-> x, ne |-> RB_STEP(tree, x, "right"), seen |-> <<x>>, from |-> Sorted]
  /\ UNCHANGED <<kind, tree, content>>

rb_foreach_next_Stale ==         \* Mutant: y is the node after the previous x
  /\ kind = "rb" /\ it.at # Null
  /\ it' = IF it.ne = Null THEN NoIteration
           ELSE [it EXCEPT !.at = it.ne, !.ne = RB_STEP(tree, it.at, "right"), !.seen = Append(@, it.ne)]
  /\ UNCHANGED <<kind, tree, content>>

rb_foreach_next ==
  /\ kind = "rb" /\ it.at # Null
  /\ it' = IF it.ne = Null THEN NoIteration
           ELSE [it EXCEPT !.at = it.ne, !.ne = RB_STEP(tree, it.ne, "right"), !.seen = Append(@, it.ne)]
  /\ UNCHANGED <<kind, tree, content>>

\* SPLAY_FOREACH.
splay_foreach_begin ==
  LET r == SPLAY_MIN_MAX(tree, "left") IN
  /\ kind = "splay" /\ it = NoIteration /\ r.ret # Null /\ Cardinality(content) <= MaxIterated
  /\ tree' = r.tree /\ it' = [NoIteration EXCEPT !.at = r.ret, !.seen = <<r.ret>>, !.from = Sorted]
  /\ UNCHANGED <<kind, content>>

splay_foreach_next ==
  LET r == SPLAY_NEXT(tree, it.at) IN
  /\ kind = "splay" /\ it.at # Null /\ tree' = r.tree
  /\ it' = IF r.ret = Null THEN NoIteration
           ELSE [it EXCEPT !.at = r.ret, !.seen = Append(@, r.ret)]
  /\ UNCHANGED <<kind, content>>

Next ==
  \/ \E e \in Nodes : rb_insert(e) \/ rb_remove(e)
  \/ \E e \in SplayNodes : splay_insert(e) \/ splay_remove(e) \/ splay_find(e)
  \/ \E s \in {"left", "right"} : splay_min_max(s)
  \/ rb_foreach_begin \/ rb_foreach_next \/ splay_foreach_begin \/ splay_foreach_next

Spec == Init /\ [][Next]_vars

----------------------------------------------------------------------------
\* Fields have the values they may have, no links lead to SPLAY's local node,
\* and no key is in the tree twice (tree.h:670, 204).
TypeOK ==
  /\ tree.root \in content \cup {Null} /\ tree.red \subseteq content
  /\ \A n \in Nodes : {tree.left[n], tree.right[n], tree.parent[n]} \subseteq content \cup {Null}
  /\ content \subseteq Nodes /\ \A a, b \in content : Same(a, b) => a = b
  /\ it.at \in Nodes \cup {Null} /\ it.ne \in Nodes \cup {Null}

RECURSIVE InOrder(_, _)
InOrder(n, depth) ==
  IF n = Null \/ depth = 0 THEN <<>>
  ELSE InOrder(tree.left[n], depth - 1) \o <<n>> \o InOrder(tree.right[n], depth - 1)

\* After any insertions, removals and, for splay trees, lookups, the tree holds
\* the nodes it should, in the order of their keys, and in a red-black tree
\* parent links lead back (tree.h:186-264, 364-683).
TreeHoldsContent ==
  /\ TypeOK
  /\ InOrder(tree.root, Cardinality(content) + 1) = Sorted
  /\ kind = "rb" => \A n \in content :
       IF tree.parent[n] = Null THEN n = tree.root ELSE n \in {tree.left[tree.parent[n]], tree.right[tree.parent[n]]}

\* The numbers of black nodes, and of all nodes, on the paths down from n.
RECURSIVE Paths(_)
Paths(n) ==
  IF n = Null THEN {[black |-> 0, all |-> 0]}
  ELSE {[black |-> p.black + (IF Red(tree, n) THEN 0 ELSE 1), all |-> p.all + 1] :
          p \in Paths(tree.left[n]) \cup Paths(tree.right[n])}

\* "every search path from the root to a leaf consists of the same number of
\* black nodes", "each red node (except for the root) has a black parent" and
\* "The maximum height of a red-black tree is 2lg (n+1)" (tree.h:77-83), after
\* any insertions and removals.
RedBlack ==
  kind = "rb" =>
    /\ \A p, q \in Paths(tree.root) : p.black = q.black
    /\ \A n \in tree.red : ~Red(tree, tree.parent[n]) /\ n # tree.root
    /\ \A p \in Paths(tree.root) : 2 ^ p.all <= (Cardinality(content) + 1) ^ 2

\* What the lookups return is what the contents say: the node with the key,
\* the least node not below it, the neighbours, the ends (tree.h:150-180,
\* 686-793).
LookupsAgree ==
  LET seq == Sorted
      At(i) == IF i \in DOMAIN seq THEN seq[i] ELSE Null
      Below(e) == Cardinality({n \in content : Less(n, e)})
      AtLeast(e) == At(Below(e) + 1)
      Found(e) == IF \E n \in content : Same(n, e) THEN AtLeast(e) ELSE Null
  IN
  IF kind = "rb"
  THEN /\ \A e \in Nodes : RB_FIND(tree, e) = Found(e) /\ RB_NFIND(tree, e) = AtLeast(e)
       /\ \A n \in content : /\ RB_STEP(tree, n, "right") = At(Below(n) + 2)
                             /\ RB_STEP(tree, n, "left") = At(Below(n))
       /\ RB_MINMAX(tree, "left") = At(1) /\ RB_MINMAX(tree, "right") = At(Len(seq))
  ELSE /\ \A e \in SplayNodes : SPLAY_FIND(tree, e).ret = Found(e)
       /\ \A n \in content : SPLAY_NEXT(tree, n).ret = At(Below(n) + 2)
       /\ SPLAY_MIN_MAX(tree, "left").ret = At(1) /\ SPLAY_MIN_MAX(tree, "right").ret = At(Len(seq))

\* An iteration meets every node once and in order, although the body removes
\* the node it is at from a red-black tree, which may put the saved next node in
\* its place, or looks up other nodes of a splay tree, which turns it upside
\* down (tree.h:314-317, 822-825).
IterationInOrder ==
  it.at # Null =>
    /\ IsPrefix(it.seen, it.from)
    /\ LET ne == IF kind = "rb" THEN it.ne ELSE SPLAY_NEXT(tree, it.at).ret IN
       IF it.seen = it.from THEN ne = Null ELSE ne = it.from[Len(it.seen) + 1]
=============================================================================
