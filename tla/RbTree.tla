-------------------------------- MODULE RbTree --------------------------------
(***************************************************************************)
(* The red-black tree that holds the timers (src/src/js_rbtree.c), with    *)
(* its pointers: insertion and deletion with their repairs, the walk by    *)
(* successors (js_rbtree.h), and the walk of js_timer_expire, which        *)
(* deletes the nodes it passes.                                            *)
(*                                                                         *)
(* A tree t is a record of the fields of all nodes.  One sentinel is every *)
(* leaf and the parent of the root, which is its left child; its right     *)
(* link holds the comparison callback and is no node.  left_rotate and     *)
(* right_rotate, and the two halves of both repairs, are mirror images:    *)
(* each pair is one operator of a side.                                    *)
(***************************************************************************)
EXTENDS Integers, FiniteSets, Sequences

CONSTANTS
  Nodes,  \* the nodes, numbers above 0
  Key     \* what the comparison callback compares

Sentinel == 0
Null     == -1
Cells    == Nodes \cup {Sentinel}
Sides    == {"left", "right"}

ASSUME NodesAssumption == IsFiniteSet(Nodes) /\ \A n \in Nodes : n \in Nat /\ n > 0
ASSUME KeyAssumption   == Key \in [Nodes -> Int]

VARIABLE tree

Other(side) == IF side = "left" THEN "right" ELSE "left"
Root(t)     == t.kid["left"][Sentinel]
InTree(t)   == {n \in Nodes : t.parent[n] # Null}

TypeOK ==
  /\ DOMAIN tree = {"kid", "parent", "red"}
  /\ tree.kid \in [Sides -> [Cells -> Cells \cup {Null}]]
  /\ tree.parent \in [Cells -> Cells \cup {Null}]
  /\ tree.red \subseteq InTree(tree)

Init ==
  tree = [kid    |-> [side \in Sides |-> [c \in Cells |->
                       IF c = Sentinel /\ side = "left" THEN Sentinel ELSE Null]],
          parent |-> [c \in Cells |-> Null],
          red    |-> {}]

-----------------------------------------------------------------------------
(* Links *)

\* js_rbtree_branch_min
BranchMin(t, n) ==
  LET min[m \in InTree(t) \cup {Sentinel}] ==
        IF t.kid["left"][m] = Sentinel THEN m ELSE min[t.kid["left"][m]]
  IN  min[n]

First(t) == BranchMin(t, Sentinel)

\* The climb of js_rbtree_node_successor; it ends at the sentinel after the
\* greatest node, since the root is the sentinel's left child.
Climb(t, n) ==
  LET up[m \in InTree(t)] ==
        IF t.kid["left"][t.parent[m]] = m THEN t.parent[m] ELSE up[t.parent[m]]
  IN  up[n]

Successor(t, n) ==
  IF t.kid["right"][n] # Sentinel THEN BranchMin(t, t.kid["right"][n]) ELSE Climb(t, n)

\* A loop of the code, from the state s of its variables: a pass that has
\* nothing left to do changes nothing.  No loop needs more passes than there
\* are nodes, since each moves on to another one.
Loop(Pass(_), s) ==
  LET after[k \in 0 .. Cardinality(Nodes)] ==
        IF k = 0 THEN s ELSE Pass(after[k - 1])
  IN  after[Cardinality(Nodes)]

SideOf(t, n) == IF t.kid["left"][t.parent[n]] = n THEN "left" ELSE "right"

\* js_rbtree_parent_relink: subst takes the place of n below its parent.
Relink(t, subst, n) ==
  [t EXCEPT !.parent[subst] = t.parent[n],
            !.kid[SideOf(t, n)][t.parent[n]] = subst]

\* Mutant: the parent link of the child that changes sides is not set.
RotateUnlinked(t, side, n) ==
  LET child == t.kid[Other(side)][n]
      u     == [t EXCEPT !.kid[Other(side)][n] = t.kid[side][child],
                         !.kid[side][child] = n]
  IN  [Relink(u, child, n) EXCEPT !.parent[n] = child]

\* js_rbtree_left_rotate and js_rbtree_right_rotate
Rotate(t, side, n) ==
  LET child == t.kid[Other(side)][n]
      inner == t.kid[side][child]
      u     == [t EXCEPT !.kid[Other(side)][n] = inner,
                         !.parent[inner] = n,
                         !.kid[side][child] = n]
  IN  [Relink(u, child, n) EXCEPT !.parent[n] = child]

Blacken(t, S)     == [t EXCEPT !.red = @ \ S]
Redden(t, n)      == [t EXCEPT !.red = @ \cup {n}]
ColourAs(t, n, m) == IF m \in t.red THEN Redden(t, n) ELSE Blacken(t, {n})

-----------------------------------------------------------------------------
(* Insertion *)

\* Mutant: an equal node goes before those that are there.
GoesLeftOfEqual(n, m) == Key[n] <= Key[m]

GoesLeft(n, m) == Key[n] < Key[m]

\* The search for the place of n, a link: a node and a side of it.
Seek(t, n, link) ==
  LET next == t.kid[link[2]][link[1]]
  IN  IF next = Sentinel THEN link
      ELSE <<next, IF GoesLeft(n, next) THEN "left" ELSE "right">>

Place(t, n) == Loop(LAMBDA link : Seek(t, n, link), <<Sentinel, "left">>)

\* One pass of js_rbtree_insert_fixup for the tree t and the red node n; after
\* its rotations, the parent of the node it leaves is black.
InsertPass(t, n) ==
  LET parent == t.parent[n]
      grand  == t.parent[parent]
      side   == SideOf(t, parent)
      uncle  == t.kid[Other(side)][grand]
      inner  == n = t.kid[Other(side)][parent]
      u      == IF inner THEN Rotate(t, side, parent) ELSE t
      top    == IF inner THEN n ELSE parent
      low    == IF inner THEN parent ELSE n
  IN  CASE parent \notin t.red -> [tree |-> t, at |-> n]
        [] parent \in t.red /\ uncle \notin t.red ->
             [tree |-> Rotate(Redden(Blacken(u, {top}), grand), Other(side), grand),
              at   |-> low]
        [] OTHER ->
             [tree |-> Redden(Blacken(t, {uncle, parent}), grand), at |-> grand]

InsertFixup(t, n) ==
  Loop(LAMBDA s : InsertPass(s.tree, s.at), [tree |-> t, at |-> n]).tree

\* js_rbtree_insert
InsertInto(t, n) ==
  LET place == Place(t, n)
      u == [t EXCEPT !.kid["left"][n] = Sentinel,
                     !.kid["right"][n] = Sentinel,
                     !.kid[place[2]][place[1]] = n,
                     !.parent[n] = place[1],
                     !.red = @ \cup {n}]
      v == InsertFixup(u, n)
  IN  Blacken(v, {Root(v)})

-----------------------------------------------------------------------------
(* Deletion *)

\* The end of js_rbtree_delete_fixup, when a child of the sibling on the far
\* side is red.
Settle(t, parent, side) ==
  LET sibling == t.kid[Other(side)][parent]
      u == Blacken(ColourAs(t, sibling, parent),
                   {parent, t.kid[Other(side)][sibling]})
  IN  Rotate(u, side, parent)

\* Mutant: the red child on the near side is not brought over.
NearOverNot(t, sibling, near, far) == Redden(Blacken(t, {near}), sibling)

\* The red child of the sibling on the near side takes its place.
NearOver(t, sibling, near, far) ==
  Rotate(Redden(Blacken(t, {near}), sibling), far, sibling)

\* One pass of js_rbtree_delete_fixup for the tree t and the node n: the paths
\* through n are one black node short.  Null is no node: the function returns
\* from the middle of its loop.
DeletePass(t, n) ==
  LET parent == t.parent[n]
      side   == SideOf(t, n)
      far    == Other(side)
      redSib == t.kid[far][parent]
      u == IF redSib \in t.red
             THEN Rotate(Redden(Blacken(t, {redSib}), parent), side, parent)
             ELSE t
      sibling == u.kid[far][parent]
      near    == u.kid[side][sibling]
      farRed  == u.kid[far][sibling] \in u.red
  IN  CASE n \in t.red \cup {Root(t), Null} -> [tree |-> t, at |-> n]
        [] n \notin t.red \cup {Root(t), Null} /\ farRed ->
             [tree |-> Settle(u, parent, side), at |-> Null]
        [] n \notin t.red \cup {Root(t), Null} /\ ~farRed /\ near \in u.red ->
             [tree |-> Settle(NearOver(u, sibling, near, far), parent, side),
              at   |-> Null]
        [] OTHER -> [tree |-> Redden(u, sibling), at |-> parent]

DeleteFixup(t, n) ==
  LET end == Loop(LAMBDA s : DeletePass(s.tree, s.at), [tree |-> t, at |-> n])
  IN  Blacken(end.tree, {end.at})

\* The node subst, which has left its place, takes the place of n.
Replace(t, subst, n) ==
  LET u == [t EXCEPT !.kid["left"][subst] = t.kid["left"][n],
                     !.kid["right"][subst] = t.kid["right"][n],
                     !.parent[t.kid["left"][n]] = subst,
                     !.parent[t.kid["right"][n]] = subst]
  IN  Relink(ColourAs(u, subst, n), subst, n)

\* Off the tree, a node has no links; its colour, which is not read until it
\* is inserted again, is forgotten.
Unlink(t, n) ==
  [t EXCEPT !.kid["left"][n] = Null, !.kid["right"][n] = Null, !.parent[n] = Null,
            !.red = @ \ {n}]

\* Mutant: the repair is left out.
MendNot(t, child, subst) == t

\* The repair, if the node that left its place was black.
Mend(t, child, wasRed) == IF wasRed THEN t ELSE DeleteFixup(t, child)

\* js_rbtree_delete
DeleteFrom(t, n) ==
  LET two   == t.kid["left"][n] # Sentinel /\ t.kid["right"][n] # Sentinel
      subst == IF two THEN BranchMin(t, t.kid["right"][n]) ELSE n
      child == IF two \/ t.kid["left"][n] = Sentinel
                 THEN t.kid["right"][subst] ELSE t.kid["left"][n]
      u     == Relink(t, child, subst)
      v     == IF two THEN Replace(u, subst, n) ELSE u
  IN  Mend(Unlink(v, n), child, subst \in t.red)

\* The walk of js_timer_expire: the successor is taken before the deletion.
ExpirePass(t, n, k) ==
  IF n = Sentinel \/ Key[n] > k THEN [tree |-> t, at |-> n]
  ELSE [tree |-> DeleteFrom(t, n), at |-> Successor(t, n)]

ExpireTo(t, k) ==
  Loop(LAMBDA s : ExpirePass(s.tree, s.at, k), [tree |-> t, at |-> First(t)]).tree

-----------------------------------------------------------------------------
(* The specification *)

\* js_timer_add
Insert(n) == n \notin InTree(tree) /\ tree' = InsertInto(tree, n)

\* js_timer_delete
Delete(n) == n \in InTree(tree) /\ tree' = DeleteFrom(tree, n)

\* js_timer_expire
Expire(k) == tree' = ExpireTo(tree, k)

Next ==
  \/ \E n \in Nodes : Insert(n)
  \/ \E n \in Nodes : Delete(n)
  \/ \E k \in {Key[n] : n \in Nodes} : Expire(k)

Spec == Init /\ [][Next]_tree

-----------------------------------------------------------------------------
(* Properties *)

\* No link of the tree leads to a node that was taken off it, whose memory is
\* freed with its timer, and parents and children agree; only the sentinel's
\* parent link may be stale, which no operation reads before setting it.
Linked ==
  /\ Root(tree) # Sentinel => tree.parent[Root(tree)] = Sentinel
  /\ \A n \in InTree(tree) :
       /\ tree.parent[n] \in InTree(tree) \cup {Sentinel}
       /\ n \in {tree.kid["left"][tree.parent[n]], tree.kid["right"][tree.parent[n]]}
       /\ \A side \in Sides :
            LET k == tree.kid[side][n]
            IN  k # Sentinel => k \in InTree(tree) /\ tree.parent[k] = n

\* The black nodes and leaves below n, along its left links.
Height(t, n) ==
  LET height[m \in InTree(t) \cup {Sentinel}] ==
        IF m = Sentinel THEN 0
        ELSE LET k == t.kid["left"][m]
             IN  height[k] + (IF k \in t.red THEN 0 ELSE 1)
  IN  height[n]

\* After every operation the tree is balanced: the root is black, a red node
\* has no red child, and all paths to a leaf have as many black nodes; so a
\* search takes at most twice the logarithm of the number of timers.
RedBlack ==
  /\ Root(tree) \notin tree.red
  /\ \A n \in tree.red : \A side \in Sides : tree.kid[side][n] \notin tree.red
  /\ \A n \in InTree(tree) : \A side \in Sides :
       LET k == tree.kid[side][n]
       IN  Height(tree, n) = Height(tree, k) + (IF k \in tree.red THEN 0 ELSE 1)

Walk(t) ==
  LET from[n \in InTree(t) \cup {Sentinel}] ==
        IF n = Sentinel THEN <<>> ELSE <<n>> \o from[Successor(t, n)]
  IN  from[First(t)]

\* The walk of js_timer_find from the first node by successors is the sorted
\* list of the timers: whatever was inserted and deleted, none is lost or met
\* twice, those of the same time stay in the order they were armed in, and the
\* walk that deletes takes exactly those up to the time given.
Sorted == INSTANCE SortedList WITH list <- Walk(tree)

KeepsOrder == Sorted!Spec
=============================================================================
