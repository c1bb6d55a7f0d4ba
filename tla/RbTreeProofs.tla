----------------------------- MODULE RbTreeProofs -----------------------------
(***************************************************************************)
(* Proofs about the red-black tree: whatever was inserted, deleted and     *)
(* expired, the links make a tree, it is balanced, and its walk is the     *)
(* sorted list.                                                            *)
(*                                                                         *)
(* The invariant is RbInv: an order g of the nodes and heights b fit the   *)
(* tree (Balanced).  The order gives each node its position from left to   *)
(* right and the positions its subtree spans, so that the shape of the     *)
(* tree, a recursive notion, becomes a statement about each node and its   *)
(* children; in the same way the heights stand for the black nodes of all  *)
(* paths.  A rotation keeps every position and changes two spans; an       *)
(* insertion opens a position and a deletion closes one.  The loops end    *)
(* because each pass moves to a node of a wider span, so the passes Loop   *)
(* allows are never used up.                                               *)
(***************************************************************************)
EXTENDS RbTree, SumProofs, SequenceTheorems

\* The records the links and colours of a tree range over.
Trees == [kid    : [Sides -> [Cells -> Cells \cup {Null}]],
          parent : [Cells -> Cells \cup {Null}],
          red    : SUBSET Nodes]

-----------------------------------------------------------------------------
(* What the operations on links do, link by link *)

\* The two sides are each the other one's other.
LEMMA Sides2 == \A s \in Sides : Other(s) \in Sides /\ Other(s) # s /\ Other(Other(s)) = s
BY DEF Sides, Other

\* js_rbtree_parent_relink, link by link.
LEMMA RelinkIs ==
  ASSUME NEW t \in Trees, NEW subst \in Cells, NEW n \in Cells,
         t.parent[n] \in Cells, NEW u, Relink(t, subst, n) = u
  PROVE  /\ u \in Trees
         /\ u.red = t.red
         /\ \A s \in Sides, c \in Cells :
              u.kid[s][c] = IF c = t.parent[n] /\ s = SideOf(t, n)
                              THEN subst ELSE t.kid[s][c]
         /\ \A c \in Cells :
              u.parent[c] = IF c = subst THEN t.parent[n] ELSE t.parent[c]
<1>1. SideOf(t, n) \in Sides
  BY DEF SideOf, Sides
<1> QED BY <1>1, Zenon DEF Relink, Trees

\* A rotation, link by link, from the three nodes and the subtree it moves.
LEMMA RotateIs ==
  ASSUME NEW t \in Trees, NEW side \in Sides, NEW n \in Nodes, NEW child \in Nodes,
         NEW inner \in Cells, NEW p \in Cells,
         child = t.kid[Other(side)][n], inner = t.kid[side][child],
         p = t.parent[n], p # n, p # child, n # child, inner # n,
         NEW u, Rotate(t, side, n) = u
  PROVE  /\ u \in Trees
         /\ u.red = t.red
         /\ \A s \in Sides, c \in Cells :
              u.kid[s][c] = IF c = n /\ s = Other(side) THEN inner
                            ELSE IF c = child /\ s = side THEN n
                            ELSE IF c = p /\ s = SideOf(t, n) THEN child
                            ELSE t.kid[s][c]
         /\ \A c \in Cells :
              u.parent[c] = IF c = n THEN child
                            ELSE IF c = child THEN p
                            ELSE IF c = inner THEN n
                            ELSE t.parent[c]
<1>1. n \in Cells /\ child \in Cells /\ Other(side) \in Sides /\ Other(side) # side
  BY Sides2 DEF Cells
<1>2. PICK v : v = [t EXCEPT !.kid[Other(side)][n] = inner,
                             !.parent[inner] = n,
                             !.kid[side][child] = n]
  OBVIOUS
<1>3. /\ v \in Trees
      /\ v.red = t.red
      /\ \A s \in Sides, c \in Cells :
           v.kid[s][c] = IF c = n /\ s = Other(side) THEN inner
                         ELSE IF c = child /\ s = side THEN n
                         ELSE t.kid[s][c]
      /\ \A c \in Cells : v.parent[c] = IF c = inner THEN n ELSE t.parent[c]
  BY <1>1, <1>2, ZenonT(30) DEF Trees
<1>4. v.parent[n] = p
  BY <1>1, <1>3
<1>5. SideOf(v, n) = SideOf(t, n)
  BY <1>1, <1>3, <1>4 DEF SideOf, Sides
<1>6. PICK w : Relink(v, child, n) = w
  OBVIOUS
<1>7. /\ w \in Trees
      /\ w.red = v.red
      /\ \A s \in Sides, c \in Cells :
           w.kid[s][c] = IF c = v.parent[n] /\ s = SideOf(v, n)
                           THEN child ELSE v.kid[s][c]
      /\ \A c \in Cells :
           w.parent[c] = IF c = child THEN v.parent[n] ELSE v.parent[c]
  <2>1. v.parent[n] \in Cells
    BY <1>4
  <2> QED BY SMTT(30), <1>1, <1>3, <1>6, <2>1, RelinkIs
<1>8. u = [w EXCEPT !.parent[n] = child]
  BY <1>2, <1>6, Zenon DEF Rotate
<1>9. /\ u \in Trees
      /\ u.red = w.red
      /\ u.kid = w.kid
      /\ \A c \in Cells : u.parent[c] = IF c = n THEN child ELSE w.parent[c]
  <2>1. w \in Trees
    BY <1>7
  <2>2. u.parent = [w.parent EXCEPT ![n] = child] /\ u.red = w.red /\ u.kid = w.kid
        /\ u \in Trees
    BY SMTT(30), <1>1, <1>8, <2>1 DEF Trees
  <2>3. w.parent \in [Cells -> Cells \cup {Null}]
    BY <2>1 DEF Trees
  <2> QED BY <1>1, <2>2, <2>3
<1> QED BY <1>1, <1>3, <1>4, <1>5, <1>7, <1>9

-----------------------------------------------------------------------------
(* The shape of the links *)

\* InTree, and with the sentinel, of the parent links alone.
InNodes(parent) == {n \in Nodes : parent[n] # Null}
InCells(parent) == InNodes(parent) \cup {Sentinel}

\* An order of the cells of a tree: the cell at each position, its position,
\* and the positions its subtree spans.
Orders == [at : UNION {[1 .. m -> Cells] : m \in Nat}, size : Nat,
           pos : [Cells -> Int], lo : [Cells -> Int], hi : [Cells -> Int]]

\* The positions agree with one another; the sentinel, which every node is
\* left of, is last.
Numbered(parent, g) ==
  /\ g \in Orders
  /\ g.pos[Sentinel] = g.size /\ g.lo[Sentinel] = 1 /\ g.hi[Sentinel] = g.size
  /\ \A i \in 1 .. g.size : g.at[i] \in InCells(parent) /\ g.pos[g.at[i]] = i
  /\ \A c \in InCells(parent) :
       /\ 1 <= g.lo[c] /\ g.lo[c] <= g.pos[c] /\ g.pos[c] <= g.hi[c] /\ g.hi[c] <= g.size
       /\ g.at[g.pos[c]] = c
       /\ c # Sentinel => g.hi[c] < g.size

\* The left subtree fills the positions before its node,
LeftOf(kid, parent, g, c) ==
  LET k == kid["left"][c]
  IN  /\ k \in InCells(parent)
      /\ k = Sentinel => g.lo[c] = g.pos[c]
      /\ k # Sentinel => parent[k] = c /\ g.lo[k] = g.lo[c] /\ g.hi[k] = g.pos[c] - 1

\* the right subtree those behind it,
RightOf(kid, parent, g, c) ==
  LET k == kid["right"][c]
  IN  /\ k \in InCells(parent)
      /\ k = Sentinel => g.hi[c] = g.pos[c]
      /\ k # Sentinel => parent[k] = c /\ g.lo[k] = g.pos[c] + 1 /\ g.hi[k] = g.hi[c]

\* and a node is a child of its parent.
Below(kid, parent, n) ==
  /\ parent[n] \in InCells(parent)
  /\ kid["left"][parent[n]] = n \/ (parent[n] # Sentinel /\ kid["right"][parent[n]] = n)

\* The links make a tree whose nodes, read from left to right, are those of
\* the order g.  Nothing here is recursive: the spans take the place of an
\* induction on subtrees.
Shape(kid, parent, g) ==
  /\ kid \in [Sides -> [Cells -> Cells \cup {Null}]]
  /\ parent \in [Cells -> Cells \cup {Null}]
  /\ kid["right"][Sentinel] = Null
  /\ Numbered(parent, g)
  /\ \A c \in InCells(parent) : LeftOf(kid, parent, g, c)
  /\ \A n \in InNodes(parent) : RightOf(kid, parent, g, n) /\ Below(kid, parent, n)

\* What every proof below needs to know of nodes, cells and sides.
LEMMA CellFacts ==
  /\ Sentinel \in Cells /\ Null \notin Cells /\ Sentinel \notin Nodes
  /\ Cells = Nodes \cup {Sentinel}
  /\ \A parent : InNodes(parent) \subseteq Nodes /\ InCells(parent) \subseteq Cells
                 /\ Sentinel \in InCells(parent)
  /\ \A parent, c : c \in InCells(parent) /\ c # Sentinel => c \in InNodes(parent)
  /\ \A parent, c : c \in InNodes(parent) => c \in InCells(parent) /\ c # Sentinel
  /\ Sides = {"left", "right"} /\ "left" # "right"
BY NodesAssumption DEF Cells, Sentinel, Null, InNodes, InCells, Sides

\* The numbers of a child lie within those of its parent, without the
\* parent's own.
LEMMA Nested ==
  ASSUME NEW kid, NEW parent, NEW g, Shape(kid, parent, g),
         NEW n \in InNodes(parent)
  PROVE  /\ g.lo[n] \in Int /\ g.hi[n] \in Int /\ g.lo[n] <= g.hi[n]
         /\ parent[n] \in InCells(parent)
         /\ g.lo[parent[n]] \in Int /\ g.hi[parent[n]] \in Int /\ g.pos[parent[n]] \in Int
         /\ g.lo[parent[n]] <= g.lo[n] /\ g.hi[n] <= g.hi[parent[n]]
         /\ g.hi[n] < g.pos[parent[n]] \/ g.pos[parent[n]] < g.lo[n]
         /\ g.hi[n] - g.lo[n] < g.hi[parent[n]] - g.lo[parent[n]]
<1> DEFINE p == parent[n]
<1>1. p \in InCells(parent) /\ (kid["left"][p] = n \/ (p # Sentinel /\ kid["right"][p] = n))
  BY DEF Shape, Below
<1> HIDE DEF p
<1>2. n \in Cells /\ p \in Cells /\ n # Sentinel /\ n \in InCells(parent)
  BY <1>1, CellFacts
<1>3. g \in Orders
  BY DEF Shape, Numbered
<1>4. /\ g.lo[n] \in Int /\ g.hi[n] \in Int /\ g.lo[p] \in Int /\ g.hi[p] \in Int
      /\ g.pos[p] \in Int /\ g.pos[n] \in Int
  BY <1>2, <1>3 DEF Orders
<1>5. /\ g.lo[p] <= g.pos[p] /\ g.pos[p] <= g.hi[p]
      /\ g.lo[n] <= g.pos[n] /\ g.pos[n] <= g.hi[n]
  BY <1>1, <1>2 DEF Shape, Numbered
<1>6. CASE kid["left"][p] = n
  <2>1. g.lo[n] = g.lo[p] /\ g.hi[n] = g.pos[p] - 1
    BY <1>1, <1>2, <1>6 DEF Shape, LeftOf
  <2> QED BY <1>1, <1>4, <1>5, <2>1 DEF p
<1>7. CASE p # Sentinel /\ kid["right"][p] = n
  <2>1. p \in InNodes(parent)
    BY <1>1, <1>7, CellFacts
  <2>2. g.lo[n] = g.pos[p] + 1 /\ g.hi[n] = g.hi[p]
    BY <1>2, <1>7, <2>1 DEF Shape, RightOf
  <2> QED BY <1>1, <1>4, <1>5, <2>2 DEF p
<1> QED BY <1>1, <1>6, <1>7

\* A node is the child of its parent, on the side SideOf reads off the links.
LEMMA UpFacts ==
  ASSUME NEW t \in Trees, NEW g, Shape(t.kid, t.parent, g), NEW n \in InTree(t)
  PROVE  /\ n \in Nodes /\ n \in Cells /\ n # Sentinel
         /\ t.parent[n] \in InCells(t.parent) /\ t.parent[n] \in Cells
         /\ t.parent[n] # n
         /\ SideOf(t, n) \in Sides
         /\ t.kid[SideOf(t, n)][t.parent[n]] = n
         /\ t.parent[n] = Sentinel => SideOf(t, n) = "left"
<1>1. n \in InNodes(t.parent)
  BY DEF InTree, InNodes
<1>2. Below(t.kid, t.parent, n)
  BY <1>1 DEF Shape
<1>3. t.parent[n] # n
  BY <1>1, Nested
<1> QED BY <1>1, <1>2, <1>3, CellFacts DEF Below, SideOf

\* A child that is a node has its parent as parent and differs from the nodes
\* around it.
LEMMA DownFacts ==
  ASSUME NEW t \in Trees, NEW g, Shape(t.kid, t.parent, g), NEW n \in InTree(t),
         NEW s \in Sides, NEW k, t.kid[s][n] = k
  PROVE  /\ k \in InCells(t.parent) /\ k \in Cells
         /\ k # Sentinel =>
              /\ k \in InTree(t) /\ k \in Nodes /\ t.parent[k] = n
              /\ k # n /\ k # t.parent[n] /\ t.kid[Other(s)][n] # k
              /\ SideOf(t, k) = s
<1>1. n \in InNodes(t.parent) /\ n \in InCells(t.parent)
  BY CellFacts DEF InTree, InNodes
<1>2. LeftOf(t.kid, t.parent, g, n) /\ RightOf(t.kid, t.parent, g, n)
  BY <1>1 DEF Shape
<1>3. k \in InCells(t.parent) /\ (k # Sentinel => t.parent[k] = n)
  BY <1>2, CellFacts DEF LeftOf, RightOf
<1>4. ASSUME k # Sentinel PROVE k \in InNodes(t.parent)
  BY <1>3, <1>4, CellFacts
<1>5. ASSUME k # Sentinel PROVE k # n /\ k # t.parent[n]
  <2>1. g.hi[k] - g.lo[k] < g.hi[n] - g.lo[n] /\ g.hi[k] \in Int /\ g.lo[k] \in Int
        /\ g.hi[n] \in Int /\ g.lo[n] \in Int
    BY <1>3, <1>4, <1>5, Nested
  <2>2. g.hi[n] - g.lo[n] < g.hi[t.parent[n]] - g.lo[t.parent[n]]
        /\ g.hi[t.parent[n]] \in Int /\ g.lo[t.parent[n]] \in Int
    BY <1>1, Nested
  <2>3. k # n
    BY <2>1
  <2>4. ASSUME k = t.parent[n] PROVE FALSE
    BY <2>1, <2>2, <2>4
  <2> QED BY <2>3, <2>4
<1>6. ASSUME k # Sentinel PROVE t.kid[Other(s)][n] # k
  <2>1. g \in Orders /\ n \in Cells
    BY <1>1, CellFacts DEF Shape, Numbered
  <2>2. g.lo[n] \in Int /\ g.pos[n] \in Int /\ g.lo[n] <= g.pos[n]
    BY <1>1, <2>1 DEF Shape, Numbered, Orders
  <2>3. ~(t.kid["left"][n] = k /\ t.kid["right"][n] = k)
    BY <1>2, <1>6, <2>2 DEF LeftOf, RightOf
  <2> QED BY <2>3, CellFacts DEF Other
<1>7. ASSUME k # Sentinel PROVE SideOf(t, k) = s
  BY <1>3, <1>6, <1>7, CellFacts DEF SideOf, Other
<1> QED BY <1>3, <1>4, <1>5, <1>6, <1>7, CellFacts DEF InTree, InNodes

\* Children, and whose they are.
LEMMA KidFacts ==
  ASSUME NEW t \in Trees, NEW g, Shape(t.kid, t.parent, g)
  PROVE  \A m \in InTree(t), q \in Sides :
           /\ t.kid[q][m] \in Cells
           /\ t.kid[q][m] # Sentinel =>
                /\ t.kid[q][m] \in InTree(t) /\ t.parent[t.kid[q][m]] = m
                /\ SideOf(t, t.kid[q][m]) = q
                /\ t.kid[q][m] # m /\ t.kid[q][m] # t.parent[m]
<1> SUFFICES ASSUME NEW m \in InTree(t), NEW q \in Sides, NEW k, t.kid[q][m] = k
             PROVE  /\ k \in Cells
                    /\ k # Sentinel => /\ k \in InTree(t) /\ t.parent[k] = m
                                       /\ SideOf(t, k) = q
                                       /\ k # m /\ k # t.parent[m]
  OBVIOUS
<1> QED BY DownFacts

\* The links of u are those of t turned about n.
Turned(t, u, side, n) ==
  LET child == t.kid[Other(side)][n]
      inner == t.kid[side][child]
      p     == t.parent[n]
  IN  /\ \A s \in Sides, c \in Cells :
           u.kid[s][c] = IF c = n /\ s = Other(side) THEN inner
                         ELSE IF c = child /\ s = side THEN n
                         ELSE IF c = p /\ s = SideOf(t, n) THEN child
                         ELSE t.kid[s][c]
      /\ \A c \in Cells :
           u.parent[c] = IF c = n THEN child
                         ELSE IF c = child THEN p
                         ELSE IF c = inner THEN n
                         ELSE t.parent[c]

\* In a tree, left_rotate and right_rotate turn it and keep its nodes.
LEMMA RotateTurns ==
  ASSUME NEW t \in Trees, NEW g, Shape(t.kid, t.parent, g),
         NEW side \in Sides, NEW n \in InTree(t),
         t.kid[Other(side)][n] # Sentinel, NEW u, Rotate(t, side, n) = u
  PROVE  u \in Trees /\ u.red = t.red /\ Turned(t, u, side, n) /\ InTree(u) = InTree(t)
<1> DEFINE child == t.kid[Other(side)][n]
           inner == t.kid[side][child]
           p     == t.parent[n]
<1>1. Other(side) \in Sides /\ Other(Other(side)) = side
  BY Sides2
<1>2. child \in InTree(t) /\ child \in Nodes /\ child # n /\ child # p /\ t.parent[child] = n
  BY <1>1, DownFacts
<1>3. inner \in Cells /\ inner # n
  <2>1. inner \in Cells
    BY <1>2, DownFacts
  <2>2. n # t.parent[child] => inner # n
    BY <1>2
  <2>3. ASSUME inner = n PROVE FALSE
    <3>1. t.parent[n] = child
      BY <1>2, <2>3, DownFacts, UpFacts
    <3> QED BY <1>2, <3>1
  <2> QED BY <2>1, <2>3
<1>4. n \in Nodes /\ p \in Cells /\ p # n
  BY UpFacts
<1> HIDE DEF child, inner, p
<1>5. /\ u \in Trees
      /\ u.red = t.red
      /\ \A s \in Sides, c \in Cells :
           u.kid[s][c] = IF c = n /\ s = Other(side) THEN inner
                         ELSE IF c = child /\ s = side THEN n
                         ELSE IF c = p /\ s = SideOf(t, n) THEN child
                         ELSE t.kid[s][c]
      /\ \A c \in Cells :
           u.parent[c] = IF c = n THEN child
                         ELSE IF c = child THEN p
                         ELSE IF c = inner THEN n
                         ELSE t.parent[c]
  <2>1. child = t.kid[Other(side)][n] /\ inner = t.kid[side][child] /\ p = t.parent[n]
    BY DEF child, inner, p
  <2> QED BY SMTT(30), <1>2, <1>3, <1>4, <2>1, RotateIs
<1>6. Turned(t, u, side, n)
  BY <1>5 DEF Turned, child, inner, p
<1>7. InTree(u) = InTree(t)
  <2>1. \A c \in Nodes : u.parent[c] # Null <=> t.parent[c] # Null
    <3>1. inner # Sentinel => inner \in InTree(t)
      BY <1>2, DownFacts DEF inner
    <3>2. n \in Cells /\ child \in Cells /\ Null \notin Cells /\ Nodes \subseteq Cells /\ Sentinel \notin Nodes
      BY <1>2, <1>4, CellFacts
    <3> QED BY <1>2, <1>4, <1>5, <3>1, <3>2 DEF InTree
  <2> QED BY <2>1 DEF InTree
<1> QED BY <1>5, <1>6, <1>7

\* The numbers after the rotation of n toward side, below which child comes up.
TurnedOrder(g, h, side, n, child) ==
  /\ h.at = g.at /\ h.size = g.size /\ h.pos = g.pos
  /\ \A c \in Cells : c \notin {n, child} => h.lo[c] = g.lo[c] /\ h.hi[c] = g.hi[c]
  /\ h.lo[child] = g.lo[n] /\ h.hi[child] = g.hi[n]
  /\ h.lo[n] = IF side = "left" THEN g.lo[n] ELSE g.pos[child] + 1
  /\ h.hi[n] = IF side = "left" THEN g.pos[child] - 1 ELSE g.hi[n]

\* A turned order exists.
LEMMA OrderTurns ==
  ASSUME NEW g \in Orders, NEW side, NEW n \in Cells, NEW child \in Cells, n # child
  PROVE  \E h \in Orders : TurnedOrder(g, h, side, n, child)
<1> DEFINE lo == [g.lo EXCEPT ![child] = g.lo[n],
                              ![n] = IF side = "left" THEN g.lo[n] ELSE g.pos[child] + 1]
           hi == [g.hi EXCEPT ![child] = g.hi[n],
                              ![n] = IF side = "left" THEN g.pos[child] - 1 ELSE g.hi[n]]
           h  == [at |-> g.at, size |-> g.size, pos |-> g.pos, lo |-> lo, hi |-> hi]
<1>1. g.lo \in [Cells -> Int] /\ g.hi \in [Cells -> Int] /\ g.pos \in [Cells -> Int]
  BY DEF Orders
<1>2. lo \in [Cells -> Int] /\ hi \in [Cells -> Int]
  BY <1>1
<1>3. /\ \A c \in Cells : c \notin {n, child} => lo[c] = g.lo[c] /\ hi[c] = g.hi[c]
      /\ lo[child] = g.lo[n] /\ hi[child] = g.hi[n]
      /\ lo[n] = IF side = "left" THEN g.lo[n] ELSE g.pos[child] + 1
      /\ hi[n] = IF side = "left" THEN g.pos[child] - 1 ELSE g.hi[n]
  BY <1>1
<1> HIDE DEF lo, hi
<1>4. h \in Orders
  BY <1>2, Zenon DEF Orders
<1>5. TurnedOrder(g, h, side, n, child)
  BY <1>3 DEF TurnedOrder
<1> QED BY <1>4, <1>5

\* A rotation leaves every node at its position.
LEMMA RotateShape ==
  ASSUME NEW t \in Trees, NEW g, Shape(t.kid, t.parent, g),
         NEW side \in Sides, NEW n \in InTree(t),
         t.kid[Other(side)][n] # Sentinel,
         NEW u \in Trees, Turned(t, u, side, n), InTree(u) = InTree(t),
         NEW h \in Orders, TurnedOrder(g, h, side, n, t.kid[Other(side)][n])
  PROVE  Shape(u.kid, u.parent, h)
<1> DEFINE child == t.kid[Other(side)][n]
           inner == t.kid[side][child]
           p     == t.parent[n]
           q     == SideOf(t, n)
<1>1. /\ Other(side) \in Sides /\ Other(Other(side)) = side /\ Other(side) # side
      /\ Sides = {"left", "right"} /\ "left" # "right"
  BY Sides2, CellFacts
<1>2. /\ child \in InTree(t) /\ child \in Nodes /\ child # n /\ child # p
      /\ child # Sentinel /\ t.parent[child] = n
  BY <1>1, DownFacts
<1>3. /\ n \in Nodes /\ n # Sentinel /\ p \in InCells(t.parent) /\ p # n
      /\ q \in Sides /\ t.kid[q][p] = n /\ (p = Sentinel => q = "left")
  BY SMTT(30), UpFacts
<1>4. /\ inner \in InCells(t.parent) /\ inner # n /\ inner # child
      /\ inner # Sentinel => t.parent[inner] = child
  <2>1. inner \in InCells(t.parent) /\ (inner # Sentinel => t.parent[inner] = child)
        /\ (inner # Sentinel => inner # child /\ inner # t.parent[child])
    BY <1>2, DownFacts
  <2> QED BY <1>2, <1>3, <2>1
<1>5. /\ InNodes(t.parent) = InTree(t) /\ InNodes(u.parent) = InTree(t)
      /\ InCells(t.parent) = InTree(t) \cup {Sentinel} /\ InCells(u.parent) = InTree(t) \cup {Sentinel}
      /\ InTree(t) \subseteq Cells /\ Sentinel \in Cells /\ Sentinel \notin InTree(t)
  BY CellFacts DEF InTree, InNodes, InCells
<1> HIDE DEF child, inner, p, q
<1>6. /\ \A s \in Sides, c \in Cells :
           u.kid[s][c] = IF c = n /\ s = Other(side) THEN inner
                         ELSE IF c = child /\ s = side THEN n
                         ELSE IF c = p /\ s = q THEN child
                         ELSE t.kid[s][c]
      /\ \A c \in Cells :
           u.parent[c] = IF c = n THEN child
                         ELSE IF c = child THEN p
                         ELSE IF c = inner THEN n
                         ELSE t.parent[c]
  BY DEF Turned, child, inner, p, q
<1>7. /\ h.at = g.at /\ h.size = g.size /\ h.pos = g.pos
      /\ \A c \in Cells : c \notin {n, child} => h.lo[c] = g.lo[c] /\ h.hi[c] = g.hi[c]
      /\ h.lo[child] = g.lo[n] /\ h.hi[child] = g.hi[n]
      /\ h.lo[n] = IF side = "left" THEN g.lo[n] ELSE g.pos[child] + 1
      /\ h.hi[n] = IF side = "left" THEN g.pos[child] - 1 ELSE g.hi[n]
  BY DEF TurnedOrder, child
<1>8. /\ g \in Orders /\ \A c \in Cells : g.pos[c] \in Int /\ g.lo[c] \in Int /\ g.hi[c] \in Int
      /\ \A c \in Cells : h.pos[c] \in Int /\ h.lo[c] \in Int /\ h.hi[c] \in Int
      /\ g.size \in Nat
  BY Zenon DEF Shape, Numbered, Orders
<1>9. \A c \in InTree(t) \cup {Sentinel} : LeftOf(t.kid, t.parent, g, c)
  BY <1>5 DEF Shape
<1>10. \A c \in InTree(t) : RightOf(t.kid, t.parent, g, c)
  BY <1>5 DEF Shape
<1>11. \A c \in InTree(t) \cup {Sentinel} :
         /\ 1 <= g.lo[c] /\ g.lo[c] <= g.pos[c] /\ g.pos[c] <= g.hi[c] /\ g.hi[c] <= g.size
  BY SMTT(30), <1>5 DEF Shape, Numbered
<1>20. ASSUME side = "left"
       PROVE  /\ child = t.kid["right"][n] /\ inner = t.kid["left"][child] /\ Other(side) = "right"
              /\ g.lo[child] = g.pos[n] + 1 /\ g.hi[child] = g.hi[n]
              /\ inner = Sentinel => g.lo[child] = g.pos[child]
              /\ inner # Sentinel => g.lo[inner] = g.lo[child] /\ g.hi[inner] = g.pos[child] - 1
  <2>1. child = t.kid["right"][n] /\ inner = t.kid["left"][child] /\ Other(side) = "right"
    BY <1>20 DEF Other, child, inner
  <2>2. g.lo[child] = g.pos[n] + 1 /\ g.hi[child] = g.hi[n]
    BY SMTT(30), <1>2, <1>10, <2>1 DEF RightOf
  <2>3. /\ inner = Sentinel => g.lo[child] = g.pos[child]
        /\ inner # Sentinel => g.lo[inner] = g.lo[child] /\ g.hi[inner] = g.pos[child] - 1
    BY SMTT(30), <1>2, <1>9, <2>1 DEF LeftOf
  <2> QED BY <2>1, <2>2, <2>3
<1>21. ASSUME side = "right"
       PROVE  /\ child = t.kid["left"][n] /\ inner = t.kid["right"][child] /\ Other(side) = "left"
              /\ g.lo[child] = g.lo[n] /\ g.hi[child] = g.pos[n] - 1
              /\ inner = Sentinel => g.hi[child] = g.pos[child]
              /\ inner # Sentinel => g.lo[inner] = g.pos[child] + 1 /\ g.hi[inner] = g.hi[child]
  <2>1. child = t.kid["left"][n] /\ inner = t.kid["right"][child] /\ Other(side) = "left"
    BY <1>1, <1>21 DEF Other, child, inner
  <2>2. g.lo[child] = g.lo[n] /\ g.hi[child] = g.pos[n] - 1
    BY SMTT(30), <1>2, <1>9, <2>1 DEF LeftOf
  <2>3. /\ inner = Sentinel => g.hi[child] = g.pos[child]
        /\ inner # Sentinel => g.lo[inner] = g.pos[child] + 1 /\ g.hi[inner] = g.hi[child]
    BY <1>2, <1>10, <2>1 DEF RightOf
  <2> QED BY <2>1, <2>2, <2>3
<1>22. side = "left" \/ side = "right"
  BY <1>1
<1>12. \A c \in InTree(t) \cup {Sentinel} : LeftOf(u.kid, u.parent, h, c)
  <2> SUFFICES ASSUME NEW c \in InTree(t) \cup {Sentinel}
               PROVE  LeftOf(u.kid, u.parent, h, c)
    OBVIOUS
  <2>1. CASE c = n
    <3>1. LeftOf(t.kid, t.parent, g, n)
      BY <1>2, <1>9
    <3>2. CASE side = "left"
      <4> DEFINE k == t.kid["left"][n]
      <4>1. k \in InCells(t.parent) /\ k \in Cells
            /\ (k # Sentinel => k \in InTree(t) /\ t.parent[k] = n /\ k # n
                                /\ k # t.parent[n] /\ t.kid[Other("left")][n] # k)
        BY <1>1, <1>2, DownFacts
      <4>2. k # Sentinel => k \notin {n, child, inner}
        BY <1>1, <1>2, <1>4, <1>20, <3>2, <4>1 DEF Other
      <4>3. u.kid["left"][n] = k
        BY <1>1, <1>2, <1>3, <1>5, <1>6, <1>20, <3>2
      <4> HIDE DEF k
      <4>4. k # Sentinel => u.parent[k] = t.parent[k] /\ h.lo[k] = g.lo[k] /\ h.hi[k] = g.hi[k]
        BY <1>6, <1>7, <4>1, <4>2
      <4>5. /\ k = Sentinel => g.lo[n] = g.pos[n]
            /\ k # Sentinel => g.lo[k] = g.lo[n] /\ g.hi[k] = g.pos[n] - 1
        BY <3>1 DEF LeftOf, k
      <4>6. n \in Cells /\ child \in Cells /\ n # child
        BY <1>2, <1>5
      <4> QED BY <1>1, <1>5, <1>7, <1>8, <1>20, <2>1, <3>2, <4>1, <4>3, <4>4, <4>5, <4>6 DEF LeftOf
    <3>3. CASE side = "right"
      BY <1>1, <1>2, <1>3, <1>4, <1>5, <1>6, <1>7, <1>8, <1>21, <2>1, <3>1, <3>3 DEF LeftOf
    <3> QED BY <1>22, <3>2, <3>3
  <2>2. CASE c = child
    <3>1. LeftOf(t.kid, t.parent, g, child)
      BY <1>2, <1>9
    <3>2. CASE side = "left"
      BY <1>1, <1>2, <1>3, <1>4, <1>5, <1>6, <1>7, <1>8, <1>20, <2>2, <3>1, <3>2 DEF LeftOf
    <3>3. CASE side = "right"
      <4> DEFINE k == t.kid["left"][child]
      <4>1. k \in InCells(t.parent) /\ k \in Cells
            /\ (k # Sentinel => k \in InTree(t) /\ t.parent[k] = child /\ k # child
                                /\ k # t.parent[child] /\ t.kid[Other("left")][child] # k)
        BY <1>1, <1>2, DownFacts
      <4>2. k # Sentinel => k \notin {n, child, inner}
        BY <1>1, <1>2, <1>4, <1>21, <3>3, <4>1 DEF Other
      <4>3. u.kid["left"][child] = k
        BY <1>1, <1>2, <1>3, <1>5, <1>6, <1>21, <3>3
      <4> HIDE DEF k
      <4>4. k # Sentinel => u.parent[k] = t.parent[k] /\ h.lo[k] = g.lo[k] /\ h.hi[k] = g.hi[k]
        BY <1>6, <1>7, <4>1, <4>2
      <4>5. /\ k = Sentinel => g.lo[child] = g.pos[child]
            /\ k # Sentinel => g.lo[k] = g.lo[child] /\ g.hi[k] = g.pos[child] - 1
        BY SMTT(30), <3>1 DEF LeftOf, k
      <4>6. n \in Cells /\ child \in Cells /\ n # child
        BY <1>2, <1>5
      <4> QED BY <1>1, <1>5, <1>7, <1>8, <1>21, <2>2, <3>3, <4>1, <4>3, <4>4, <4>5, <4>6 DEF LeftOf
    <3> QED BY <1>22, <3>2, <3>3
  <2>3. CASE c = p
    BY SMTT(30), <1>1, <1>2, <1>3, <1>4, <1>5, <1>6, <1>7, <1>8, <1>9, <1>10, <1>11, <2>3 DEF LeftOf, RightOf
  <2>4. CASE c \notin {n, child, p}
    BY <1>1, <1>2, <1>3, <1>4, <1>5, <1>6, <1>7, <1>8, <1>9, <1>10, <1>11, <2>4 DEF LeftOf, p
  <2> QED BY <2>1, <2>2, <2>3, <2>4
<1>13. \A c \in InTree(t) : RightOf(u.kid, u.parent, h, c)
  <2> SUFFICES ASSUME NEW c \in InTree(t)
               PROVE  RightOf(u.kid, u.parent, h, c)
    OBVIOUS
  <2>1. CASE c = n
    <3>1. RightOf(t.kid, t.parent, g, n)
      BY <1>2, <1>10
    <3>2. CASE side = "left"
      BY <1>1, <1>2, <1>3, <1>4, <1>5, <1>6, <1>7, <1>8, <1>20, <2>1, <3>1, <3>2 DEF RightOf
    <3>3. CASE side = "right"
      <4> DEFINE k == t.kid["right"][n]
      <4>1. k \in InCells(t.parent) /\ k \in Cells
            /\ (k # Sentinel => k \in InTree(t) /\ t.parent[k] = n /\ k # n
                                /\ k # t.parent[n] /\ t.kid[Other("right")][n] # k)
        BY <1>1, <1>2, DownFacts
      <4>2. k # Sentinel => k \notin {n, child, inner}
        BY <1>1, <1>2, <1>4, <1>21, <3>3, <4>1 DEF Other
      <4>3. u.kid["right"][n] = k
        BY <1>1, <1>2, <1>3, <1>5, <1>6, <1>21, <3>3
      <4> HIDE DEF k
      <4>4. k # Sentinel => u.parent[k] = t.parent[k] /\ h.lo[k] = g.lo[k] /\ h.hi[k] = g.hi[k]
        BY <1>6, <1>7, <4>1, <4>2
      <4>5. /\ k = Sentinel => g.hi[n] = g.pos[n]
            /\ k # Sentinel => g.lo[k] = g.pos[n] + 1 /\ g.hi[k] = g.hi[n]
        BY <3>1 DEF RightOf, k
      <4>6. n \in Cells /\ child \in Cells /\ n # child
        BY <1>2, <1>5
      <4> QED BY <1>1, <1>5, <1>7, <1>8, <1>21, <2>1, <3>3, <4>1, <4>3, <4>4, <4>5, <4>6 DEF RightOf
    <3> QED BY <1>22, <3>2, <3>3
  <2>2. CASE c = child
    <3>1. RightOf(t.kid, t.parent, g, child)
      BY <1>2, <1>10
    <3>2. CASE side = "left"
      <4> DEFINE k == t.kid["right"][child]
      <4>1. k \in InCells(t.parent) /\ k \in Cells
            /\ (k # Sentinel => k \in InTree(t) /\ t.parent[k] = child /\ k # child
                                /\ k # t.parent[child] /\ t.kid[Other("right")][child] # k)
        BY <1>1, <1>2, DownFacts
      <4>2. k # Sentinel => k \notin {n, child, inner}
        BY <1>1, <1>2, <1>4, <1>20, <3>2, <4>1 DEF Other
      <4>3. u.kid["right"][child] = k
        BY <1>1, <1>2, <1>3, <1>5, <1>6, <1>20, <3>2
      <4> HIDE DEF k
      <4>4. k # Sentinel => u.parent[k] = t.parent[k] /\ h.lo[k] = g.lo[k] /\ h.hi[k] = g.hi[k]
        BY <1>6, <1>7, <4>1, <4>2
      <4>5. /\ k = Sentinel => g.hi[child] = g.pos[child]
            /\ k # Sentinel => g.lo[k] = g.pos[child] + 1 /\ g.hi[k] = g.hi[child]
        BY <3>1 DEF RightOf, k
      <4>6. n \in Cells /\ child \in Cells /\ n # child
        BY <1>2, <1>5
      <4> QED BY <1>1, <1>5, <1>7, <1>8, <1>20, <2>2, <3>2, <4>1, <4>3, <4>4, <4>5, <4>6 DEF RightOf
    <3>3. CASE side = "right"
      BY SMTT(30), <1>1, <1>2, <1>3, <1>4, <1>5, <1>6, <1>7, <1>8, <1>21, <2>2, <3>1, <3>3 DEF RightOf
    <3> QED BY <1>22, <3>2, <3>3
  <2>3. CASE c = p
    BY SMTT(30), <1>1, <1>2, <1>3, <1>4, <1>5, <1>6, <1>7, <1>8, <1>9, <1>10, <1>11, <2>3 DEF LeftOf, RightOf
  <2>4. CASE c \notin {n, child, p}
    BY SMTT(30), <1>1, <1>2, <1>3, <1>4, <1>5, <1>6, <1>7, <1>8, <1>9, <1>10, <1>11, <2>4 DEF RightOf, p
  <2> QED BY <2>1, <2>2, <2>3, <2>4
<1>14. \A c \in InTree(t) : Below(u.kid, u.parent, c)
  <2> SUFFICES ASSUME NEW c \in InTree(t)
               PROVE  Below(u.kid, u.parent, c)
    OBVIOUS
  <2>1. Below(t.kid, t.parent, c)
    BY <1>5 DEF Shape
  <2>2. CASE c \in {n, child}
    BY <1>1, <1>2, <1>3, <1>4, <1>5, <1>6, <2>2 DEF Below
  <2>3. CASE c = inner /\ c \notin {n, child}
    BY <1>1, <1>2, <1>3, <1>4, <1>5, <1>6, <2>3 DEF Below
  <2>4. CASE c \notin {n, child, inner}
    <3>1. u.parent[c] = t.parent[c] /\ t.parent[c] \in Cells
      BY <1>5, <1>6, <2>1, <2>4 DEF Below
    <3>2. \A s \in Sides : t.kid[s][t.parent[c]] = c => u.kid[s][t.parent[c]] = c
      BY <1>1, <1>3, <1>6, <2>4, <3>1 DEF child, inner
    <3> QED BY <1>1, <1>5, <2>1, <3>1, <3>2 DEF Below
  <2> QED BY <2>2, <2>3, <2>4
<1>15. Numbered(u.parent, h)
  <2>1. \A c \in InTree(t) \cup {Sentinel} :
         /\ 1 <= h.lo[c] /\ h.lo[c] <= h.pos[c] /\ h.pos[c] <= h.hi[c] /\ h.hi[c] <= h.size
    <3> SUFFICES ASSUME NEW c \in InTree(t) \cup {Sentinel}
                 PROVE  1 <= h.lo[c] /\ h.lo[c] <= h.pos[c] /\ h.pos[c] <= h.hi[c] /\ h.hi[c] <= h.size
      OBVIOUS
    <3>1. n \in Cells /\ child \in Cells /\ c \in Cells
      BY <1>2, <1>5
    <3>2. /\ 1 <= g.lo[c] /\ g.lo[c] <= g.pos[c] /\ g.pos[c] <= g.hi[c] /\ g.hi[c] <= g.size
          /\ 1 <= g.lo[n] /\ g.lo[n] <= g.pos[n] /\ g.pos[n] <= g.hi[n] /\ g.hi[n] <= g.size
          /\ 1 <= g.lo[child] /\ g.lo[child] <= g.pos[child]
          /\ g.pos[child] <= g.hi[child] /\ g.hi[child] <= g.size
      BY <1>2, <1>11
    <3>3. CASE side = "left"
      BY <1>2, <1>7, <1>8, <1>20, <3>1, <3>2, <3>3
    <3>4. CASE side = "right"
      BY <1>1, <1>2, <1>7, <1>8, <1>21, <3>1, <3>2, <3>4
    <3> QED BY <1>22, <3>3, <3>4
  <2>2. h.pos[Sentinel] = h.size /\ h.lo[Sentinel] = 1 /\ h.hi[Sentinel] = h.size
    BY <1>2, <1>3, <1>5, <1>7 DEF Shape, Numbered
  <2>3. /\ \A i \in 1 .. h.size : h.at[i] \in InCells(u.parent) /\ h.pos[h.at[i]] = i
        /\ \A c \in InCells(u.parent) : h.at[h.pos[c]] = c
    BY <1>5, <1>7 DEF Shape, Numbered
  <2>4. \A c \in InTree(t) : h.hi[c] < h.size
    <3>1. \A c \in InTree(t) : g.hi[c] < g.size
      BY <1>5 DEF Shape, Numbered
    <3>2. h.hi[n] <= g.hi[n] \/ h.hi[n] < g.hi[child]
      BY <1>2, <1>5, <1>7, <1>8, <1>11
    <3> QED BY <1>2, <1>5, <1>7, <1>8, <3>1, <3>2
  <2> QED BY <1>5, <2>1, <2>2, <2>3, <2>4 DEF Numbered
<1>16. u.kid["right"][Sentinel] = Null
  BY <1>1, <1>2, <1>3, <1>5, <1>6 DEF Shape
<1> QED BY <1>5, <1>12, <1>13, <1>14, <1>15, <1>16 DEF Shape, Trees

\* A rotation of a tree gives a tree of the same order.
LEMMA RotateOK ==
  ASSUME NEW t \in Trees, NEW g, Shape(t.kid, t.parent, g),
         NEW side \in Sides, NEW n \in InTree(t),
         t.kid[Other(side)][n] # Sentinel, NEW u, Rotate(t, side, n) = u
  PROVE  /\ u \in Trees /\ u.red = t.red /\ Turned(t, u, side, n) /\ InTree(u) = InTree(t)
         /\ \E h : /\ TurnedOrder(g, h, side, n, t.kid[Other(side)][n])
                   /\ Shape(u.kid, u.parent, h)
<1>1. u \in Trees /\ u.red = t.red /\ Turned(t, u, side, n) /\ InTree(u) = InTree(t)
  BY RotateTurns
<1> DEFINE child == t.kid[Other(side)][n]
<1>2. child \in Cells /\ child # n /\ n \in Cells
  BY Sides2, DownFacts, UpFacts
<1>3. g \in Orders
  BY DEF Shape, Numbered
<1>4. PICK h \in Orders : TurnedOrder(g, h, side, n, child)
  BY <1>2, <1>3, OrderTurns
<1>5. Shape(u.kid, u.parent, h)
  BY <1>1, <1>4, RotateShape
<1> QED BY <1>1, <1>4, <1>5

-----------------------------------------------------------------------------
(* Colours *)

\* What a child adds to the black nodes of a path.
Weight(t, c) == IF c \in t.red THEN 0 ELSE 1

\* Below every node there are as many black cells on either side, those of the
\* number b; but below side s of c there is one too few.
Even(t, b, c, s) ==
  /\ b \in [Cells -> Nat] /\ b[Sentinel] = 0
  /\ \A n \in InTree(t), q \in Sides :
       IF n = c /\ q = s THEN b[n] = b[t.kid[q][n]] + Weight(t, t.kid[q][n]) + 1
                         ELSE b[n] = b[t.kid[q][n]] + Weight(t, t.kid[q][n])

\* A red node that comes up, and changes colours with the node above it.
LEMMA RotateEven ==
  ASSUME NEW t \in Trees, NEW g, Shape(t.kid, t.parent, g),
         NEW side \in Sides, NEW n \in InTree(t),
         NEW child \in t.red, child = t.kid[Other(side)][n], child # Sentinel,
         NEW b, NEW c, NEW s, Even(t, b, c, s),
         ~(c = n /\ s = Other(side)), ~(c = child),
         c = Sentinel \/ c # t.parent[n] \/ s # SideOf(t, n),
         NEW u \in Trees, Turned(t, u, side, n), InTree(u) = InTree(t),
         n \in u.red, child \in u.red <=> n \in t.red,
         \A x \in Cells \ {n, child} : x \in u.red <=> x \in t.red
  PROVE  Even(u, b, c, s)
<1> DEFINE inner == t.kid[side][child]
           p     == t.parent[n]
<1>1. /\ Other(side) \in Sides /\ Other(Other(side)) = side /\ Other(side) # side
      /\ Sides = {"left", "right"} /\ "left" # "right"
  BY Sides2, CellFacts
<1>2. /\ child \in InTree(t) /\ child \in Nodes /\ child \in Cells /\ child # n /\ child # p
      /\ t.parent[child] = n
  BY <1>1, DownFacts, CellFacts
<1>3. /\ n \in Cells /\ n # Sentinel /\ p \in Cells /\ p # n
      /\ SideOf(t, n) \in Sides /\ t.kid[SideOf(t, n)][p] = n
  BY UpFacts
<1>4. inner \in Cells /\ inner # n /\ inner # child
  <2>1. inner \in Cells /\ (inner # Sentinel => inner # child /\ inner # t.parent[child])
    BY <1>2, DownFacts
  <2> QED BY <1>2, <1>3, <2>1, CellFacts
<1>5. \A m \in InTree(t), q \in Sides :
        /\ t.kid[q][m] \in Cells
        /\ t.kid[q][m] = n => m = p /\ q = SideOf(t, n)
        /\ t.kid[q][m] = child => m = n /\ q = Other(side)
  <2> SUFFICES ASSUME NEW m \in InTree(t), NEW q \in Sides
               PROVE  /\ t.kid[q][m] \in Cells
                      /\ t.kid[q][m] = n => m = p /\ q = SideOf(t, n)
                      /\ t.kid[q][m] = child => m = n /\ q = Other(side)
    OBVIOUS
  <2>1. \A k : t.kid[q][m] = k => k \in Cells /\ (k # Sentinel => t.parent[k] = m /\ SideOf(t, k) = q)
    BY DownFacts
  <2>2. SideOf(t, child) = Other(side)
    BY <1>1, DownFacts
  <2> QED BY <1>2, <1>3, <2>1, <2>2
<1>6. /\ \A q \in Sides, x \in Cells :
           u.kid[q][x] = IF x = n /\ q = Other(side) THEN inner
                         ELSE IF x = child /\ q = side THEN n
                         ELSE IF x = p /\ q = SideOf(t, n) THEN child
                         ELSE t.kid[q][x]
  BY DEF Turned
<1>7. Even(t, b, c, s)
  OBVIOUS
<1>8. b \in [Cells -> Nat] /\ InTree(t) \subseteq Cells
  BY CellFacts DEF Even, InTree
<1> HIDE DEF p
<1>9. ASSUME NEW m \in InTree(t), NEW q \in Sides
      PROVE  IF m = c /\ q = s THEN b[m] = b[u.kid[q][m]] + Weight(u, u.kid[q][m]) + 1
                                ELSE b[m] = b[u.kid[q][m]] + Weight(u, u.kid[q][m])
  <2>0. \A x \in InTree(t), r \in Sides :
          IF x = c /\ r = s THEN b[x] = b[t.kid[r][x]] + Weight(t, t.kid[r][x]) + 1
                            ELSE b[x] = b[t.kid[r][x]] + Weight(t, t.kid[r][x])
    BY SMTT(30) DEF Even
  <2>1. b[n] = b[child] /\ b[child] = b[inner] + Weight(t, inner)
    BY <1>1, <1>2, <1>4, <1>8, <2>0 DEF Weight
  <2>2. Weight(u, n) = 0 /\ Weight(u, child) = Weight(t, n)
        /\ \A x \in Cells \ {n, child} : Weight(u, x) = Weight(t, x)
    BY DEF Weight
  <2> HIDE DEF inner
  <2>3. CASE m = n /\ q = Other(side)
    BY SMTT(30), <1>3, <1>4, <1>6, <1>8, <2>1, <2>2, <2>3 DEF Weight
  <2>4. CASE m = child /\ q = side
    BY <1>1, <1>2, <1>3, <1>6, <1>8, <2>1, <2>2, <2>4
  <2>5. CASE m = p /\ q = SideOf(t, n)
    <3>1. u.kid[q][m] = child
      BY <1>2, <1>3, <1>6, <2>5
    <3>2. ~(m = c /\ q = s) /\ b[m] = b[n] + Weight(t, n)
      <4>1. m # Sentinel
        BY UpFacts
      <4> QED BY <1>3, <2>0, <2>5, <4>1 DEF p
    <3> QED BY <2>1, <2>2, <3>1, <3>2
  <2>6. CASE ~(m = n /\ q = Other(side)) /\ ~(m = child /\ q = side) /\ ~(m = p /\ q = SideOf(t, n))
    <3>1. u.kid[q][m] = t.kid[q][m] /\ t.kid[q][m] \in Cells \ {n, child}
      BY <1>5, <1>6, <1>8, <2>6
    <3> QED BY <2>0, <2>2, <3>1
  <2> QED BY <2>3, <2>4, <2>5, <2>6
<1>10. b[Sentinel] = 0
  BY DEF Even
<1> QED BY <1>8, <1>9, <1>10 DEF Even
\* With the sentinel as the exception, no path is short.
LEMMA EvenWhole ==
  ASSUME NEW t \in Trees, NEW g, Shape(t.kid, t.parent, g), NEW b, NEW s
  PROVE  Even(t, b, Sentinel, s) <=>
           /\ b \in [Cells -> Nat] /\ b[Sentinel] = 0
           /\ \A n \in InTree(t), q \in Sides :
                b[n] = b[t.kid[q][n]] + Weight(t, t.kid[q][n])
<1>1. \A n \in InTree(t) : n # Sentinel
  BY UpFacts
<1> QED BY <1>1 DEF Even

\* A tree with its order, and colours of its own nodes only.
Sound(t, g) == t \in Trees /\ t.red \subseteq InTree(t) /\ Shape(t.kid, t.parent, g)

\* Every node is at most one child's, on one side.
LEMMA OneSlot ==
  ASSUME NEW t \in Trees, NEW g, Shape(t.kid, t.parent, g),
         NEW m \in InTree(t), NEW q \in Sides, NEW n \in InTree(t), t.kid[q][m] = n
  PROVE  m = t.parent[n] /\ q = SideOf(t, n)
<1>1. n # Sentinel
  BY UpFacts
<1> QED BY <1>1, DownFacts

\* Two children and their parent are three nodes.
LEMMA Siblings ==
  ASSUME NEW t \in Trees, NEW g, Shape(t.kid, t.parent, g),
         NEW m \in InTree(t), NEW s \in Sides,
         NEW p \in InTree(t), t.kid[s][m] = p,
         NEW k \in InTree(t), t.kid[Other(s)][m] = k
  PROVE  t.parent[p] = m /\ t.parent[k] = m /\ p # k /\ p # m /\ k # m
<1>1. p # Sentinel /\ k # Sentinel
  BY UpFacts
<1>2. t.parent[p] = m /\ p # m /\ k # p
  BY <1>1, DownFacts
<1>3. Other(s) \in Sides
  BY Sides2
<1>4. t.parent[k] = m /\ k # m
  BY <1>1, <1>3, DownFacts
<1> QED BY <1>2, <1>4

\* Only the colours differ.
Recoloured(t, u, S) == u \in Trees /\ u.kid = t.kid /\ u.parent = t.parent /\ u.red = S

\* Colours do not matter to the order.
LEMMA RecolouredShape ==
  ASSUME NEW t, NEW g, Sound(t, g), NEW S \in SUBSET InTree(t), NEW u, Recoloured(t, u, S)
  PROVE  /\ Sound(u, g) /\ InTree(u) = InTree(t) /\ Root(u) = Root(t)
         /\ \A c : SideOf(u, c) = SideOf(t, c)
BY DEF Sound, Recoloured, InTree, Root, SideOf

\* Blacken and Redden change colours only.
LEMMA Paint ==
  ASSUME NEW t \in Trees, NEW S, NEW n \in Nodes
  PROVE  /\ Recoloured(t, Blacken(t, S), t.red \ S)
         /\ Recoloured(t, Redden(t, n), t.red \cup {n})
         /\ Recoloured(t, Redden(Blacken(t, S), n), (t.red \ S) \cup {n})
<1>1. Recoloured(t, Blacken(t, S), t.red \ S)
  BY DEF Recoloured, Blacken, Trees
<1>2. \A u \in Trees : Recoloured(u, Redden(u, n), u.red \cup {n})
  BY DEF Recoloured, Redden, Trees
<1>3. PICK u : Blacken(t, S) = u
  OBVIOUS
<1>4. Recoloured(u, Redden(u, n), u.red \cup {n})
  BY <1>1, <1>2, <1>3 DEF Recoloured
<1>5. Recoloured(t, Redden(u, n), (t.red \ S) \cup {n})
  BY <1>1, <1>3, <1>4 DEF Recoloured
<1> QED BY <1>1, <1>2, <1>3, <1>5

-----------------------------------------------------------------------------
(* js_rbtree_insert_fixup *)

\* The tree js_rbtree_insert_fixup works on: only n may be red below a red
\* node, or be a red root.
InsertInv(t, n, g, b) ==
  /\ Sound(t, g) /\ Even(t, b, Sentinel, "left")
  /\ n \in t.red
  /\ \A m \in t.red, q \in Sides : t.kid[q][m] \in t.red => t.kid[q][m] = n
  /\ Root(t) \in t.red => Root(t) = n

\* A red parent is not the root, and its parent is black.
LEMMA InsertFamily ==
  ASSUME NEW t, NEW n, NEW g, NEW b, InsertInv(t, n, g, b),
         NEW p, t.parent[n] = p, p \in t.red, NEW d, t.parent[p] = d
  PROVE  /\ n \in InTree(t) /\ p \in InTree(t) /\ n # p /\ p # Root(t) /\ n # Root(t)
         /\ d \in InTree(t) /\ d \notin t.red /\ d # p /\ d # n
         /\ SideOf(t, p) \in Sides /\ t.kid[SideOf(t, p)][d] = p
         /\ SideOf(t, n) \in Sides /\ t.kid[SideOf(t, n)][p] = n
<1>1. t \in Trees /\ t.red \subseteq InTree(t) /\ Shape(t.kid, t.parent, g)
  BY DEF InsertInv, Sound
<1>2. n \in InTree(t) /\ p \in InTree(t) /\ n \in t.red
  BY <1>1 DEF InsertInv
<1>3. n # p /\ SideOf(t, n) \in Sides /\ t.kid[SideOf(t, n)][p] = n /\ n # Sentinel /\ p # Sentinel
  BY <1>1, <1>2, UpFacts
<1>4. /\ d \in InCells(t.parent) /\ d # p /\ SideOf(t, p) \in Sides
      /\ t.kid[SideOf(t, p)][d] = p /\ (d = Sentinel => SideOf(t, p) = "left")
  BY <1>1, <1>2, UpFacts
<1>5. p # Root(t)
  BY <1>3 DEF InsertInv
<1>6. d # Sentinel
  BY <1>4, <1>5 DEF Root
<1>7. d \in InTree(t)
  BY <1>4, <1>6, CellFacts DEF InTree, InNodes
<1>8. d \notin t.red
  BY <1>3, <1>4 DEF InsertInv
<1>9. n # Root(t)
  <2>1. Below(t.kid, t.parent, p) /\ Root(t) # Sentinel => t.parent[Root(t)] = Sentinel
    BY <1>1, CellFacts DEF Shape, LeftOf, Root
  <2>2. Below(t.kid, t.parent, p)
    BY <1>1, <1>2 DEF Shape, InTree, InNodes
  <2> QED BY <1>3, <2>1, <2>2
<1> QED BY <1>2, <1>3, <1>4, <1>5, <1>7, <1>8, <1>9

\* The uncle is red: the colours move up.
LEMMA InsertUp ==
  ASSUME NEW t, NEW n, NEW g, NEW b, InsertInv(t, n, g, b),
         NEW p, t.parent[n] = p, p \in t.red, NEW d, t.parent[p] = d,
         NEW uncle, t.kid[Other(SideOf(t, p))][d] = uncle, uncle \in t.red,
         NEW u, Recoloured(t, u, (t.red \ {uncle, p}) \cup {d})
  PROVE  /\ \E c : InsertInv(u, d, g, c)
         /\ InTree(u) = InTree(t)
         /\ g.hi[n] - g.lo[n] < g.hi[d] - g.lo[d]
<1> DEFINE side == SideOf(t, p)
<1>1. /\ n \in InTree(t) /\ p \in InTree(t) /\ n # p /\ p # Root(t) /\ n # Root(t)
      /\ d \in InTree(t) /\ d \notin t.red /\ d # p /\ d # n
      /\ side \in Sides /\ t.kid[side][d] = p
  BY InsertFamily
<1>2. t \in Trees /\ t.red \subseteq InTree(t) /\ Shape(t.kid, t.parent, g) /\ Even(t, b, Sentinel, "left")
  BY DEF InsertInv, Sound
<1>3. Other(side) \in Sides /\ Other(side) # side /\ \A q \in Sides : q \in {side, Other(side)}
  BY <1>1, CellFacts DEF Other
<1> HIDE DEF side
<1>4. uncle \in InTree(t) /\ uncle # p /\ t.parent[uncle] = d /\ t.parent[p] = d /\ uncle # d
      /\ uncle = t.kid[Other(side)][d]
  <2>1. uncle \in InTree(t) /\ t.kid[Other(side)][d] = uncle
    BY <1>2 DEF side
  <2>2. \A x, y : /\ x \in InTree(t) /\ t.kid[side][d] = x
                  /\ y \in InTree(t) /\ t.kid[Other(side)][d] = y
                  => t.parent[x] = d /\ t.parent[y] = d /\ x # y /\ x # d /\ y # d
    <3>1. d \in InTree(t) /\ side \in Sides
      BY <1>1
    <3>2. t \in Trees /\ Shape(t.kid, t.parent, g)
      BY <1>2
    <3> QED BY <3>1, <3>2, Siblings
  <2>3. p \in InTree(t) /\ t.kid[side][d] = p
    BY <1>1
  <2> QED BY <2>1, <2>2, <2>3
<1>5. Sound(u, g) /\ InTree(u) = InTree(t) /\ Root(u) = Root(t)
  <2>1. (t.red \ {uncle, p}) \cup {d} \in SUBSET InTree(t)
    BY <1>1, <1>2
  <2>2. Sound(t, g)
    BY DEF InsertInv
  <2>3. PICK S : S = (t.red \ {uncle, p}) \cup {d}
    OBVIOUS
  <2>4. Recoloured(t, u, S) /\ S \in SUBSET InTree(t)
    BY <2>1, <2>3, Zenon
  <2> QED BY <2>2, <2>4, RecolouredShape
<1>6. u.kid = t.kid /\ u.parent = t.parent /\ u.red = (t.red \ {uncle, p}) \cup {d}
  BY DEF Recoloured
<1>7. b \in [Cells -> Nat] /\ b[Sentinel] = 0 /\ d \in Cells /\ InTree(t) \subseteq Cells /\ d # Sentinel
  BY <1>1, <1>2, CellFacts, UpFacts DEF Even, InTree
<1>8. PICK c : c = [b EXCEPT ![d] = @ + 1]
  BY Zenon
<1>9. c \in [Cells -> Nat] /\ c[d] = b[d] + 1 /\ \A x \in Cells : x # d => c[x] = b[x]
  BY <1>7, <1>8
<1>10. ASSUME NEW m \in InTree(t), NEW q \in Sides
       PROVE  c[m] = c[t.kid[q][m]] + Weight(u, t.kid[q][m])
  <2>0. \A x \in InTree(t), r \in Sides : b[x] = b[t.kid[r][x]] + Weight(t, t.kid[r][x])
    BY <1>2, EvenWhole
  <2>1. t.kid[q][m] \in Cells
    BY <1>2, DownFacts
  <2>2. /\ t.kid[q][m] = d => m # d
        /\ t.kid[q][m] \in {p, uncle} => m = d
    <3>1. t.kid[q][m] \in InTree(t) => m = t.parent[t.kid[q][m]]
      BY <1>2, OneSlot
    <3>2. t.parent[d] # d
      BY <1>1, <1>2, UpFacts
    <3> QED BY <1>1, <1>4, <3>1, <3>2
  <2>3. CASE m = d
    <3>1. t.kid[q][m] \in {p, uncle}
      BY <1>1, <1>3, <1>4, <2>3
    <3>2. Weight(t, t.kid[q][m]) = 0 /\ Weight(u, t.kid[q][m]) = 1 /\ t.kid[q][m] # d
      BY <1>1, <1>4, <1>6, <3>1 DEF Weight
    <3>3. b[d] = b[t.kid[q][m]]
      <4>1. b[d] \in Nat /\ b[t.kid[q][m]] \in Nat
        BY <1>7, <2>1
      <4>2. b[d] = b[t.kid[q][m]] + Weight(t, t.kid[q][m])
        BY <2>0, <2>3
      <4> QED BY <3>2, <4>1, <4>2
    <3> QED BY <1>7, <1>9, <2>1, <2>3, <3>2, <3>3
  <2>4. CASE t.kid[q][m] = d
    <3>1. Weight(t, d) = 1 /\ Weight(u, d) = 0
      BY <1>1, <1>6 DEF Weight
    <3>2. b[m] = b[d] + 1 /\ c[m] = b[m]
      BY <1>7, <1>9, <2>0, <2>2, <2>4, <3>1
    <3> QED BY <1>7, <1>9, <2>4, <3>1, <3>2
  <2>5. CASE m # d /\ t.kid[q][m] # d
    <3>1. Weight(u, t.kid[q][m]) = Weight(t, t.kid[q][m])
      BY <1>6, <2>2, <2>5 DEF Weight
    <3> QED BY <1>7, <1>9, <2>0, <2>1, <2>5, <3>1
  <2> QED BY <2>3, <2>4, <2>5
<1>11. Even(u, c, Sentinel, "left")
  <2>2. c[Sentinel] = 0
    BY <1>7, <1>9, CellFacts
  <2>3. u \in Trees /\ Shape(u.kid, u.parent, g)
    BY <1>5 DEF Sound
  <2>4. \A m \in InTree(u), q \in Sides : c[m] = c[u.kid[q][m]] + Weight(u, u.kid[q][m])
    BY <1>5, <1>6, <1>10
  <2> QED BY <1>9, <2>2, <2>3, <2>4, EvenWhole, Zenon
<1>12. \A m \in u.red, q \in Sides : u.kid[q][m] \in u.red => u.kid[q][m] = d
  <2> SUFFICES ASSUME NEW m \in u.red, NEW q \in Sides, u.kid[q][m] \in u.red, u.kid[q][m] # d
               PROVE  FALSE
    OBVIOUS
  <2>0. t.kid[q][m] \in u.red /\ t.kid[q][m] # d
    BY <1>6
  <2>1. m # d
    BY <1>1, <1>3, <1>4, <1>6, <2>0
  <2>2. m \in t.red /\ m # p /\ t.kid[q][m] \in t.red
    BY <1>6, <2>0, <2>1
  <2>3. t.kid[q][m] = n
    BY <2>2 DEF InsertInv
  <2> QED BY <1>1, <1>2, <2>2, <2>3, OneSlot
<1>13. Root(u) \in u.red => Root(u) = d
  BY <1>1, <1>5, <1>6 DEF InsertInv
<1>14. InsertInv(u, d, g, c)
  BY <1>5, <1>6, <1>11, <1>12, <1>13 DEF InsertInv
<1>15. g.hi[n] - g.lo[n] < g.hi[d] - g.lo[d]
  <2>1. n \in InNodes(t.parent) /\ p \in InNodes(t.parent)
    BY <1>1 DEF InTree, InNodes
  <2>2. /\ g.hi[n] - g.lo[n] < g.hi[p] - g.lo[p] /\ g.hi[p] - g.lo[p] < g.hi[d] - g.lo[d]
        /\ g.hi[n] \in Int /\ g.lo[n] \in Int /\ g.hi[p] \in Int /\ g.lo[p] \in Int
        /\ g.hi[d] \in Int /\ g.lo[d] \in Int
    BY <1>2, <2>1, Nested
  <2> QED BY <2>2
<1> QED BY <1>5, <1>14, <1>15

\* In line below d: top on side of it, and low on the same side of top, both
\* red; these are the only red nodes in a row.
InLine(t, g, b, side, d, top, low) ==
  /\ Sound(t, g) /\ Even(t, b, Sentinel, "left") /\ side \in Sides
  /\ d \in InTree(t) /\ d \notin t.red
  /\ top \in t.red /\ t.kid[side][d] = top
  /\ low \in t.red /\ t.kid[side][top] = low
  /\ t.kid[Other(side)][d] \notin t.red
  /\ \A m \in t.red, q \in Sides : t.kid[q][m] \in t.red => m = top /\ t.kid[q][m] = low
  /\ Root(t) \notin t.red

\* The rotation at d of a line below it.
LEMMA InsertLine ==
  ASSUME NEW t, NEW g, NEW b, NEW side, NEW d, NEW top, NEW low,
         InLine(t, g, b, side, d, top, low),
         NEW S, (t.red \ {top}) \cup {d} = S, NEW v, Recoloured(t, v, S),
         NEW u, Rotate(v, Other(side), d) = u
  PROVE  /\ \E h : InsertInv(u, low, h, b) /\ h.at = g.at /\ h.size = g.size
         /\ InTree(u) = InTree(t)
         /\ u.parent[low] \notin u.red
<1>1. t \in Trees /\ t.red \subseteq InTree(t) /\ Shape(t.kid, t.parent, g) /\ Even(t, b, Sentinel, "left")
  BY DEF InLine, Sound
<1>2. /\ d \in InTree(t) /\ d \notin t.red /\ side \in Sides /\ Root(t) \notin t.red
      /\ top \in InTree(t) /\ top \in t.red /\ t.kid[side][d] = top
      /\ low \in InTree(t) /\ low \in t.red /\ t.kid[side][top] = low
  BY <1>1 DEF InLine
<1>3. Other(side) \in Sides /\ Other(side) # side /\ Other(Other(side)) = side
  BY <1>2, Sides2
<1>4. /\ top # Sentinel /\ low # Sentinel /\ d # Sentinel
      /\ t.parent[top] = d /\ top # d /\ t.parent[low] = top /\ low # top /\ low # d
      /\ t.kid[Other(side)][top] # low
  <2>1. \A m \in InTree(t) : m # Sentinel
    BY <1>1, UpFacts
  <2>2. \A m \in InTree(t) : \A k : t.kid[side][m] = k /\ k # Sentinel =>
          t.parent[k] = m /\ k # m /\ k # t.parent[m] /\ t.kid[Other(side)][m] # k
    <3>1. side \in Sides
      BY <1>2
    <3> QED BY <1>1, <3>1, DownFacts
  <2> QED BY <1>2, <2>1, <2>2
<1>5. S = (t.red \ {top}) \cup {d}
  OBVIOUS
<1>6. Recoloured(t, v, S) /\ S \subseteq InTree(t)
  BY <1>1, <1>2, <1>5
<1>7. Sound(v, g) /\ InTree(v) = InTree(t) /\ Root(v) = Root(t) /\ SideOf(v, d) = SideOf(t, d)
  <2>1. Sound(t, g)
    BY DEF InLine
  <2> QED BY <1>6, <2>1, RecolouredShape
<1>8. v \in Trees /\ v.kid = t.kid /\ v.parent = t.parent /\ v.red = S
      /\ Shape(v.kid, v.parent, g)
  BY <1>6, <1>7 DEF Recoloured, Sound
<1>9. /\ u \in Trees /\ u.red = S /\ Turned(v, u, Other(side), d) /\ InTree(u) = InTree(t)
      /\ \E h : TurnedOrder(g, h, Other(side), d, v.kid[side][d]) /\ Shape(u.kid, u.parent, h)
  <2>1. d \in InTree(v) /\ v.kid[Other(Other(side))][d] # Sentinel /\ v.kid[Other(Other(side))][d] = v.kid[side][d]
    BY <1>2, <1>3, <1>4, <1>7, <1>8
  <2> QED BY <1>3, <1>7, <1>8, <2>1, RotateOK
<1>10. PICK h : TurnedOrder(g, h, Other(side), d, v.kid[side][d]) /\ Shape(u.kid, u.parent, h)
  BY <1>9
<1> DEFINE inner == t.kid[Other(side)][top]
           p     == t.parent[d]
<1>11. /\ Turned(t, u, Other(side), d)
       /\ \A q \in Sides, x \in Cells :
           u.kid[q][x] = IF x = d /\ q = side THEN inner
                         ELSE IF x = top /\ q = Other(side) THEN d
                         ELSE IF x = p /\ q = SideOf(t, d) THEN top
                         ELSE t.kid[q][x]
       /\ \A x \in Cells :
           u.parent[x] = IF x = d THEN top
                         ELSE IF x = top THEN p
                         ELSE IF x = inner THEN d
                         ELSE t.parent[x]
  <2>1. Turned(t, u, Other(side), d)
    BY <1>7, <1>8, <1>9 DEF Turned
  <2> QED BY <1>2, <1>3, <2>1 DEF Turned
<1>12. Even(u, b, Sentinel, "left")
  <2>1. /\ d \in u.red /\ (top \in u.red <=> d \in t.red)
        /\ \A x \in Cells \ {d, top} : x \in u.red <=> x \in t.red
    BY <1>2, <1>4, <1>5, <1>9
  <2>2. t.kid[Other(Other(side))][d] = top /\ Sentinel # d /\ Sentinel # top
    BY <1>2, <1>3, <1>4
  <2>3. Shape(t.kid, t.parent, g) /\ Even(t, b, Sentinel, "left")
    BY <1>1
  <2> QED BY <1>1, <1>2, <1>3, <1>9, <1>11, <2>1, <2>2, <2>3, RotateEven
<1>13. inner \in Cells /\ inner # d /\ (inner # Sentinel => inner # low /\ inner # top)
  <2>1. inner \in Cells /\ (inner # Sentinel => inner # top /\ inner # t.parent[top])
    BY <1>1, <1>2, <1>3, DownFacts
  <2> QED BY <1>4, <2>1
<1>14. p \in Cells /\ p # d
  BY <1>1, <1>2, UpFacts
<1> HIDE DEF inner, p
<1>15. inner \notin u.red
  <2>1. ASSUME inner \in t.red PROVE FALSE
    <3>1. inner = low
      BY <1>2, <1>3, <2>1 DEF InLine, inner
    <3> QED BY <1>4, <1>13, <3>1
  <2> QED BY <1>5, <1>9, <1>13, <2>1
<1>16. \A m \in u.red, q \in Sides : u.kid[q][m] \notin u.red
  <2> SUFFICES ASSUME NEW m \in u.red, NEW q \in Sides, u.kid[q][m] \in u.red
               PROVE  FALSE
    OBVIOUS
  <2>1. m \in S /\ u.kid[q][m] \in S /\ m \in InTree(t) /\ m \in Cells /\ m # top
    BY <1>4, <1>5, <1>6, <1>9, CellFacts DEF InTree
  <2>2. CASE m = d
    <3>1. q = side => u.kid[q][m] = inner
      BY <1>11, <2>1, <2>2
    <3>2. q = Other(side) => u.kid[q][m] = t.kid[Other(side)][d]
      BY <1>3, <1>4, <1>11, <1>14, <2>1, <2>2
    <3>3. t.kid[Other(side)][d] \notin t.red /\ t.kid[Other(side)][d] # d
      <4>1. t.kid[Other(side)][d] # Sentinel => t.kid[Other(side)][d] # d
        BY <1>1, <1>2, <1>3, DownFacts
      <4> QED BY <1>4, <4>1 DEF InLine
    <3>4. q \in {side, Other(side)}
      BY <1>2, CellFacts DEF Other
    <3> QED BY <1>5, <1>9, <1>15, <2>1, <3>1, <3>2, <3>3, <3>4
  <2>3. CASE m # d
    <3>1. m \in t.red
      BY <1>5, <2>1, <2>3
    <3>2. u.kid[q][m] # top
      BY <1>4, <1>5, <2>1
    <3>3. u.kid[q][m] = t.kid[q][m]
      BY <1>11, <2>1, <2>3, <3>2
    <3>4. t.kid[q][m] \notin t.red
      BY <2>1, <3>1 DEF InLine
    <3>5. t.kid[q][m] = d
      BY <1>5, <2>1, <3>3, <3>4
    <3>6. m = p /\ q = SideOf(t, d)
      BY <1>1, <1>2, <2>1, <3>5, OneSlot DEF p
    <3>7. u.kid[q][m] = top
      BY <1>11, <2>1, <2>3, <3>6
    <3> QED BY <3>2, <3>7
  <2> QED BY <2>2, <2>3
<1>17. Root(u) \notin u.red
  <2>1. u.kid["left"][Sentinel] \in {top, t.kid["left"][Sentinel]}
    BY <1>4, <1>11, CellFacts
  <2>2. top \notin S
    BY <1>4, <1>5
  <2>3. ASSUME u.kid["left"][Sentinel] # top PROVE Root(t) # d
    <3>1. ASSUME Root(t) = d PROVE FALSE
      <4>1. p = Sentinel
        BY <1>1, <1>2, <1>4, <3>1, CellFacts DEF Shape, LeftOf, Root, p
      <4>2. SideOf(t, d) = "left"
        BY <1>1, <1>2, <4>1, UpFacts DEF p
      <4> QED BY <1>4, <1>11, <2>3, <4>1, <4>2, CellFacts
    <3> QED BY <3>1
  <2> QED BY <1>2, <1>5, <1>9, <2>1, <2>2, <2>3 DEF Root
<1>18. low \in u.red /\ u.parent[low] = top
  <2>1. low \in Cells /\ low # inner
    BY <1>2, <1>4, <1>13, CellFacts DEF InTree
  <2> QED BY <1>2, <1>4, <1>5, <1>9, <1>11, <2>1
<1>19. top \notin u.red
  BY <1>4, <1>5, <1>9
<1>20. InsertInv(u, low, h, b)
  <2>1. Sound(u, h)
    BY <1>6, <1>9, <1>10 DEF Sound
  <2> QED BY <1>12, <1>16, <1>17, <1>18, <2>1 DEF InsertInv
<1>21. h.at = g.at /\ h.size = g.size
  BY <1>10 DEF TurnedOrder
<1> QED BY <1>9, <1>18, <1>19, <1>20, <1>21

\* A node on the inner side is first brought in line.
LEMMA InsertAlign ==
  ASSUME NEW t, NEW n, NEW g, NEW b, InsertInv(t, n, g, b),
         NEW p, t.parent[n] = p, p \in t.red, NEW d, t.parent[p] = d,
         NEW side, SideOf(t, p) = side, t.kid[Other(side)][d] \notin t.red,
         t.kid[Other(side)][p] = n,
         NEW u, Rotate(t, side, p) = u
  PROVE  /\ \E h : InLine(u, h, b, side, d, n, p) /\ h.at = g.at /\ h.size = g.size
         /\ InTree(u) = InTree(t) /\ u.red = t.red
<1>1. /\ n \in InTree(t) /\ p \in InTree(t) /\ n # p /\ p # Root(t) /\ n # Root(t)
      /\ d \in InTree(t) /\ d \notin t.red /\ d # p /\ d # n
      /\ side \in Sides /\ t.kid[side][d] = p
  BY InsertFamily
<1>2. t \in Trees /\ t.red \subseteq InTree(t) /\ Shape(t.kid, t.parent, g) /\ Even(t, b, Sentinel, "left")
      /\ n \in t.red
  BY DEF InsertInv, Sound
<1>3. /\ Other(side) \in Sides /\ Other(side) # side /\ Other(Other(side)) = side
      /\ \A q \in Sides : q \in {side, Other(side)}
  BY <1>1, Sides2, CellFacts DEF Other
<1>4. \A m \in InTree(t) : m # Sentinel /\ m \in Cells
  BY <1>2, UpFacts
<1>5. n # Sentinel /\ p # Sentinel /\ d # Sentinel
  BY <1>1, <1>4
<1>6. /\ u \in Trees /\ u.red = t.red /\ Turned(t, u, side, p) /\ InTree(u) = InTree(t)
      /\ \E h : TurnedOrder(g, h, side, p, n) /\ Shape(u.kid, u.parent, h)
  <2>1. t.kid[Other(side)][p] # Sentinel
    BY <1>5
  <2> QED BY <1>1, <1>2, <2>1, RotateOK
<1>7. PICK h : TurnedOrder(g, h, side, p, n) /\ Shape(u.kid, u.parent, h)
  BY <1>6
<1> DEFINE inner == t.kid[side][n]
<1>8. \A q \in Sides, x \in Cells :
           u.kid[q][x] = IF x = p /\ q = Other(side) THEN inner
                         ELSE IF x = n /\ q = side THEN p
                         ELSE IF x = d /\ q = side THEN n
                         ELSE t.kid[q][x]
  <2> QED BY <1>6 DEF Turned
<1>9. \A m \in InTree(t), q \in Sides : t.kid[q][m] # m
  <2> SUFFICES ASSUME NEW m \in InTree(t), NEW q \in Sides PROVE t.kid[q][m] # m
    OBVIOUS
  <2>1. \A k : t.kid[q][m] = k /\ k # Sentinel => k # m
    BY <1>2, DownFacts
  <2> QED BY <1>4, <2>1
<1>10. t.kid[side][p] # n
  <2>1. \A k : t.kid[side][p] = k /\ k # Sentinel => t.kid[Other(side)][p] # k
    BY <1>1, <1>2, DownFacts
  <2> QED BY <1>5, <2>1
<1> HIDE DEF inner
<1>11. \A m \in u.red, q \in Sides : u.kid[q][m] \in u.red => m = n /\ u.kid[q][m] = p
  <2> SUFFICES ASSUME NEW m \in u.red, NEW q \in Sides, u.kid[q][m] \in u.red
               PROVE  m = n /\ u.kid[q][m] = p
    OBVIOUS
  <2>1. m \in t.red /\ m \in InTree(t) /\ m \in Cells /\ m # d /\ u.kid[q][m] \in t.red
    BY <1>1, <1>2, <1>4, <1>6
  <2>2. \A k \in t.red, r \in Sides : t.kid[r][k] \in t.red => t.kid[r][k] = n
    BY DEF InsertInv
  <2>3. CASE m = p
    <3>1. CASE q = Other(side)
      <4>1. inner \in t.red
        BY <1>8, <2>1, <2>3, <3>1
      <4>2. inner = n
        BY <1>1, <1>2, <2>2, <4>1 DEF inner
      <4> QED BY <1>1, <1>9, <4>2 DEF inner
    <3>2. CASE q = side
      <4>1. u.kid[q][m] = t.kid[side][p]
        BY <1>1, <1>3, <1>8, <2>1, <2>3, <3>2
      <4> QED BY <1>1, <1>10, <2>1, <2>2, <2>3, <4>1
    <3> QED BY <1>3, <3>1, <3>2
  <2>4. CASE m = n
    <3>1. CASE q = side
      BY <1>1, <1>8, <2>1, <2>4, <3>1
    <3>2. CASE q = Other(side)
      <4>1. u.kid[q][m] = t.kid[q][n]
        BY <1>1, <1>3, <1>8, <2>1, <2>4, <3>2
      <4>2. t.kid[q][n] = n
        BY <1>2, <2>1, <2>2, <4>1
      <4> QED BY <1>1, <1>9, <4>2
    <3> QED BY <1>3, <3>1, <3>2
  <2>5. CASE m \notin {p, n}
    <3>1. u.kid[q][m] = t.kid[q][m]
      BY <1>8, <2>1, <2>5
    <3>2. t.kid[q][m] = n
      BY <2>1, <2>2, <3>1
    <3>3. m = p
      BY <1>1, <1>2, <2>1, <3>2, OneSlot
    <3> QED BY <2>5, <3>3
  <2> QED BY <2>3, <2>4, <2>5
<1>12. Even(u, b, Sentinel, "left")
  <2>1. /\ p \in u.red /\ (n \in u.red <=> p \in t.red)
        /\ \A x \in Cells \ {p, n} : x \in u.red <=> x \in t.red
    BY <1>2, <1>6
  <2>2. Sentinel # p /\ Sentinel # n /\ n # Sentinel
    BY <1>5
  <2>3. Shape(t.kid, t.parent, g) /\ Even(t, b, Sentinel, "left") /\ t \in Trees /\ n \in t.red
    BY <1>2
  <2>4. u \in Trees /\ Turned(t, u, side, p) /\ InTree(u) = InTree(t)
    BY <1>6
  <2>5. p \in InTree(t) /\ side \in Sides
    BY <1>1
  <2> QED BY <2>1, <2>2, <2>3, <2>4, <2>5, RotateEven
<1>13. Root(u) \notin u.red
  <2>1. Root(u) = Root(t)
    BY <1>5, <1>8, CellFacts DEF Root
  <2> QED BY <1>1, <1>6, <2>1 DEF InsertInv
<1>14. u.kid[side][d] = n /\ u.kid[side][n] = p /\ u.kid[Other(side)][d] = t.kid[Other(side)][d]
  BY <1>1, <1>3, <1>4, <1>8
<1>15. InLine(u, h, b, side, d, n, p)
  <2>1. Sound(u, h)
    BY <1>2, <1>6, <1>7 DEF Sound
  <2> QED BY <1>1, <1>2, <1>6, <1>11, <1>12, <1>13, <1>14, <2>1 DEF InLine
<1> QED BY <1>6, <1>7, <1>15 DEF TurnedOrder

\* The last case of the repair, from a node in line with its parent or not.
LEMMA InsertAligned ==
  ASSUME NEW t, NEW n, NEW g, NEW b, InsertInv(t, n, g, b),
         NEW p, t.parent[n] = p, p \in t.red, NEW d, t.parent[p] = d,
         NEW side, SideOf(t, p) = side, t.kid[Other(side)][d] \notin t.red,
         t.kid[Other(side)][p] # n
  PROVE  InLine(t, g, b, side, d, p, n)
<1>1. /\ n \in InTree(t) /\ p \in InTree(t) /\ n # p /\ p # Root(t) /\ n # Root(t)
      /\ d \in InTree(t) /\ d \notin t.red /\ d # p /\ d # n
      /\ side \in Sides /\ t.kid[side][d] = p
      /\ SideOf(t, n) \in Sides /\ t.kid[SideOf(t, n)][p] = n
  BY InsertFamily
<1>2. t \in Trees /\ t.red \subseteq InTree(t) /\ Shape(t.kid, t.parent, g) /\ n \in t.red
  BY DEF InsertInv, Sound
<1>3. t.kid[side][p] = n
  BY <1>1, CellFacts DEF Other
<1>4. \A m \in t.red, q \in Sides : t.kid[q][m] \in t.red => m = p /\ t.kid[q][m] = n
  <2> SUFFICES ASSUME NEW m \in t.red, NEW q \in Sides, t.kid[q][m] \in t.red
               PROVE  m = p /\ t.kid[q][m] = n
    OBVIOUS
  <2>1. t.kid[q][m] = n /\ m \in InTree(t)
    BY <1>2 DEF InsertInv
  <2> QED BY <1>1, <1>2, <2>1, OneSlot
<1> QED BY <1>1, <1>2, <1>3, <1>4 DEF InLine, InsertInv

\* One pass of js_rbtree_insert_fixup keeps InsertInv and ends, or moves to a
\* node with a wider span.
LEMMA InsertPassOK ==
  ASSUME NEW t, NEW n, NEW g, NEW b, InsertInv(t, n, g, b), t.parent[n] \in t.red,
         NEW r, InsertPass(t, n) = r
  PROVE  \E h, c : /\ InsertInv(r.tree, r.at, h, c)
                   /\ h.at = g.at /\ h.size = g.size /\ InTree(r.tree) = InTree(t)
                   /\ \/ r.tree.parent[r.at] \notin r.tree.red
                      \/ g.hi[n] - g.lo[n] < h.hi[r.at] - h.lo[r.at]
                   /\ r = [tree |-> r.tree, at |-> r.at]
<1>1. PICK p : t.parent[n] = p
  OBVIOUS
<1>2. PICK d : t.parent[p] = d
  OBVIOUS
<1>3. PICK side : SideOf(t, p) = side
  OBVIOUS
<1>4. PICK uncle : t.kid[Other(side)][d] = uncle
  OBVIOUS
<1>5. p \in t.red
  BY <1>1
<1>6. /\ n \in InTree(t) /\ p \in InTree(t) /\ d \in InTree(t) /\ side \in Sides
  BY <1>1, <1>2, <1>3, <1>5, InsertFamily
<1>7. t \in Trees /\ d \in Nodes
  BY <1>6 DEF InsertInv, Sound, InTree
<1>8. CASE uncle \in t.red
  <2>1. PICK u : Redden(Blacken(t, {uncle, p}), d) = u
    OBVIOUS
  <2>2. r = [tree |-> u, at |-> d]
    BY <1>1, <1>2, <1>3, <1>4, <1>5, <1>8, <2>1 DEF InsertPass
  <2>3. Recoloured(t, u, (t.red \ {uncle, p}) \cup {d})
    BY <1>7, <2>1, Paint, Zenon
  <2>4. t.kid[Other(SideOf(t, p))][d] = uncle
    BY <1>3, <1>4
  <2>5. /\ \E c : InsertInv(u, d, g, c)
        /\ InTree(u) = InTree(t)
        /\ g.hi[n] - g.lo[n] < g.hi[d] - g.lo[d]
    BY <1>1, <1>2, <1>5, <1>8, <2>3, <2>4, InsertUp
  <2>6. r.tree = u /\ r.at = d
    BY <2>2
  <2> QED BY <2>2, <2>5, <2>6
<1>9. CASE uncle \notin t.red
  <2>1. PICK s, top, low, h :
          /\ InLine(s, h, b, side, d, top, low) /\ h.at = g.at /\ h.size = g.size
          /\ InTree(s) = InTree(t)
          /\ r = [tree |-> Rotate(Redden(Blacken(s, {top}), d), Other(side), d), at |-> low]
    <3>1. CASE t.kid[Other(side)][p] = n
      <4>1. PICK s : Rotate(t, side, p) = s
        OBVIOUS
      <4>2. r = [tree |-> Rotate(Redden(Blacken(s, {n}), d), Other(side), d), at |-> p]
        BY <1>1, <1>2, <1>3, <1>4, <1>5, <1>9, <3>1, <4>1 DEF InsertPass
      <4>3. t.kid[Other(side)][d] \notin t.red
        BY <1>4, <1>9
      <4>4. /\ \E h : InLine(s, h, b, side, d, n, p) /\ h.at = g.at /\ h.size = g.size
            /\ InTree(s) = InTree(t) /\ s.red = t.red
        BY <1>1, <1>2, <1>3, <1>5, <3>1, <4>1, <4>3, InsertAlign
      <4> QED BY <4>2, <4>4, Zenon
    <3>2. CASE t.kid[Other(side)][p] # n
      <4>1. r = [tree |-> Rotate(Redden(Blacken(t, {p}), d), Other(side), d), at |-> n]
        BY <1>1, <1>2, <1>3, <1>4, <1>5, <1>9, <3>2 DEF InsertPass
      <4>2. t.kid[Other(side)][d] \notin t.red
        BY <1>4, <1>9
      <4>3. InLine(t, g, b, side, d, p, n)
        BY <1>1, <1>2, <1>3, <1>5, <3>2, <4>2, InsertAligned
      <4> QED BY <4>1, <4>3, Zenon
    <3> QED BY <3>1, <3>2, Zenon
  <2>2. PICK v : Redden(Blacken(s, {top}), d) = v
    OBVIOUS
  <2>9. PICK S : (s.red \ {top}) \cup {d} = S
    BY Zenon
  <2>3. Recoloured(s, v, S)
    <3>1. s \in Trees
      BY <2>1 DEF InLine, Sound
    <3>2. Recoloured(s, v, (s.red \ {top}) \cup {d})
      BY <1>7, <2>2, <3>1, Paint
    <3> QED BY <2>9, <3>2, Zenon
  <2>4. PICK u : Rotate(v, Other(side), d) = u
    OBVIOUS
  <2>5. InLine(s, h, b, side, d, top, low)
    BY <2>1
  <2>6. /\ \E k : InsertInv(u, low, k, b) /\ k.at = h.at /\ k.size = h.size
        /\ InTree(u) = InTree(s)
        /\ u.parent[low] \notin u.red
    BY <2>3, <2>4, <2>5, <2>9, InsertLine
  <2>7. r = [tree |-> u, at |-> low]
    BY <2>1, <2>2, <2>4
  <2>8. r.tree = u /\ r.at = low
    BY <2>7
  <2> QED BY <2>1, <2>6, <2>7, <2>8
<1> QED BY <1>8, <1>9

-----------------------------------------------------------------------------
(* Loops *)

\* f lists the states of a loop.
MadeBy(N, F, s, f) == f = [k \in 0 .. N |-> IF k = 0 THEN s ELSE F[f[k - 1]]]

\* What a loop is defined by is there, whatever a pass does.
LEMMA LoopExists ==
  ASSUME NEW N \in Nat, NEW F, NEW s
  PROVE  \E f : MadeBy(N, F, s, f)
<1> DEFINE After(f, k) == IF k = 0 THEN s ELSE F[f[k - 1]]
           Made(f, k)  == f = [i \in 0 .. k |-> After(f, i)]
           With        == {k \in 0 .. N : \E f : Made(f, k)}
<1>1. 0 \in With
  <2> DEFINE f == [i \in 0 .. 0 |-> s]
  <2>1. \A i \in 0 .. 0 : After(f, i) = s
    OBVIOUS
  <2>2. Made(f, 0)
    BY <2>1
  <2>3. 0 \in 0 .. N
    OBVIOUS
  <2> QED BY <2>2, <2>3, Zenon
<1>2. ASSUME NEW k \in With, k < N PROVE k + 1 \in With
  <2>1. k \in 0 .. N /\ k + 1 \in 0 .. N
    BY <1>2
  <2>2. PICK f : Made(f, k)
    BY <1>2, Zenon
  <2> DEFINE g == [i \in 0 .. k + 1 |-> IF i = k + 1 THEN After(f, k + 1) ELSE f[i]]
  <2>3. \A i \in 0 .. k : f[i] = After(f, i)
    <3>1. f = [i \in 0 .. k |-> After(f, i)]
      BY <2>2
    <3> HIDE DEF After
    <3>2. \A i \in 0 .. k : [m \in 0 .. k |-> After(f, m)][i] = After(f, i)
      BY Zenon
    <3> QED BY <3>1, <3>2, Zenon
  <2>4. /\ \A i \in 0 .. k : g[i] = f[i]
        /\ g[k + 1] = After(f, k + 1)
    BY <2>1
  <2>5. g = [i \in 0 .. k + 1 |-> g[i]]
    OBVIOUS
  <2> HIDE DEF g
  <2>6. \A i \in 0 .. k + 1 : g[i] = After(g, i)
    <3> SUFFICES ASSUME NEW i \in 0 .. k + 1 PROVE g[i] = After(g, i)
      OBVIOUS
    <3>1. CASE i = 0
      BY <2>1, <2>3, <2>4, <3>1
    <3>2. CASE i # 0 /\ i # k + 1
      BY <2>1, <2>3, <2>4, <3>2
    <3>3. CASE i = k + 1
      BY <2>1, <2>4, <3>3
    <3> QED BY <3>1, <3>2, <3>3
  <2>7. Made(g, k + 1)
    <3> HIDE DEF After
    <3> QED BY <2>5, <2>6
  <2> QED BY <2>1, <2>7, Zenon
<1>3. N \in With
  <2> HIDE DEF With
  <2>1. With \in SUBSET (0 .. N)
    BY DEF With
  <2> QED BY <1>1, <1>2, <2>1, CountUp
<1> QED BY <1>3, Zenon DEF MadeBy

\* The i-th pass finds the state in G[i] and leaves it in G[i + 1], or among
\* those the loop ends in.
Advances(N, F, s, Done, G) ==
  /\ s \in G[0]
  /\ \A i \in 0 .. N - 1 : \A x \in G[i] : F[x] \in Done \/ F[x] \in G[i + 1]
  /\ \A x \in Done : F[x] = x
  /\ \A x \in G[N] : x \in Done

\* f follows the passes F as long as they are defined.
Follows(N, F, s, Done, G, f) ==
  /\ f[0] = s
  /\ \A k \in 1 .. N : f[k - 1] \in Done \/ f[k - 1] \in G[k - 1] => f[k] = F[f[k - 1]]

\* A loop that advances is done after as many passes as there are levels.
LEMMA LoopEnds ==
  ASSUME NEW N \in Nat, NEW F, NEW s, NEW Done, NEW G, Advances(N, F, s, Done, G),
         NEW f, Follows(N, F, s, Done, G, f)
  PROVE  /\ \A k \in 0 .. N : f[k] \in Done \/ f[k] \in G[k]
         /\ f[N] \in Done
<1> DEFINE P == {k \in 0 .. N : \A i \in 0 .. k : f[i] \in Done \/ f[i] \in G[i]}
<1>1. 0 \in P
  BY DEF Advances, Follows
<1>2. ASSUME NEW k \in P, k < N PROVE k + 1 \in P
  <2>1. k \in 0 .. N - 1 /\ k + 1 \in 1 .. N /\ (k + 1) - 1 = k
    BY <1>2
  <2>2. f[k] \in Done \/ f[k] \in G[k]
    BY <1>2
  <2>3. f[k + 1] = F[f[k]]
    BY <2>1, <2>2 DEF Follows
  <2>4. f[k + 1] \in Done \/ f[k + 1] \in G[k + 1]
    BY <2>1, <2>2, <2>3 DEF Advances
  <2> QED BY <2>1, <2>4
<1>3. N \in P
  <2> HIDE DEF P
  <2>1. P \in SUBSET (0 .. N)
    BY DEF P
  <2> QED BY <1>1, <1>2, <2>1, CountUp
<1> QED BY <1>3 DEF Advances

\* The states of a loop that advances stay in its levels.
LEMMA LoopLeads ==
  ASSUME NEW N \in Nat, NEW F, NEW s, NEW Done, NEW G, Advances(N, F, s, Done, G)
  PROVE  \E f : MadeBy(N, F, s, f) /\ \A k \in 0 .. N : f[k] \in Done \/ f[k] \in G[k]
<1>1. PICK f : MadeBy(N, F, s, f)
  BY LoopExists
<1>2. f = [k \in 0 .. N |-> f[k]] /\ f[0] = s /\ \A k \in 1 .. N : f[k] = F[f[k - 1]]
  BY <1>1 DEF MadeBy
<1>3. Follows(N, F, s, Done, G, f)
  BY <1>2 DEF Follows
<1>4. \A k \in 0 .. N : f[k] \in Done \/ f[k] \in G[k]
  BY <1>3, LoopEnds
<1> QED BY <1>1, <1>4

\* An order has no more positions than there are nodes and the sentinel.
LEMMA SizeBound ==
  ASSUME NEW t, NEW g, Sound(t, g)
  PROVE  /\ g.size \in Nat /\ g.size >= 1 /\ Cardinality(Nodes) \in Nat
         /\ g.size - 1 <= Cardinality(Nodes)
         /\ \A n \in InTree(t) : g.hi[n] - g.lo[n] \in 0 .. Cardinality(Nodes) - 1
<1>1. Numbered(t.parent, g) /\ g \in Orders
  BY DEF Sound, Shape, Numbered
<1>2. g.size \in Nat /\ g.size >= 1
  <2>1. Sentinel \in InCells(t.parent) /\ Sentinel \in Cells
    BY CellFacts
  <2>2. g.size \in Nat /\ g.pos[Sentinel] \in Int /\ g.lo[Sentinel] \in Int
    BY <1>1, <2>1 DEF Orders
  <2> QED BY <1>1, <2>1, <2>2 DEF Numbered
<1>3. Cardinality(Nodes) \in Nat
  BY NodesAssumption, FS_CardinalityType
<1>4. \A i \in 1 .. g.size : g.at[i] \in InCells(t.parent) /\ g.pos[g.at[i]] = i
  BY <1>1 DEF Numbered
<1>5. g.size - 1 <= Cardinality(Nodes)
  <2> DEFINE m == g.size - 1
             f == [i \in 1 .. m |-> g.at[i]]
  <2>1. m \in Nat /\ m < g.size
    BY <1>2
  <2>2. \A i \in 1 .. m : i \in 1 .. g.size /\ i # g.size
    BY <1>2
  <2>3. \A i \in 1 .. m : g.at[i] \in Nodes
    <3> SUFFICES ASSUME NEW i \in 1 .. m PROVE g.at[i] \in Nodes
      OBVIOUS
    <3>1. g.at[i] \in InCells(t.parent) /\ g.pos[g.at[i]] = i /\ i # g.size
      BY <1>4, <2>2
    <3>2. g.at[i] # Sentinel
      BY <1>1, <3>1 DEF Numbered
    <3> QED BY <3>1, <3>2, CellFacts
  <2>4. f \in Injection(1 .. m, Nodes)
    <3>1. f \in [1 .. m -> Nodes]
      BY <2>3
    <3>2. \A i, j \in 1 .. m : f[i] = f[j] => i = j
      BY <1>4, <2>2
    <3> QED BY <3>1, <3>2, Zenon DEF Injection, IsInjective
  <2>5. Cardinality(1 .. m) <= Cardinality(Nodes)
    <3> HIDE DEF f, m
    <3> QED BY <2>4, NodesAssumption, FS_Injection
  <2>6. Cardinality(1 .. m) = m
    <3>1. 1 \in Int /\ m \in Int
      BY <2>1
    <3> HIDE DEF m
    <3>2. Cardinality(1 .. m) = IF 1 > m THEN 0 ELSE m - 1 + 1
      BY <3>1, FS_Interval
    <3> QED BY <2>1, <3>1, <3>2
  <2> QED BY <2>5, <2>6
<1>6. ASSUME NEW n \in InTree(t) PROVE g.hi[n] - g.lo[n] \in 0 .. Cardinality(Nodes) - 1
  <2>1. n \in Cells /\ n # Sentinel /\ n \in InCells(t.parent)
    BY NodesAssumption DEF InTree, InCells, InNodes, Cells, Sentinel
  <2>2. g.hi[n] \in Int /\ g.lo[n] \in Int /\ g.pos[n] \in Int
    BY <1>1, <2>1 DEF Orders
  <2>3. 1 <= g.lo[n] /\ g.lo[n] <= g.pos[n] /\ g.pos[n] <= g.hi[n] /\ g.hi[n] < g.size
    BY <1>1, <2>1 DEF Numbered
  <2> QED BY <1>2, <1>3, <1>5, <2>2, <2>3
<1> QED BY <1>2, <1>3, <1>5, <1>6

-----------------------------------------------------------------------------
(* The repair after an insertion *)

\* What the repair leaves: a node whose parent is black.
InsertEnd(t, m, g, T) ==
  \E h, c : /\ InsertInv(t, m, h, c) /\ h.at = g.at /\ h.size = g.size
            /\ InTree(t) = T

\* js_rbtree_insert_fixup ends, within the passes Loop allows it, with nothing
\* left to repair.
LEMMA InsertFixupOK ==
  ASSUME NEW t, NEW n, NEW g, NEW b, InsertInv(t, n, g, b),
         NEW u, InsertFixup(t, n) = u
  PROVE  \E m : InsertEnd(u, m, g, InTree(t)) /\ u.parent[m] \notin u.red
<1> DEFINE N  == Cardinality(Nodes)
           T  == InTree(t)
           Pass(x) == InsertPass(x.tree, x.at)
           States == [tree : Trees, at : Nodes]
           s0 == [tree |-> t, at |-> n]
           Wide(x, i) == \E h, c : /\ InsertInv(x.tree, x.at, h, c) /\ h.at = g.at /\ h.size = g.size
                                   /\ InTree(x.tree) = T /\ h.hi[x.at] - h.lo[x.at] >= i
           Good(i) == {x \in States : Wide(x, i)}
           Done == {x \in Good(0) : x.tree.parent[x.at] \notin x.tree.red}
           G == [i \in 0 .. N |-> Good(i)]
           F == [x \in Good(0) |-> Pass(x)]
<1>1. N \in Nat
  BY SizeBound DEF InsertInv
<1>2. ASSUME NEW x, NEW h, NEW c, InsertInv(x.tree, x.at, h, c), x = [tree |-> x.tree, at |-> x.at]
      PROVE  x \in States /\ h.hi[x.at] - h.lo[x.at] \in 0 .. N - 1
  <2>1. x.tree \in Trees /\ x.at \in InTree(x.tree)
    BY <1>2 DEF InsertInv, Sound
  <2>2. x.at \in Nodes
    BY <2>1 DEF InTree
  <2>3. h.hi[x.at] - h.lo[x.at] \in 0 .. N - 1
    BY <1>2, <2>1, SizeBound DEF InsertInv
  <2> QED BY <1>2, <2>1, <2>2, <2>3
<1>3. s0 \in Good(0)
  <2>1. s0.tree = t /\ s0.at = n /\ s0 = [tree |-> s0.tree, at |-> s0.at]
    OBVIOUS
  <2>2. s0 \in States /\ g.hi[n] - g.lo[n] \in 0 .. N - 1
    BY <1>2, <2>1, Zenon
  <2>3. g.hi[n] - g.lo[n] >= 0
    BY <1>1, <2>2
  <2> HIDE DEF s0
  <2>4. Wide(s0, 0)
    BY <2>1, <2>3
  <2> QED BY <2>2, <2>4
<1>4. ASSUME NEW i \in 0 .. N, NEW x \in Good(i) PROVE x \in Good(0)
  <2>1. PICK h, c : /\ InsertInv(x.tree, x.at, h, c) /\ h.at = g.at /\ h.size = g.size
                    /\ InTree(x.tree) = T /\ h.hi[x.at] - h.lo[x.at] >= i
    BY <1>4
  <2>2. x = [tree |-> x.tree, at |-> x.at]
    BY <1>4
  <2>3. h.hi[x.at] - h.lo[x.at] >= 0
    BY <1>1, <1>2, <2>1, <2>2
  <2> QED BY <2>1, <2>3
<1>5. ASSUME NEW i \in 0 .. N, NEW x \in Good(i), x \notin Done
      PROVE  Pass(x) \in Done \/ Pass(x) \in Good(i + 1)
  <2>1. PICK h, c : /\ InsertInv(x.tree, x.at, h, c) /\ h.at = g.at /\ h.size = g.size
                    /\ InTree(x.tree) = T /\ h.hi[x.at] - h.lo[x.at] >= i
    BY <1>5
  <2>2. x.tree.parent[x.at] \in x.tree.red
    BY <1>4, <1>5
  <2>3. PICK r : Pass(x) = r
    OBVIOUS
  <2>4. PICK k, d : /\ InsertInv(r.tree, r.at, k, d)
                    /\ k.at = h.at /\ k.size = h.size /\ InTree(r.tree) = InTree(x.tree)
                    /\ \/ r.tree.parent[r.at] \notin r.tree.red
                       \/ h.hi[x.at] - h.lo[x.at] < k.hi[r.at] - k.lo[r.at]
                    /\ r = [tree |-> r.tree, at |-> r.at]
    BY <2>1, <2>2, <2>3, InsertPassOK
  <2>5. r \in States /\ k.hi[r.at] - k.lo[r.at] \in 0 .. N - 1
    BY <1>2, <2>4
  <2>6. CASE r.tree.parent[r.at] \notin r.tree.red
    <3>1. Wide(r, 0)
      BY <1>1, <2>1, <2>4, <2>5
    <3> QED BY <2>3, <2>5, <2>6, <3>1
  <2>7. CASE h.hi[x.at] - h.lo[x.at] < k.hi[r.at] - k.lo[r.at]
    <3>1. x = [tree |-> x.tree, at |-> x.at]
      BY <1>5
    <3>2. h.hi[x.at] - h.lo[x.at] \in 0 .. N - 1
      BY <1>2, <2>1, <3>1
    <3>3. k.hi[r.at] - k.lo[r.at] >= i + 1
      BY <1>1, <2>1, <2>5, <2>7, <3>2
    <3>4. Wide(r, i + 1)
      BY SMTT(30), <2>1, <2>4, <3>3
    <3> QED BY <2>3, <2>5, <3>4
  <2> QED BY <2>4, <2>6, <2>7
<1>6. ASSUME NEW x \in Done PROVE Pass(x) = x
  <2>1. x = [tree |-> x.tree, at |-> x.at] /\ x.tree.parent[x.at] \notin x.tree.red
    BY <1>6
  <2> QED BY <2>1 DEF InsertPass
<1>7. ASSUME NEW x \in Good(N) PROVE x \in Done
  <2>1. PICK h, c : /\ InsertInv(x.tree, x.at, h, c) /\ h.hi[x.at] - h.lo[x.at] >= N
    BY <1>7
  <2>2. x = [tree |-> x.tree, at |-> x.at]
    BY <1>7
  <2>3. h.hi[x.at] - h.lo[x.at] \in 0 .. N - 1
    BY <1>2, <2>1, <2>2
  <2> QED BY <1>1, <2>1, <2>3
<1> HIDE DEF N, Good, Pass
<1>8. Advances(N, F, s0, Done, G)
  <2>1. 0 \in 0 .. N /\ N \in 0 .. N /\ \A i \in 0 .. N - 1 : i \in 0 .. N /\ i + 1 \in 0 .. N
    BY <1>1
  <2>2. \A x \in Done : x \in Good(0)
    OBVIOUS
  <2>3. ASSUME NEW i \in 0 .. N - 1, NEW x \in G[i] PROVE F[x] \in Done \/ F[x] \in G[i + 1]
    <3>1. x \in Good(i) /\ i \in 0 .. N
      BY <2>1, <2>3
    <3>2. x \in Good(0)
      BY <1>4, <3>1
    <3>3. F[x] = Pass(x)
      BY <3>2
    <3>4. CASE x \in Done
      BY <1>6, <3>3, <3>4
    <3>5. CASE x \notin Done
      <4>1. Pass(x) \in Done \/ Pass(x) \in Good(i + 1)
        BY <1>5, <3>1, <3>5
      <4> QED BY <2>1, <3>3, <4>1
    <3> QED BY <3>4, <3>5
  <2>4. \A x \in Done : F[x] = x
    BY <1>6, <2>2
  <2>5. \A x \in G[N] : x \in Done
    BY <1>7, <2>1
  <2>6. s0 \in G[0]
    BY <1>3, <2>1
  <2> QED BY <2>3, <2>4, <2>5, <2>6, Zenon DEF Advances
<1>9. \A i \in 0 .. N : G[i] \subseteq Good(0)
  BY <1>4
<1>10. \A x \in Done : x \in Good(0)
  OBVIOUS
<1> DEFINE Made(f) == f = [k \in 0 .. N |-> IF k = 0 THEN s0 ELSE Pass(f[k - 1])]
<1>11. \E f : Made(f)
  <2>1. PICK f : MadeBy(N, F, s0, f) /\ \A k \in 0 .. N : f[k] \in Done \/ f[k] \in G[k]
    <3> HIDE DEF F, s0, Done, G
    <3> QED BY <1>1, <1>8, LoopLeads
  <2>4. \A k \in 0 .. N : f[k] \in Good(0)
    BY <1>9, <1>10, <2>1
  <2>5. \A k \in 1 .. N : F[f[k - 1]] = Pass(f[k - 1])
    BY <1>1, <2>4
  <2>6. [k \in 0 .. N |-> IF k = 0 THEN s0 ELSE F[f[k - 1]]]
        = [k \in 0 .. N |-> IF k = 0 THEN s0 ELSE Pass(f[k - 1])]
    <3> HIDE DEF F, s0
    <3>1. \A k \in 0 .. N : k # 0 => k \in 1 .. N
      BY <1>1
    <3> QED BY <2>5, <3>1
  <2> QED BY <2>1, <2>6, Zenon DEF MadeBy
<1>12. PICK f : f = CHOOSE x : Made(x)
  OBVIOUS
<1>13. Made(f)
  <2> HIDE DEF Made
  <2> QED BY <1>11, <1>12
<1>14. f[0] = s0 /\ \A k \in 1 .. N : f[k] = Pass(f[k - 1])
  <2> HIDE DEF s0
  <2> QED BY <1>1, <1>13
<1>15. f[N] \in Done
  <2>1. \A k \in 1 .. N : f[k - 1] \in Done \/ f[k - 1] \in G[k - 1] => f[k] = F[f[k - 1]]
    <3> SUFFICES ASSUME NEW k \in 1 .. N, f[k - 1] \in Done \/ f[k - 1] \in G[k - 1]
                 PROVE  f[k] = F[f[k - 1]]
      OBVIOUS
    <3>1. k - 1 \in 0 .. N
      BY <1>1
    <3>2. f[k - 1] \in Good(0)
      BY <1>9, <1>10, <3>1
    <3> QED BY <1>14, <3>2
  <2> HIDE DEF F, s0, Done, G
  <2>2. Follows(N, F, s0, Done, G, f)
    BY <1>14, <2>1 DEF Follows
  <2> QED BY <1>1, <1>8, <2>2, LoopEnds
<1>16. u = f[N].tree
  BY <1>12 DEF InsertFixup, Loop, N, Pass
<1> QED BY <1>15, <1>16 DEF Good, InsertEnd

-----------------------------------------------------------------------------
(* The search for the place of a node *)

\* The positions a subtree on the side s of c spans, and where a new node on
\* that side goes.
SlotLo(g, c, s) == IF s = "left" THEN g.lo[c] ELSE g.pos[c] + 1
SlotHi(g, c, s) == IF s = "left" THEN g.pos[c] - 1 ELSE g.hi[c]

\* The places a search can be at.
Slot(t, c, s) == c \in InCells(t.parent) /\ s \in Sides /\ (c = Sentinel => s = "left")

\* The numbers of what hangs on side s of c.
LEMMA SlotFacts ==
  ASSUME NEW t, NEW g, Sound(t, g), NEW c, NEW s, Slot(t, c, s), NEW k, t.kid[s][c] = k
  PROVE  /\ k \in InCells(t.parent)
         /\ SlotLo(g, c, s) \in Int /\ SlotHi(g, c, s) \in Int
         /\ 1 <= SlotLo(g, c, s) /\ SlotHi(g, c, s) < g.size
         /\ k = Sentinel => SlotHi(g, c, s) = SlotLo(g, c, s) - 1
         /\ k # Sentinel => /\ k \in InTree(t) /\ t.parent[k] = c
                            /\ g.lo[k] = SlotLo(g, c, s) /\ g.hi[k] = SlotHi(g, c, s)
                            /\ g.pos[k] \in Int /\ g.lo[k] <= g.pos[k] /\ g.pos[k] <= g.hi[k]
                            /\ g.pos[k] \in 1 .. g.size - 1 /\ g.at[g.pos[k]] = k
<1>1. /\ t \in Trees /\ Shape(t.kid, t.parent, g) /\ Numbered(t.parent, g) /\ g \in Orders
  BY DEF Sound, Shape, Numbered
<1>2. /\ c \in InCells(t.parent) /\ c \in Cells /\ s \in Sides /\ (c = Sentinel => s = "left")
  BY CellFacts DEF Slot
<1>3. /\ g.lo[c] \in Int /\ g.pos[c] \in Int /\ g.hi[c] \in Int /\ g.size \in Nat
  BY <1>1, <1>2 DEF Orders
<1>4. /\ 1 <= g.lo[c] /\ g.lo[c] <= g.pos[c] /\ g.pos[c] <= g.hi[c] /\ g.hi[c] <= g.size
      /\ c # Sentinel => g.hi[c] < g.size
      /\ c = Sentinel => g.pos[c] = g.size
  BY <1>1, <1>2 DEF Numbered
<1>5. /\ k \in InCells(t.parent)
      /\ k = Sentinel => SlotHi(g, c, s) = SlotLo(g, c, s) - 1
      /\ k # Sentinel => t.parent[k] = c /\ g.lo[k] = SlotLo(g, c, s) /\ g.hi[k] = SlotHi(g, c, s)
  <2>1. CASE s = "left"
    <3>1. LeftOf(t.kid, t.parent, g, c)
      BY <1>1, <1>2 DEF Shape
    <3> QED BY <1>3, <2>1, <3>1 DEF LeftOf, SlotLo, SlotHi
  <2>2. CASE s = "right"
    <3>1. c \in InNodes(t.parent)
      BY <1>2, <2>2, CellFacts
    <3>2. RightOf(t.kid, t.parent, g, c)
      BY <1>1, <3>1 DEF Shape
    <3> QED BY <1>3, <2>2, <3>2, CellFacts DEF RightOf, SlotLo, SlotHi
  <2> QED BY <1>2, <2>1, <2>2, CellFacts
<1>6. SlotLo(g, c, s) \in Int /\ SlotHi(g, c, s) \in Int /\ 1 <= SlotLo(g, c, s) /\ SlotHi(g, c, s) < g.size
  <2>1. CASE s = "left"
    BY <1>3, <1>4, <2>1 DEF SlotLo, SlotHi
  <2>2. CASE s # "left"
    BY <1>2, <1>3, <1>4, <2>2 DEF SlotLo, SlotHi
  <2> QED BY <2>1, <2>2
<1>7. ASSUME k # Sentinel
      PROVE /\ k \in InTree(t)
            /\ g.pos[k] \in Int /\ g.lo[k] <= g.pos[k] /\ g.pos[k] <= g.hi[k]
            /\ g.pos[k] \in 1 .. g.size - 1 /\ g.at[g.pos[k]] = k
  <2>1. k \in InNodes(t.parent) /\ k \in Cells
    BY <1>5, <1>7, CellFacts
  <2>2. g.pos[k] \in Int /\ g.lo[k] \in Int /\ g.hi[k] \in Int
    BY <1>1, <2>1 DEF Orders
  <2>3. /\ g.lo[k] <= g.pos[k] /\ g.pos[k] <= g.hi[k] /\ 1 <= g.lo[k] /\ g.hi[k] < g.size
        /\ g.at[g.pos[k]] = k
    BY <1>1, <1>5, <1>7 DEF Numbered
  <2> QED BY <1>3, <2>1, <2>2, <2>3 DEF InTree, InNodes
<1> QED BY <1>5, <1>6, <1>7

\* The keys ascend along the order.
Keyed(g) == \A i, j \in 1 .. g.size - 1 : i <= j => Key[g.at[i]] <= Key[g.at[j]]

\* The nodes before a span are not above the key of n, those behind it are.
Around(g, n, lo, hi) ==
  \A i \in 1 .. g.size - 1 : /\ i < lo => Key[g.at[i]] <= Key[n]
                             /\ i > hi => Key[n] < Key[g.at[i]]

\* Every position but the last holds a node with a key.
LEMMA KeysAt ==
  ASSUME NEW t, NEW g, Sound(t, g)
  PROVE  \A i \in 1 .. g.size - 1 : g.at[i] \in InTree(t) /\ Key[g.at[i]] \in Int
<1> SUFFICES ASSUME NEW i \in 1 .. g.size - 1 PROVE g.at[i] \in InTree(t) /\ Key[g.at[i]] \in Int
  OBVIOUS
<1>1. Numbered(t.parent, g)
  BY DEF Sound, Shape
<1>2. g.size \in Nat
  BY SizeBound
<1>3. i \in 1 .. g.size /\ i # g.size
  BY <1>2
<1>4. g.at[i] \in InCells(t.parent) /\ g.at[i] # Sentinel
  BY <1>1, <1>3 DEF Numbered
<1>5. g.at[i] \in InNodes(t.parent) /\ g.at[i] \in Nodes
  BY <1>4, CellFacts
<1> QED BY <1>5, KeyAssumption DEF InTree, InNodes

\* One pass of the search.
LEMMA SeekOK ==
  ASSUME NEW t, NEW g, Sound(t, g), Keyed(g), NEW n \in Nodes,
         NEW c, NEW s, Slot(t, c, s), Around(g, n, SlotLo(g, c, s), SlotHi(g, c, s)),
         NEW k, t.kid[s][c] = k, k # Sentinel
  PROVE  \E q : /\ Seek(t, n, <<c, s>>) = <<k, q>>
                /\ Slot(t, k, q) /\ Around(g, n, SlotLo(g, k, q), SlotHi(g, k, q))
                /\ SlotHi(g, k, q) - SlotLo(g, k, q) < SlotHi(g, c, s) - SlotLo(g, c, s)
<1> DEFINE q == IF GoesLeft(n, k) THEN "left" ELSE "right"
<1>1. /\ k \in InCells(t.parent)
      /\ SlotLo(g, c, s) \in Int /\ SlotHi(g, c, s) \in Int
      /\ k \in InTree(t) /\ k \in Nodes
      /\ g.lo[k] = SlotLo(g, c, s) /\ g.hi[k] = SlotHi(g, c, s)
      /\ g.pos[k] \in Int /\ g.lo[k] <= g.pos[k] /\ g.pos[k] <= g.hi[k]
      /\ g.pos[k] \in 1 .. g.size - 1 /\ g.at[g.pos[k]] = k
  BY SlotFacts DEF InTree
<1>2. Seek(t, n, <<c, s>>) = <<k, q>>
  BY DEF Seek
<1>3. Key[n] \in Int /\ Key[k] \in Int
  BY <1>1, KeyAssumption
<1>4. \A i \in 1 .. g.size - 1 : Key[g.at[i]] \in Int
  BY KeysAt
<1>5. g.size \in Nat
  BY SizeBound
<1>6. CASE GoesLeft(n, k)
  <2>1. q = "left" /\ SlotLo(g, k, q) = SlotLo(g, c, s) /\ SlotHi(g, k, q) = g.pos[k] - 1
    BY <1>1, <1>6 DEF SlotLo, SlotHi
  <2>2. Slot(t, k, q)
    BY <1>1, <2>1, CellFacts DEF Slot
  <2>3. Around(g, n, SlotLo(g, c, s), g.pos[k] - 1)
    <3> SUFFICES ASSUME NEW i \in 1 .. g.size - 1
                 PROVE  /\ i < SlotLo(g, c, s) => Key[g.at[i]] <= Key[n]
                        /\ i > g.pos[k] - 1 => Key[n] < Key[g.at[i]]
      BY DEF Around
    <3>1. i < SlotLo(g, c, s) => Key[g.at[i]] <= Key[n]
      BY DEF Around
    <3>2. i >= g.pos[k] => Key[k] <= Key[g.at[i]]
      BY <1>1 DEF Keyed
    <3>3. Key[n] < Key[k]
      BY <1>6 DEF GoesLeft
    <3> QED BY <1>1, <1>3, <1>4, <1>5, <3>1, <3>2, <3>3
  <2> QED BY <1>1, <1>2, <2>1, <2>2, <2>3
<1>7. CASE ~GoesLeft(n, k)
  <2>1. q = "right" /\ SlotLo(g, k, q) = g.pos[k] + 1 /\ SlotHi(g, k, q) = SlotHi(g, c, s)
    BY <1>1, <1>7, CellFacts DEF SlotLo, SlotHi
  <2>2. Slot(t, k, q)
    BY <1>1, <2>1, CellFacts DEF Slot
  <2>3. Around(g, n, g.pos[k] + 1, SlotHi(g, c, s))
    <3> SUFFICES ASSUME NEW i \in 1 .. g.size - 1
                 PROVE  /\ i < g.pos[k] + 1 => Key[g.at[i]] <= Key[n]
                        /\ i > SlotHi(g, c, s) => Key[n] < Key[g.at[i]]
      BY DEF Around
    <3>1. i > SlotHi(g, c, s) => Key[n] < Key[g.at[i]]
      BY DEF Around
    <3>2. i <= g.pos[k] => Key[g.at[i]] <= Key[k]
      BY <1>1 DEF Keyed
    <3>3. Key[k] <= Key[n]
      BY <1>3, <1>7 DEF GoesLeft
    <3> QED BY <1>1, <1>3, <1>4, <1>5, <3>1, <3>2, <3>3
  <2> QED BY <1>1, <1>2, <2>1, <2>2, <2>3
<1> QED BY <1>6, <1>7

\* The search ends at a free side, behind the nodes whose key is at most that
\* of n and before the others.
LEMMA PlaceOK ==
  ASSUME NEW t, NEW g, Sound(t, g), Keyed(g), NEW n \in Nodes,
         NEW link, Place(t, n) = link
  PROVE  \E c, s : /\ link = <<c, s>> /\ Slot(t, c, s) /\ t.kid[s][c] = Sentinel
                   /\ Around(g, n, SlotLo(g, c, s), SlotHi(g, c, s))
<1> DEFINE N == Cardinality(Nodes)
           Pass(x) == Seek(t, n, x)
           States == Cells \X Sides
           s0 == <<Sentinel, "left">>
           Fits(c, s, i) == /\ Slot(t, c, s) /\ Around(g, n, SlotLo(g, c, s), SlotHi(g, c, s))
                            /\ SlotHi(g, c, s) - SlotLo(g, c, s) + 1 <= N - i
           Good(i) == {x \in States : Fits(x[1], x[2], i)}
           Done == {x \in Good(0) : t.kid[x[2]][x[1]] = Sentinel}
           G == [i \in 0 .. N |-> Good(i)]
           F == [x \in Good(0) |-> Pass(x)]
<1>1. N \in Nat /\ g.size \in Nat /\ g.size >= 1 /\ g.size - 1 <= N
  BY SizeBound
<1>2. \A c, s : Slot(t, c, s) => <<c, s>> \in States
  BY CellFacts DEF Slot
<1>3. \A c, s : Slot(t, c, s) => /\ SlotLo(g, c, s) \in Int /\ SlotHi(g, c, s) \in Int
                                 /\ 1 <= SlotLo(g, c, s) /\ SlotHi(g, c, s) < g.size
  <2> SUFFICES ASSUME NEW c, NEW s, Slot(t, c, s)
               PROVE  /\ SlotLo(g, c, s) \in Int /\ SlotHi(g, c, s) \in Int
                      /\ 1 <= SlotLo(g, c, s) /\ SlotHi(g, c, s) < g.size
    OBVIOUS
  <2>1. PICK k : t.kid[s][c] = k
    OBVIOUS
  <2> QED BY <2>1, SlotFacts
<1>4. ASSUME NEW c, NEW s, NEW i \in 0 .. N, Fits(c, s, i) PROVE Fits(c, s, 0)
  <2>1. SlotHi(g, c, s) - SlotLo(g, c, s) + 1 <= N - 0
    BY <1>1, <1>3, <1>4
  <2> QED BY <1>4, <2>1
<1>5. s0 \in Good(0)
  <2>1. Slot(t, Sentinel, "left")
    BY CellFacts DEF Slot
  <2>2. SlotHi(g, Sentinel, "left") = g.size - 1 /\ SlotLo(g, Sentinel, "left") = 1
    BY <1>1 DEF SlotLo, SlotHi, Sound, Shape, Numbered
  <2>3. Around(g, n, 1, g.size - 1)
    BY <1>1 DEF Around
  <2>4. Fits(Sentinel, "left", 0)
    BY <1>1, <2>1, <2>2, <2>3
  <2>5. s0 \in States /\ s0[1] = Sentinel /\ s0[2] = "left"
    BY <1>2, <2>1
  <2> HIDE DEF Fits, s0
  <2> QED BY <2>4, <2>5
<1>6. ASSUME NEW i \in 0 .. N, NEW x \in Good(i), x \notin Done
      PROVE  i < N /\ Pass(x) \in Good(i + 1)
  <2>1. PICK c, s : x = <<c, s>>
    BY <1>6
  <2>2. Fits(c, s, i)
    BY <1>6, <2>1
  <2>3. PICK k : t.kid[s][c] = k
    OBVIOUS
  <2>4. k # Sentinel
    <3>1. Fits(x[1], x[2], 0) /\ x \in States
      BY <1>4, <1>6
    <3>2. x[1] = c /\ x[2] = s
      BY <2>1
    <3> HIDE DEF Fits
    <3> QED BY <1>6, <2>3, <3>1, <3>2
  <2>5. PICK q : /\ Pass(<<c, s>>) = <<k, q>>
                 /\ Slot(t, k, q) /\ Around(g, n, SlotLo(g, k, q), SlotHi(g, k, q))
                 /\ SlotHi(g, k, q) - SlotLo(g, k, q) < SlotHi(g, c, s) - SlotLo(g, c, s)
    BY <2>2, <2>3, <2>4, SeekOK
  <2>6. Fits(k, q, i + 1)
    BY <1>1, <1>3, <2>2, <2>5
  <2>7. i < N
    <3>1. SlotLo(g, c, s) <= SlotHi(g, c, s)
      <4>1. /\ g.lo[k] = SlotLo(g, c, s) /\ g.hi[k] = SlotHi(g, c, s)
            /\ g.pos[k] \in Int /\ g.lo[k] <= g.pos[k] /\ g.pos[k] <= g.hi[k]
        BY <2>2, <2>3, <2>4, SlotFacts
      <4> QED BY <1>3, <2>2, <4>1
    <3> QED BY <1>1, <1>3, <2>2, <3>1
  <2>8. <<k, q>> \in States /\ <<k, q>>[1] = k /\ <<k, q>>[2] = q
    BY <1>2, <2>5
  <2> HIDE DEF Fits, Pass
  <2> QED BY <2>1, <2>5, <2>6, <2>7, <2>8
<1>7. ASSUME NEW x \in Done PROVE Pass(x) = x
  <2>1. t.kid[x[2]][x[1]] = Sentinel
    BY <1>7
  <2> QED BY <2>1 DEF Seek
<1>8. \A i \in 0 .. N : Good(i) \subseteq Good(0)
  <2> HIDE DEF Fits
  <2> QED BY <1>4
<1> HIDE DEF N, Good, Pass
<1>9. Advances(N, F, s0, Done, G)
  <2>1. 0 \in 0 .. N /\ N \in 0 .. N /\ \A i \in 0 .. N - 1 : i \in 0 .. N /\ i + 1 \in 0 .. N
    BY <1>1
  <2>2. ASSUME NEW i \in 0 .. N - 1, NEW x \in G[i] PROVE F[x] \in Done \/ F[x] \in G[i + 1]
    <3>1. x \in Good(i) /\ i \in 0 .. N
      BY <2>1, <2>2
    <3>2. x \in Good(0)
      BY <1>8, <3>1
    <3>3. F[x] = Pass(x)
      BY <3>2
    <3>4. CASE x \in Done
      BY <1>7, <3>3, <3>4
    <3>5. CASE x \notin Done
      <4>1. Pass(x) \in Good(i + 1)
        BY <1>6, <3>1, <3>5
      <4> QED BY <2>1, <3>3, <4>1
    <3> QED BY <3>4, <3>5
  <2>3. \A x \in Done : F[x] = x
    BY <1>7
  <2>4. ASSUME NEW x \in G[N] PROVE x \in Done
    <3>1. x \in Good(N)
      BY <2>1
    <3> QED BY <1>1, <1>6, <2>1, <3>1
  <2>5. s0 \in G[0]
    BY <1>5, <2>1
  <2> QED BY <2>2, <2>3, <2>4, <2>5, Zenon DEF Advances
<1>10. /\ \A i \in 0 .. N : G[i] \subseteq Good(0)
       /\ \A x \in Done : x \in Good(0)
  BY <1>8
<1> DEFINE Made(f) == f = [k \in 0 .. N |-> IF k = 0 THEN s0 ELSE Pass(f[k - 1])]
<1>11. \E f : Made(f)
  <2>1. PICK f : MadeBy(N, F, s0, f) /\ \A k \in 0 .. N : f[k] \in Done \/ f[k] \in G[k]
    <3> HIDE DEF F, s0, Done, G
    <3> QED BY <1>1, <1>9, LoopLeads
  <2>2. \A k \in 0 .. N : f[k] \in Good(0)
    BY <1>10, <2>1
  <2>3. \A k \in 1 .. N : F[f[k - 1]] = Pass(f[k - 1])
    BY <1>1, <2>2
  <2>4. [k \in 0 .. N |-> IF k = 0 THEN s0 ELSE F[f[k - 1]]]
        = [k \in 0 .. N |-> IF k = 0 THEN s0 ELSE Pass(f[k - 1])]
    <3> HIDE DEF F, s0
    <3>1. \A k \in 0 .. N : k # 0 => k \in 1 .. N
      BY <1>1
    <3> QED BY <2>3, <3>1
  <2> QED BY <2>1, <2>4, Zenon DEF MadeBy
<1>12. PICK f : f = CHOOSE x : Made(x)
  OBVIOUS
<1>13. Made(f)
  <2> HIDE DEF Made
  <2> QED BY <1>11, <1>12
<1>14. f[0] = s0 /\ \A k \in 1 .. N : f[k] = Pass(f[k - 1])
  <2> HIDE DEF s0
  <2> QED BY <1>1, <1>13
<1>15. f[N] \in Done
  <2>1. \A k \in 1 .. N : f[k - 1] \in Done \/ f[k - 1] \in G[k - 1] => f[k] = F[f[k - 1]]
    <3> SUFFICES ASSUME NEW k \in 1 .. N, f[k - 1] \in Done \/ f[k - 1] \in G[k - 1]
                 PROVE  f[k] = F[f[k - 1]]
      BY Zenon
    <3>1. k - 1 \in 0 .. N
      BY <1>1
    <3>2. f[k - 1] \in Good(0)
      BY <1>10, <3>1
    <3> QED BY <1>14, <3>2
  <2> HIDE DEF F, s0, Done, G
  <2>2. Follows(N, F, s0, Done, G, f)
    BY <1>14, <2>1 DEF Follows
  <2> QED BY <1>1, <1>9, <2>2, LoopEnds
<1>16. link = f[N]
  BY <1>12 DEF Place, Loop, N, Pass
<1> QED
  <2>1. link \in Done
    BY <1>15, <1>16
  <2>2. PICK c, s : link = <<c, s>>
    BY <2>1 DEF Good
  <2> QED BY <2>1, <2>2 DEF Good

-----------------------------------------------------------------------------
(* A new leaf *)

\* The order with n at the position k, in a slot of the side s.
Opened(g, h, n, k, s) ==
  /\ h.size = g.size + 1
  /\ \A i \in 1 .. g.size + 1 :
       h.at[i] = IF i < k THEN g.at[i] ELSE IF i = k THEN n ELSE g.at[i - 1]
  /\ \A c \in Cells : c # n =>
       /\ h.pos[c] = IF g.pos[c] >= k THEN g.pos[c] + 1 ELSE g.pos[c]
       /\ h.lo[c] = IF g.lo[c] > k \/ (s = "right" /\ g.lo[c] = k)
                      THEN g.lo[c] + 1 ELSE g.lo[c]
       /\ h.hi[c] = IF g.hi[c] >= k \/ (s = "right" /\ g.hi[c] = k - 1)
                      THEN g.hi[c] + 1 ELSE g.hi[c]
  /\ h.pos[n] = k /\ h.lo[n] = k /\ h.hi[n] = k

\* Such an order exists.
LEMMA OrderOpens ==
  ASSUME NEW g \in Orders, NEW n \in Cells, NEW k \in 1 .. g.size, NEW s,
         \A i \in 1 .. g.size : g.at[i] \in Cells
  PROVE  \E h \in Orders : Opened(g, h, n, k, s)
<1> DEFINE m   == g.size + 1
           at  == [i \in 1 .. m |-> IF i < k THEN g.at[i] ELSE IF i = k THEN n ELSE g.at[i - 1]]
           pos == [c \in Cells |-> IF c = n THEN k ELSE
                     IF g.pos[c] >= k THEN g.pos[c] + 1 ELSE g.pos[c]]
           lo  == [c \in Cells |-> IF c = n THEN k ELSE
                     IF g.lo[c] > k \/ (s = "right" /\ g.lo[c] = k)
                       THEN g.lo[c] + 1 ELSE g.lo[c]]
           hi  == [c \in Cells |-> IF c = n THEN k ELSE
                     IF g.hi[c] >= k \/ (s = "right" /\ g.hi[c] = k - 1)
                       THEN g.hi[c] + 1 ELSE g.hi[c]]
           h   == [at |-> at, size |-> m, pos |-> pos, lo |-> lo, hi |-> hi]
<1>1. g.size \in Nat /\ m \in Nat /\ k \in Int /\ k \in 1 .. m
  BY DEF Orders
<1>2. \A c \in Cells : g.pos[c] \in Int /\ g.lo[c] \in Int /\ g.hi[c] \in Int
  BY DEF Orders
<1>3. at \in [1 .. m -> Cells]
  <2> SUFFICES ASSUME NEW i \in 1 .. m
               PROVE  (IF i < k THEN g.at[i] ELSE IF i = k THEN n ELSE g.at[i - 1]) \in Cells
    OBVIOUS
  <2>1. i < k => i \in 1 .. g.size
    BY <1>1
  <2>2. ~(i < k) /\ i # k => i - 1 \in 1 .. g.size
    BY <1>1
  <2> QED BY <2>1, <2>2
<1>4. pos \in [Cells -> Int]
  BY <1>1, <1>2
<1>5. lo \in [Cells -> Int]
  BY <1>1, <1>2
<1>6. hi \in [Cells -> Int]
  BY <1>1, <1>2
<1>7. h \in Orders
  <2>1. at \in UNION {[1 .. i -> Cells] : i \in Nat}
    BY <1>1, <1>3
  <2> HIDE DEF at, pos, lo, hi, m
  <2> QED BY <1>1, <1>4, <1>5, <1>6, <2>1, Zenon DEF Orders
<1>8. Opened(g, h, n, k, s)
  <2>1. h.size = m /\ h.at = at /\ h.pos = pos /\ h.lo = lo /\ h.hi = hi
    OBVIOUS
  <2>2. \A i \in 1 .. m : at[i] = IF i < k THEN g.at[i] ELSE IF i = k THEN n ELSE g.at[i - 1]
    OBVIOUS
  <2>3. \A c \in Cells : c # n =>
       /\ pos[c] = IF g.pos[c] >= k THEN g.pos[c] + 1 ELSE g.pos[c]
       /\ lo[c] = IF g.lo[c] > k \/ (s = "right" /\ g.lo[c] = k)
                      THEN g.lo[c] + 1 ELSE g.lo[c]
       /\ hi[c] = IF g.hi[c] >= k \/ (s = "right" /\ g.hi[c] = k - 1)
                      THEN g.hi[c] + 1 ELSE g.hi[c]
    OBVIOUS
  <2>4. pos[n] = k /\ lo[n] = k /\ hi[n] = k
    OBVIOUS
  <2> HIDE DEF at, pos, lo, hi, h
  <2> QED BY <2>1, <2>2, <2>3, <2>4 DEF Opened
<1> QED BY <1>7, <1>8

\* The links of u are those of t with the leaf n on the side s of c.
Grown(t, u, n, c, s) ==
  /\ \A q \in Sides, x \in Cells :
       u.kid[q][x] = IF x = n THEN Sentinel ELSE IF x = c /\ q = s THEN n ELSE t.kid[q][x]
  /\ \A x \in Cells : u.parent[x] = IF x = n THEN c ELSE t.parent[x]

\* One cell's numbers before and after.
Shifted(g, h, k, s, x) ==
  /\ h.pos[x] \in Int /\ h.lo[x] \in Int /\ h.hi[x] \in Int
  /\ h.pos[x] = IF g.pos[x] >= k THEN g.pos[x] + 1 ELSE g.pos[x]
  /\ s = "left" => /\ h.lo[x] = IF g.lo[x] > k THEN g.lo[x] + 1 ELSE g.lo[x]
                   /\ h.hi[x] = IF g.hi[x] >= k THEN g.hi[x] + 1 ELSE g.hi[x]
  /\ s = "right" => /\ h.lo[x] = IF g.lo[x] >= k THEN g.lo[x] + 1 ELSE g.lo[x]
                    /\ h.hi[x] = IF g.hi[x] >= k - 1 THEN g.hi[x] + 1 ELSE g.hi[x]

\* The cells that were there keep their spans, shifted.
LEMMA OpenedCell ==
  ASSUME NEW g, NEW h, NEW n, NEW k \in Int, NEW s \in Sides, Opened(g, h, n, k, s),
         NEW x \in Cells, x # n, g.pos[x] \in Int, g.lo[x] \in Int, g.hi[x] \in Int
  PROVE  Shifted(g, h, k, s, x)
<1>1. h.pos[x] = IF g.pos[x] >= k THEN g.pos[x] + 1 ELSE g.pos[x]
  BY DEF Opened
<1>2. h.lo[x] = IF g.lo[x] > k \/ (s = "right" /\ g.lo[x] = k) THEN g.lo[x] + 1 ELSE g.lo[x]
  BY DEF Opened
<1>3. h.hi[x] = IF g.hi[x] >= k \/ (s = "right" /\ g.hi[x] = k - 1) THEN g.hi[x] + 1 ELSE g.hi[x]
  BY DEF Opened
<1>4. s = "left" => s # "right"
  BY CellFacts
<1>5. CASE s = "left"
  BY <1>1, <1>2, <1>3, <1>4, <1>5 DEF Shifted
<1>6. CASE s = "right"
  BY <1>1, <1>2, <1>3, <1>4, <1>6 DEF Shifted
<1> QED BY <1>5, <1>6, CellFacts DEF Shifted

\* A leaf added in a slot gives a tree of the opened order.
LEMMA GrownShape ==
  ASSUME NEW t, NEW g, Sound(t, g), NEW c, NEW s, Slot(t, c, s), t.kid[s][c] = Sentinel,
         NEW n \in Nodes \ InTree(t), NEW u \in Trees, Grown(t, u, n, c, s),
         NEW h \in Orders, NEW k, SlotLo(g, c, s) = k, Opened(g, h, n, k, s)
  PROVE  /\ Shape(u.kid, u.parent, h)
         /\ InTree(u) = InTree(t) \cup {n}
<1>1. /\ t \in Trees /\ Shape(t.kid, t.parent, g) /\ Numbered(t.parent, g) /\ g \in Orders
      /\ g.size \in Nat
  BY Zenon DEF Sound, Shape, Numbered, Orders
<1> DEFINE C == InCells(t.parent)
           D == InCells(u.parent)
<1>2. /\ c \in C /\ c \in Cells /\ s \in Sides /\ (c = Sentinel => s = "left")
      /\ n \in Nodes /\ n \in Cells /\ n # Sentinel /\ n \notin C /\ n # c
  <2>1. c \in C /\ s \in Sides /\ (c = Sentinel => s = "left")
    BY DEF Slot
  <2>2. n \in Nodes /\ n \notin InNodes(t.parent)
    BY DEF InTree, InNodes
  <2> QED BY <2>1, <2>2, CellFacts
<1>3. k \in Int /\ 1 <= k /\ k <= g.size
  <2>1. /\ SlotLo(g, c, s) \in Int /\ SlotHi(g, c, s) \in Int
        /\ 1 <= SlotLo(g, c, s) /\ SlotHi(g, c, s) < g.size
        /\ SlotHi(g, c, s) = SlotLo(g, c, s) - 1
    BY SlotFacts
  <2> QED BY <1>1, <2>1
<1>4. D = C \cup {n} /\ InNodes(u.parent) = InNodes(t.parent) \cup {n}
      /\ InTree(u) = InTree(t) \cup {n}
  <2>1. \A x \in Nodes : u.parent[x] = IF x = n THEN c ELSE t.parent[x]
    BY CellFacts DEF Grown
  <2>2. c # Null
    BY <1>2, CellFacts
  <2> QED BY <1>2, <2>1, <2>2 DEF InCells, InNodes, InTree
<1>5. \A x \in C : x \in Cells /\ x # n /\ g.pos[x] \in Int /\ g.lo[x] \in Int /\ g.hi[x] \in Int
  BY <1>1, <1>2, CellFacts, Zenon DEF Orders
<1>6. \A x \in C : /\ 1 <= g.lo[x] /\ g.lo[x] <= g.pos[x] /\ g.pos[x] <= g.hi[x] /\ g.hi[x] <= g.size
                   /\ g.at[g.pos[x]] = x /\ (x # Sentinel => g.hi[x] < g.size)
  BY <1>1 DEF Numbered
<1>7. \A x \in C :
         /\ h.pos[x] \in Int /\ h.lo[x] \in Int /\ h.hi[x] \in Int
         /\ h.pos[x] = IF g.pos[x] >= k THEN g.pos[x] + 1 ELSE g.pos[x]
         /\ s = "left" => /\ h.lo[x] = IF g.lo[x] > k THEN g.lo[x] + 1 ELSE g.lo[x]
                          /\ h.hi[x] = IF g.hi[x] >= k THEN g.hi[x] + 1 ELSE g.hi[x]
         /\ s = "right" => /\ h.lo[x] = IF g.lo[x] >= k THEN g.lo[x] + 1 ELSE g.lo[x]
                           /\ h.hi[x] = IF g.hi[x] >= k - 1 THEN g.hi[x] + 1 ELSE g.hi[x]
  <2>1. \A x \in C : Shifted(g, h, k, s, x)
    <3> HIDE DEF C
    <3> QED BY <1>2, <1>3, <1>5, OpenedCell
  <2> QED BY <2>1 DEF Shifted
<1>8. \A x \in C : g.pos[x] = g.pos[c] => x = c
  BY <1>2, <1>6
<1>9. /\ s = "left" => g.pos[c] = k /\ g.lo[c] = k
      /\ s = "right" => g.pos[c] = k - 1 /\ g.hi[c] = k - 1
  <2>1. SlotHi(g, c, s) = SlotLo(g, c, s) - 1
    BY SlotFacts
  <2> QED BY <1>2, <1>5, <2>1, CellFacts DEF SlotLo, SlotHi
<1>10. h.size = g.size + 1 /\ h.pos[n] = k /\ h.lo[n] = k /\ h.hi[n] = k
  BY DEF Opened
<1>11. \A q \in Sides, x \in Cells :
       u.kid[q][x] = IF x = n THEN Sentinel ELSE IF x = c /\ q = s THEN n ELSE t.kid[q][x]
  BY DEF Grown
<1>12. \A x \in Cells : u.parent[x] = IF x = n THEN c ELSE t.parent[x]
  BY DEF Grown
<1> HIDE DEF C, D
<1>13. \A x \in C : LeftOf(t.kid, t.parent, g, x)
  BY <1>1 DEF Shape, C
<1>14. \A x \in C : x # Sentinel => RightOf(t.kid, t.parent, g, x) /\ Below(t.kid, t.parent, x)
  BY <1>1, CellFacts DEF Shape, C
<1>15. Numbered(u.parent, h)
  <2>1. h.pos[Sentinel] = h.size /\ h.lo[Sentinel] = 1 /\ h.hi[Sentinel] = h.size
    <3>1. Sentinel \in C /\ g.pos[Sentinel] = g.size /\ g.lo[Sentinel] = 1 /\ g.hi[Sentinel] = g.size
      BY <1>1, CellFacts DEF Numbered, C
    <3>2. s = "right" => k > 1
      <4>1. s = "right" => k - 1 >= 1
        BY <1>2, <1>3, <1>5, <1>6, <1>9
      <4> QED BY <1>3, <4>1
    <3>3. CASE s = "left"
      BY <1>1, <1>3, <1>7, <1>10, <3>1, <3>3
    <3>4. CASE s = "right"
      BY <1>1, <1>3, <1>7, <1>10, <3>1, <3>2, <3>4
    <3> QED BY <1>2, <3>3, <3>4, CellFacts
  <2>2. ASSUME NEW i \in 1 .. h.size PROVE h.at[i] \in D /\ h.pos[h.at[i]] = i
    <3>1. h.at[i] = IF i < k THEN g.at[i] ELSE IF i = k THEN n ELSE g.at[i - 1]
      BY <1>10 DEF Opened
    <3>2. i \in Int /\ 1 <= i /\ i <= g.size + 1
      BY <1>1, <1>10
    <3>3. \A j \in 1 .. g.size : g.at[j] \in C /\ g.pos[g.at[j]] = j
      BY <1>1 DEF Numbered, C
    <3>4. CASE i < k
      <4>1. i \in 1 .. g.size
        BY <1>1, <1>3, <3>2, <3>4
      <4>2. g.at[i] \in C /\ g.pos[g.at[i]] = i /\ h.at[i] = g.at[i]
        BY <3>1, <3>3, <3>4, <4>1
      <4> QED BY <1>3, <1>4, <1>7, <3>4, <4>2
    <3>5. CASE i = k
      BY <1>4, <1>10, <3>1, <3>5
    <3>6. CASE i > k
      <4>1. i - 1 \in 1 .. g.size /\ i - 1 >= k
        BY <1>1, <1>3, <3>2, <3>6
      <4>2. g.at[i - 1] \in C /\ g.pos[g.at[i - 1]] = i - 1 /\ h.at[i] = g.at[i - 1]
        BY <1>3, <3>1, <3>2, <3>3, <3>6, <4>1
      <4>3. h.pos[g.at[i - 1]] = i - 1 + 1
        BY <1>7, <4>1, <4>2
      <4> QED BY <1>4, <3>2, <4>2, <4>3
    <3> QED BY <1>3, <3>2, <3>4, <3>5, <3>6
  <2>3. ASSUME NEW x \in D
        PROVE /\ 1 <= h.lo[x] /\ h.lo[x] <= h.pos[x] /\ h.pos[x] <= h.hi[x] /\ h.hi[x] <= h.size
              /\ (x # Sentinel => h.hi[x] < h.size) /\ h.pos[x] \in 1 .. h.size
    <3>1. CASE x = n
      BY <1>1, <1>3, <1>10, <3>1
    <3>2. CASE x \in C
      <4>1. /\ 1 <= g.lo[x] /\ g.lo[x] <= g.pos[x] /\ g.pos[x] <= g.hi[x] /\ g.hi[x] <= g.size
            /\ (x # Sentinel => g.hi[x] < g.size)
        BY <1>6, <3>2
      <4>2. g.pos[x] \in Int /\ g.lo[x] \in Int /\ g.hi[x] \in Int
        BY <1>5, <3>2
      <4>3. CASE s = "left"
        BY <1>1, <1>3, <1>7, <1>10, <3>2, <4>1, <4>2, <4>3
      <4>4. CASE s = "right"
        BY <1>1, <1>3, <1>7, <1>10, <3>2, <4>1, <4>2, <4>4
      <4> QED BY <1>2, <4>3, <4>4, CellFacts
    <3> QED BY <1>4, <3>1, <3>2
  <2>4. ASSUME NEW x \in D PROVE h.at[h.pos[x]] = x
    <3>1. h.pos[x] \in 1 .. h.size
      BY <2>3
    <3>2. \A i \in 1 .. g.size + 1 :
            h.at[i] = IF i < k THEN g.at[i] ELSE IF i = k THEN n ELSE g.at[i - 1]
      BY DEF Opened
    <3>3. CASE x = n
      BY <1>3, <1>10, <3>1, <3>2, <3>3
    <3>4. CASE x \in C
      <4>1. g.at[g.pos[x]] = x /\ g.pos[x] \in Int
        BY <1>5, <1>6, <3>4
      <4>2. CASE g.pos[x] >= k
        <5>1. h.pos[x] = g.pos[x] + 1
          BY <1>7, <3>4, <4>2
        <5> QED BY <1>3, <1>10, <3>1, <3>2, <4>1, <4>2, <5>1
      <4>3. CASE g.pos[x] < k
        <5>1. h.pos[x] = g.pos[x]
          BY <1>3, <1>7, <3>4, <4>1, <4>3
        <5> QED BY <1>3, <1>10, <3>1, <3>2, <4>1, <4>3, <5>1
      <4> QED BY <1>3, <4>1, <4>2, <4>3
    <3> QED BY <1>4, <3>3, <3>4
  <2> QED BY <2>1, <2>2, <2>3, <2>4 DEF Numbered, D
<1>16. ASSUME NEW x \in D PROVE LeftOf(u.kid, u.parent, h, x)
  <2>1. CASE x = n
    <3>1. u.kid["left"][x] = Sentinel
      BY <1>2, <1>11, <2>1, CellFacts
    <3> QED BY <1>10, <2>1, <3>1, CellFacts DEF LeftOf
  <2>2. CASE x \in C
    <3> DEFINE y == t.kid["left"][x]
    <3>1. /\ y \in C
          /\ y = Sentinel => g.lo[x] = g.pos[x]
          /\ y # Sentinel => t.parent[y] = x /\ g.lo[y] = g.lo[x] /\ g.hi[y] = g.pos[x] - 1
      BY <1>13, <2>2 DEF LeftOf, C
    <3>2. x # n /\ x \in Cells
      BY <1>5, <2>2
    <3>3. g.pos[x] \in Int /\ g.lo[x] \in Int /\ g.hi[x] \in Int
      BY <1>5, <2>2
    <3>4. CASE x = c /\ s = "left"
      <4>1. u.kid["left"][x] = n
        BY <1>2, <1>11, <3>2, <3>4
      <4>2. u.parent[n] = x
        BY <1>2, <1>12, <3>4
      <4>3. h.lo[x] = k /\ h.pos[x] = k + 1
        BY <1>2, <1>3, <1>7, <1>9, <2>2, <3>4
      <4> QED BY <1>2, <1>3, <1>4, <1>10, <4>1, <4>2, <4>3 DEF LeftOf, D
    <3>5. CASE ~(x = c /\ s = "left")
      <4>1. u.kid["left"][x] = y
        BY <1>2, <1>11, <3>2, <3>5, CellFacts
      <4>2. y # n /\ y \in Cells /\ u.parent[y] = t.parent[y]
        BY <1>5, <1>12, <3>1
      <4>3. s = "left" => g.pos[x] # k
        BY <1>8, <1>9, <2>2, <3>5
      <4>4. CASE y = Sentinel
        <5>1. h.lo[x] = h.pos[x]
          <6>1. CASE s = "left"
            BY <1>3, <1>7, <2>2, <3>1, <3>3, <4>3, <4>4, <6>1
          <6>2. CASE s = "right"
            BY <1>3, <1>7, <2>2, <3>1, <3>3, <4>4, <6>2
          <6> QED BY <1>2, <6>1, <6>2, CellFacts
        <5> QED BY <1>4, <3>1, <4>1, <4>4, <5>1 DEF LeftOf, D
      <4>5. CASE y # Sentinel
        <5>1. g.lo[y] = g.lo[x] /\ g.hi[y] = g.pos[x] - 1 /\ t.parent[y] = x
          BY <3>1, <4>5
        <5>2. h.lo[y] = h.lo[x] /\ h.hi[y] = h.pos[x] - 1
          <6>1. CASE s = "left"
            BY <1>3, <1>7, <2>2, <3>1, <3>3, <4>3, <5>1, <6>1
          <6>2. CASE s = "right"
            BY <1>3, <1>7, <2>2, <3>1, <3>3, <5>1, <6>2
          <6> QED BY <1>2, <6>1, <6>2, CellFacts
        <5> QED BY <1>4, <3>1, <4>1, <4>2, <4>5, <5>1, <5>2 DEF LeftOf, D
      <4> QED BY <4>4, <4>5
    <3> QED BY <3>4, <3>5
  <2> QED BY <1>4, <2>1, <2>2
<1>17. ASSUME NEW x \in D, x # Sentinel PROVE RightOf(u.kid, u.parent, h, x)
  <2>1. CASE x = n
    <3>1. u.kid["right"][x] = Sentinel
      BY <1>2, <1>11, <2>1, CellFacts
    <3> QED BY <1>10, <2>1, <3>1, CellFacts DEF RightOf
  <2>2. CASE x \in C
    <3> DEFINE y == t.kid["right"][x]
    <3>1. /\ y \in C
          /\ y = Sentinel => g.hi[x] = g.pos[x]
          /\ y # Sentinel => t.parent[y] = x /\ g.lo[y] = g.pos[x] + 1 /\ g.hi[y] = g.hi[x]
      BY <1>14, <1>17, <2>2 DEF RightOf, C
    <3>2. x # n /\ x \in Cells
      BY <1>5, <2>2
    <3>3. g.pos[x] \in Int /\ g.lo[x] \in Int /\ g.hi[x] \in Int
      BY <1>5, <2>2
    <3>4. CASE x = c /\ s = "right"
      <4>1. u.kid["right"][x] = n
        BY <1>2, <1>11, <3>2, <3>4
      <4>2. u.parent[n] = x
        BY <1>2, <1>12, <3>4
      <4>3. h.pos[x] = k - 1 /\ h.hi[x] = k
        BY <1>2, <1>3, <1>7, <1>9, <2>2, <3>4
      <4> QED BY <1>2, <1>3, <1>4, <1>10, <4>1, <4>2, <4>3 DEF RightOf, D
    <3>5. CASE ~(x = c /\ s = "right")
      <4>1. u.kid["right"][x] = y
        BY <1>2, <1>11, <3>2, <3>5, CellFacts
      <4>2. y # n /\ y \in Cells /\ u.parent[y] = t.parent[y]
        BY <1>5, <1>12, <3>1
      <4>3. s = "right" => g.pos[x] # k - 1
        BY <1>8, <1>9, <2>2, <3>5
      <4>4. CASE y = Sentinel
        <5>1. h.hi[x] = h.pos[x]
          <6>1. CASE s = "left"
            BY <1>3, <1>7, <2>2, <3>1, <3>3, <4>4, <6>1
          <6>2. CASE s = "right"
            BY <1>3, <1>7, <2>2, <3>1, <3>3, <4>3, <4>4, <6>2
          <6> QED BY <1>2, <6>1, <6>2, CellFacts
        <5> QED BY <1>4, <3>1, <4>1, <4>4, <5>1 DEF RightOf, D
      <4>5. CASE y # Sentinel
        <5>1. g.lo[y] = g.pos[x] + 1 /\ g.hi[y] = g.hi[x] /\ t.parent[y] = x
          BY <3>1, <4>5
        <5>2. h.lo[y] = h.pos[x] + 1 /\ h.hi[y] = h.hi[x]
          <6>1. CASE s = "left"
            BY <1>3, <1>7, <2>2, <3>1, <3>3, <5>1, <6>1
          <6>2. CASE s = "right"
            BY <1>3, <1>7, <2>2, <3>1, <3>3, <4>3, <5>1, <6>2
          <6> QED BY <1>2, <6>1, <6>2, CellFacts
        <5> QED BY <1>4, <3>1, <4>1, <4>2, <4>5, <5>1, <5>2 DEF RightOf, D
      <4> QED BY <4>4, <4>5
    <3> QED BY <3>4, <3>5
  <2> QED BY <1>4, <2>1, <2>2
<1>18. ASSUME NEW x \in D, x # Sentinel PROVE Below(u.kid, u.parent, x)
  <2>1. CASE x = n
    <3>1. u.parent[n] = c /\ u.kid[s][c] = n
      BY <1>2, <1>11, <1>12
    <3>2. s = "left" \/ (s = "right" /\ c # Sentinel)
      BY <1>2, CellFacts
    <3> QED BY <1>2, <1>4, <2>1, <3>1, <3>2 DEF Below, D
  <2>2. CASE x \in C
    <3> DEFINE p == t.parent[x]
    <3>1. p \in C /\ (t.kid["left"][p] = x \/ (p # Sentinel /\ t.kid["right"][p] = x))
      BY <1>14, <1>18, <2>2 DEF Below, C
    <3>2. u.parent[x] = p /\ p # n /\ p \in Cells
      BY <1>5, <1>12, <2>2, <3>1
    <3>3. \A q \in Sides : t.kid[q][p] = x => u.kid[q][p] = x
      <4> SUFFICES ASSUME NEW q \in Sides, t.kid[q][p] = x PROVE u.kid[q][p] = x
        OBVIOUS
      <4>1. ~(p = c /\ q = s)
        BY <1>18
      <4> QED BY <1>11, <3>2, <4>1
    <3> QED BY <1>4, <3>1, <3>2, <3>3, CellFacts DEF Below, D
  <2> QED BY <1>4, <2>1, <2>2
<1>19. /\ u.kid \in [Sides -> [Cells -> Cells \cup {Null}]]
       /\ u.parent \in [Cells -> Cells \cup {Null}]
       /\ u.kid["right"][Sentinel] = Null
  <2>1. u.kid \in [Sides -> [Cells -> Cells \cup {Null}]]
        /\ u.parent \in [Cells -> Cells \cup {Null}]
    BY DEF Trees
  <2>2. t.kid["right"][Sentinel] = Null
    BY <1>1 DEF Shape
  <2> QED BY <1>2, <1>11, <2>1, <2>2, CellFacts
<1>20. \A x \in InNodes(u.parent) : x \in D /\ x # Sentinel
  BY SMTT(30), CellFacts DEF D
<1> QED BY <1>4, <1>15, <1>16, <1>17, <1>18, <1>19, <1>20, Zenon DEF Shape, D

-----------------------------------------------------------------------------
(* Insertion *)

\* Between two operations.
Balanced(t, g, b) ==
  /\ Sound(t, g) /\ Keyed(g) /\ Even(t, b, Sentinel, "left")
  /\ Root(t) \notin t.red
  /\ \A m \in t.red, q \in Sides : t.kid[q][m] \notin t.red

\* The assignments of js_rbtree_insert, link by link.
LEMMA LinkIs ==
  ASSUME NEW t \in Trees, NEW n \in Nodes, NEW c \in Cells, NEW s \in Sides, c # n,
         NEW u, [t EXCEPT !.kid["left"][n] = Sentinel,
                          !.kid["right"][n] = Sentinel,
                          !.kid[s][c] = n,
                          !.parent[n] = c,
                          !.red = @ \cup {n}] = u
  PROVE  u \in Trees /\ Grown(t, u, n, c, s) /\ u.red = t.red \cup {n}
<1>1. n \in Cells /\ "left" \in Sides /\ "right" \in Sides
  BY CellFacts
<1>2. u \in Trees /\ u.red = t.red \cup {n}
  <2> DEFINE Kids == [Sides -> [Cells -> Cells \cup {Null}]]
             K1 == [t.kid EXCEPT !["left"][n] = Sentinel]
             K2 == [K1 EXCEPT !["right"][n] = Sentinel]
             K3 == [K2 EXCEPT ![s][c] = n]
             p  == [t.parent EXCEPT ![n] = c]
             R  == t.red \cup {n}
  <2>1. t.kid \in Kids
    BY DEF Trees
  <2>2. K1 \in Kids
    BY <1>1, <2>1, CellFacts
  <2>3. K2 \in Kids
    <3> HIDE DEF K1
    <3> QED BY <1>1, <2>2, CellFacts
  <2>4. K3 \in Kids
    <3> HIDE DEF K2
    <3> QED BY <1>1, <2>3, CellFacts
  <2>5. p \in [Cells -> Cells \cup {Null}]
    BY <1>1 DEF Trees
  <2>6. R \in SUBSET Nodes
    BY DEF Trees
  <2>7. t = [kid |-> t.kid, parent |-> t.parent, red |-> t.red]
    BY DEF Trees
  <2>8. u = [kid |-> K3, parent |-> p, red |-> R]
    BY <2>7, Zenon
  <2> HIDE DEF K1, K2, K3, p, R
  <2> QED BY <2>4, <2>5, <2>6, <2>8 DEF Trees, R
<1>3. \A q \in Sides, x \in Cells :
       u.kid[q][x] = IF x = n THEN Sentinel ELSE IF x = c /\ q = s THEN n ELSE t.kid[q][x]
  <2> SUFFICES ASSUME NEW q \in Sides, NEW x \in Cells
       PROVE u.kid[q][x] = IF x = n THEN Sentinel ELSE IF x = c /\ q = s THEN n ELSE t.kid[q][x]
    OBVIOUS
  <2>1. q = "left" \/ q = "right"
    BY CellFacts
  <2> QED BY <1>1, <2>1, Zenon DEF Trees
<1>4. \A x \in Cells : u.parent[x] = IF x = n THEN c ELSE t.parent[x]
  BY <1>1, Zenon DEF Trees
<1> QED BY <1>2, <1>3, <1>4 DEF Grown

\* The tree with its new red leaf is one js_rbtree_insert_fixup can repair.
LEMMA GrownInsert ==
  ASSUME NEW t, NEW g, NEW b, Balanced(t, g, b),
         NEW c, NEW s, Slot(t, c, s), t.kid[s][c] = Sentinel,
         NEW n \in Nodes \ InTree(t), NEW u \in Trees, Grown(t, u, n, c, s),
         u.red = t.red \cup {n},
         NEW h \in Orders, NEW k, SlotLo(g, c, s) = k, Opened(g, h, n, k, s)
  PROVE  \E d : InsertInv(u, n, h, d)
<1>1. Sound(t, g) /\ Even(t, b, Sentinel, "left") /\ t.red \subseteq InTree(t) /\ t \in Trees
      /\ Shape(t.kid, t.parent, g)
  BY DEF Balanced, Sound
<1>2. Shape(u.kid, u.parent, h) /\ InTree(u) = InTree(t) \cup {n}
  BY <1>1, GrownShape
<1>3. Sound(u, h)
  BY <1>1, <1>2 DEF Sound
<1>4. /\ c \in InCells(t.parent) /\ c \in Cells /\ s \in Sides /\ (c = Sentinel => s = "left")
      /\ n \in Nodes /\ n \in Cells /\ n # Sentinel /\ n \notin InCells(t.parent) /\ n # c
  <2>1. c \in InCells(t.parent) /\ s \in Sides /\ (c = Sentinel => s = "left")
    BY DEF Slot
  <2>2. n \in Nodes /\ n \notin InNodes(t.parent)
    BY DEF InTree, InNodes
  <2> QED BY <2>1, <2>2, CellFacts
<1>5. \A q \in Sides, x \in Cells :
       u.kid[q][x] = IF x = n THEN Sentinel ELSE IF x = c /\ q = s THEN n ELSE t.kid[q][x]
  BY DEF Grown
<1>6. \A m \in InTree(t) : m \in Cells /\ m # n /\ m # Sentinel
  BY <1>4, CellFacts DEF InTree
<1>7. \A m \in InTree(t), q \in Sides : t.kid[q][m] \in Cells /\ t.kid[q][m] # n
  <2>1. \A m \in InTree(t), q \in Sides :
          t.kid[q][m] \in Cells /\ (t.kid[q][m] # Sentinel => t.kid[q][m] \in InTree(t))
    BY <1>1, KidFacts
  <2>2. n \notin InTree(t) /\ n # Sentinel
    BY <1>4
  <2> QED BY <2>1, <2>2, Zenon
<1>8. Sentinel \notin t.red /\ n \notin t.red
  BY <1>1, <1>6
<1> DEFINE d == [b EXCEPT ![n] = 1]
<1>9. b \in [Cells -> Nat] /\ b[Sentinel] = 0
  BY <1>1 DEF Even
<1>10. /\ d \in [Cells -> Nat] /\ d[Sentinel] = 0 /\ d[n] = 1
       /\ \A x \in Cells : x # n => d[x] = b[x]
  BY <1>4, <1>9, CellFacts
<1> HIDE DEF d
<1>11. Even(u, d, Sentinel, "left")
  <2>1. \A m \in InTree(t), q \in Sides : b[m] = b[t.kid[q][m]] + Weight(t, t.kid[q][m])
    BY <1>1, EvenWhole
  <2>2. Weight(u, Sentinel) = 1 /\ Weight(t, Sentinel) = 1 /\ Weight(u, n) = 0
    BY <1>4, <1>8 DEF Weight
  <2>3. \A x : x # n => Weight(u, x) = Weight(t, x)
    BY DEF Weight
  <2>4. ASSUME NEW m \in InTree(u), NEW q \in Sides
        PROVE  d[m] = d[u.kid[q][m]] + Weight(u, u.kid[q][m])
    <3>1. CASE m = n
      <4>1. u.kid[q][m] = Sentinel
        BY <1>4, <1>5, <3>1
      <4> QED BY <1>10, <2>2, <3>1, <4>1
    <3>2. CASE m \in InTree(t) /\ m = c /\ q = s
      <4>1. u.kid[q][m] = n /\ t.kid[q][m] = Sentinel
        BY <1>4, <1>5, <3>2
      <4>2. b[m] = b[Sentinel] + Weight(t, Sentinel)
        BY <2>1, <3>2, <4>1
      <4> QED BY <1>4, <1>6, <1>9, <1>10, <2>2, <3>2, <4>1, <4>2
    <3>3. CASE m \in InTree(t) /\ ~(m = c /\ q = s)
      <4>1. u.kid[q][m] = t.kid[q][m]
        BY <1>5, <1>6, <3>3
      <4>2. b[m] = b[t.kid[q][m]] + Weight(t, t.kid[q][m])
        BY <2>1, <3>3
      <4>3. Weight(u, t.kid[q][m]) = Weight(t, t.kid[q][m]) /\ d[t.kid[q][m]] = b[t.kid[q][m]]
            /\ d[m] = b[m]
        BY <1>6, <1>7, <1>10, <2>3, <3>3
      <4> QED BY <4>1, <4>2, <4>3
    <3> QED BY <1>2, <3>1, <3>2, <3>3
  <2> QED BY <1>2, <1>10, <2>4, EvenWhole, Zenon
<1>12. \A m \in u.red, q \in Sides : u.kid[q][m] \in u.red => u.kid[q][m] = n
  <2> SUFFICES ASSUME NEW m \in u.red, NEW q \in Sides, u.kid[q][m] \in u.red, u.kid[q][m] # n
               PROVE  FALSE
    OBVIOUS
  <2>1. u.kid[q][m] \in t.red
    OBVIOUS
  <2>2. m # n
    BY <1>4, <1>5, <1>8, <2>1
  <2>3. m \in t.red /\ m \in Cells
    BY <1>1, <1>6, <2>2
  <2>4. u.kid[q][m] = t.kid[q][m]
    BY <1>5, <2>2, <2>3
  <2> QED BY <2>1, <2>3, <2>4 DEF Balanced
<1>13. Root(u) \in u.red => Root(u) = n
  <2>1. Root(u) = n \/ Root(u) = Root(t)
    BY <1>4, <1>5, CellFacts DEF Root
  <2>2. Root(t) \notin t.red
    BY DEF Balanced
  <2> QED BY <2>1, <2>2
<1> QED BY <1>3, <1>11, <1>12, <1>13 DEF InsertInv

\* The last step of the insertion.
LEMMA RootBlack ==
  ASSUME NEW t, NEW g, NEW m, NEW h, InsertEnd(t, m, h, g), t.parent[m] \notin t.red,
         NEW u, Blacken(t, {Root(t)}) = u
  PROVE  \E k, c : /\ Sound(u, k) /\ Even(u, c, Sentinel, "left")
                   /\ Root(u) \notin u.red
                   /\ \A x \in u.red, q \in Sides : u.kid[q][x] \notin u.red
                   /\ k.at = h.at /\ k.size = h.size /\ InTree(u) = g
<1>1. PICK k, c : InsertInv(t, m, k, c) /\ k.at = h.at /\ k.size = h.size /\ InTree(t) = g
  BY DEF InsertEnd
<1>2. Sound(t, k) /\ Even(t, c, Sentinel, "left") /\ t \in Trees /\ t.red \subseteq InTree(t)
      /\ Shape(t.kid, t.parent, k)
  BY <1>1 DEF InsertInv, Sound
<1>3. PICK r : Root(t) = r
  OBVIOUS
<1>4. u.kid = t.kid /\ u.parent = t.parent /\ u.red = t.red \ {r} /\ u \in Trees
  BY <1>2, <1>3 DEF Blacken, Trees
<1>5. Recoloured(t, u, t.red \ {r})
  BY <1>4 DEF Recoloured
<1>6. Sound(u, k) /\ InTree(u) = InTree(t) /\ Root(u) = r
  <2>1. PICK S : t.red \ {r} = S
    BY Zenon
  <2>2. Recoloured(t, u, S) /\ S \in SUBSET InTree(t)
    BY <1>2, <1>5, <2>1
  <2> QED BY <1>2, <1>3, <2>2, RecolouredShape
<1>7. \A n \in InTree(t), q \in Sides : t.kid[q][n] \in InTree(t) => t.kid[q][n] # r
  <2> SUFFICES ASSUME NEW n \in InTree(t), NEW q \in Sides, r \in InTree(t), t.kid[q][n] = r
               PROVE  FALSE
    OBVIOUS
  <2>1. n = t.parent[r]
    BY <1>2, OneSlot
  <2>2. Sentinel \in InCells(t.parent) /\ r # Sentinel
    BY CellFacts DEF InTree
  <2>3. t.parent[r] = Sentinel
    BY <1>2, <1>3, <2>2 DEF Shape, LeftOf, Root
  <2> QED BY <2>1, <2>3, CellFacts DEF InTree
<1>8. Even(u, c, Sentinel, "left")
  <2>1. /\ c \in [Cells -> Nat] /\ c[Sentinel] = 0
        /\ \A n \in InTree(t), q \in Sides : c[n] = c[t.kid[q][n]] + Weight(t, t.kid[q][n])
    BY <1>2, EvenWhole, Zenon
  <2>2. \A n \in InTree(t), q \in Sides : Weight(u, t.kid[q][n]) = Weight(t, t.kid[q][n])
    BY <1>2, <1>4, <1>7 DEF Weight
  <2>3. \A n \in InTree(u), q \in Sides : c[n] = c[u.kid[q][n]] + Weight(u, u.kid[q][n])
    BY <1>4, <1>6, <2>1, <2>2
  <2>4. u \in Trees /\ Shape(u.kid, u.parent, k)
    BY <1>6 DEF Sound
  <2> QED BY <2>1, <2>3, <2>4, EvenWhole, Zenon
<1>9. \A x \in u.red, q \in Sides : u.kid[q][x] \notin u.red
  <2> SUFFICES ASSUME NEW x \in u.red, NEW q \in Sides, u.kid[q][x] \in u.red PROVE FALSE
    OBVIOUS
  <2>1. x \in t.red /\ x \in InTree(t) /\ t.kid[q][x] \in t.red
    BY <1>2, <1>4
  <2>2. t.kid[q][x] = m /\ m \in InTree(t)
    BY <1>1, <1>2, <2>1 DEF InsertInv
  <2>3. x = t.parent[m]
    BY <1>2, <2>1, <2>2, OneSlot
  <2> QED BY <2>1, <2>3
<1> QED BY <1>1, <1>4, <1>6, <1>8, <1>9

-----------------------------------------------------------------------------
(* The list *)

\* The list of the nodes in order, without the sentinel.
Listed(g) == [i \in 1 .. g.size - 1 |-> g.at[i]]

\* It is a sequence of nodes, position by position.
LEMMA ListedIs ==
  ASSUME NEW t, NEW g, Sound(t, g)
  PROVE  /\ Listed(g) \in Seq(Nodes) /\ Len(Listed(g)) = g.size - 1
         /\ \A i \in 1 .. g.size - 1 : Listed(g)[i] = g.at[i]
<1>1. g.size - 1 \in Nat
  BY SizeBound
<1>2. \A i \in 1 .. g.size - 1 : g.at[i] \in Nodes
  BY KeysAt DEF InTree
<1> QED BY <1>1, <1>2 DEF Listed

\* UpTo counts the entries before the first key above k, if the keys ascend.
LEMMA UpToIs ==
  ASSUME NEW s \in Seq(Nodes), NEW k \in Int, NEW m \in 0 .. Len(s),
         \A i \in 1 .. Len(s) : (i <= m => Key[s[i]] <= k) /\ (i > m => k < Key[s[i]])
  PROVE  Sorted!UpTo(s, k) = m
<1>1. Len(s) \in Nat /\ m \in Int
  OBVIOUS
<1>2. \A i \in 1 .. Len(s) : Key[s[i]] \in Int
  <2>1. \A i \in 1 .. Len(s) : s[i] \in Nodes
    OBVIOUS
  <2> QED BY <2>1, KeyAssumption
<1>3. DOMAIN s = 1 .. Len(s)
  OBVIOUS
<1>4. {i \in DOMAIN s : Key[s[i]] <= k} = 1 .. m
  <2>1. \A i \in 1 .. Len(s) : Key[s[i]] <= k <=> i <= m
    BY <1>1, <1>2
  <2>2. \A i : i \in 1 .. m <=> i \in 1 .. Len(s) /\ i <= m
    BY <1>1
  <2> QED BY <1>3, <2>1, <2>2
<1>5. Cardinality(1 .. m) = m
  <2>1. 1 \in Int
    OBVIOUS
  <2>2. Cardinality(1 .. m) = IF 1 > m THEN 0 ELSE m - 1 + 1
    BY <1>1, <2>1, FS_Interval
  <2> QED BY <2>2
<1>6. \A S : Sorted!Cardinality(S) = Cardinality(S)
  BY DEF Sorted!Cardinality, Cardinality
<1> QED BY <1>4, <1>5, <1>6, Zenon DEF Sorted!UpTo

\* A concatenation, entry by entry.
LEMMA ConcatIs ==
  \A a, b \in Seq(Nodes) :
    /\ a \o b \in Seq(Nodes) /\ Len(a \o b) = Len(a) + Len(b)
    /\ \A i \in 1 .. Len(a) + Len(b) :
         (a \o b)[i] = IF i <= Len(a) THEN a[i] ELSE b[i - Len(a)]
BY ConcatProperties

\* A subsequence, entry by entry.
LEMMA SubSeqIs ==
  \A s \in Seq(Nodes), m, n \in Int : 1 <= m /\ n <= Len(s) =>
    /\ SubSeq(s, m, n) \in Seq(Nodes)
    /\ Len(SubSeq(s, m, n)) = IF m <= n THEN n - m + 1 ELSE 0
    /\ \A i \in 1 .. n - m + 1 : SubSeq(s, m, n)[i] = s[m + i - 1]
<1> SUFFICES ASSUME NEW s \in Seq(Nodes), NEW m \in Int, NEW n \in Int, 1 <= m, n <= Len(s)
             PROVE  /\ SubSeq(s, m, n) \in Seq(Nodes)
                    /\ Len(SubSeq(s, m, n)) = IF m <= n THEN n - m + 1 ELSE 0
                    /\ \A i \in 1 .. n - m + 1 : SubSeq(s, m, n)[i] = s[m + i - 1]
  OBVIOUS
<1>1. \A i \in m .. n : s[i] \in Nodes
  <2>1. \A i \in m .. n : i \in 1 .. Len(s)
    OBVIOUS
  <2> QED BY <2>1
<1> QED BY <1>1, SubSeqProperties

\* A list that has n between the entries of s not above its key and those
\* above it is Inserted(s, n).
LEMMA InsertedIs ==
  ASSUME NEW s \in Seq(Nodes), NEW n \in Nodes, NEW k \in 1 .. Len(s) + 1,
         Sorted!UpTo(s, Key[n]) = k - 1,
         NEW r \in Seq(Nodes), Len(r) = Len(s) + 1,
         \A i \in 1 .. Len(r) : r[i] = IF i < k THEN s[i] ELSE IF i = k THEN n ELSE s[i - 1]
  PROVE  r = Sorted!Inserted(s, n)
<1>1. Len(s) \in Nat /\ k \in Int /\ 1 <= k /\ k <= Len(s) + 1 /\ (k - 1) + 1 = k
  OBVIOUS
<1>2. PICK a : SubSeq(s, 1, k - 1) = a
  BY Zenon
<1>3. PICK c : SubSeq(s, k, Len(s)) = c
  BY Zenon
<1>4. PICK d : a \o <<n>> = d
  BY Zenon
<1>5. PICK e : d \o c = e
  BY Zenon
<1>6. Sorted!Inserted(s, n) = e
  BY <1>1, <1>2, <1>3, <1>4, <1>5, Zenon DEF Sorted!Inserted, Sorted!InsertAt
<1>7. a \in Seq(Nodes) /\ Len(a) = k - 1 /\ \A i \in 1 .. Len(a) : a[i] = s[i]
  <2>1. /\ a \in Seq(Nodes)
        /\ Len(a) = IF 1 <= k - 1 THEN (k - 1) - 1 + 1 ELSE 0
        /\ \A i \in 1 .. (k - 1) - 1 + 1 : a[i] = s[1 + i - 1]
    <3>2. 1 \in Int /\ k - 1 \in Int /\ 1 <= 1 /\ k - 1 <= Len(s)
      BY <1>1
    <3>3. /\ SubSeq(s, 1, k - 1) \in Seq(Nodes)
          /\ Len(SubSeq(s, 1, k - 1)) = IF 1 <= k - 1 THEN (k - 1) - 1 + 1 ELSE 0
          /\ \A i \in 1 .. (k - 1) - 1 + 1 : SubSeq(s, 1, k - 1)[i] = s[1 + i - 1]
      BY <3>2, SubSeqIs
    <3> QED BY <1>2, <3>3, Zenon
  <2>2. Len(a) = k - 1
    BY <1>1, <2>1
  <2> QED BY <1>1, <2>1, <2>2
<1>8. /\ c \in Seq(Nodes) /\ Len(c) = Len(s) - k + 1
      /\ \A i \in 1 .. Len(c) : c[i] = s[k + i - 1]
  <2>1. /\ c \in Seq(Nodes)
        /\ Len(c) = IF k <= Len(s) THEN Len(s) - k + 1 ELSE 0
        /\ \A i \in 1 .. Len(s) - k + 1 : c[i] = s[k + i - 1]
    <3>2. k \in Int /\ Len(s) \in Int /\ 1 <= k /\ Len(s) <= Len(s)
      BY <1>1
    <3>3. /\ SubSeq(s, k, Len(s)) \in Seq(Nodes)
          /\ Len(SubSeq(s, k, Len(s))) = IF k <= Len(s) THEN Len(s) - k + 1 ELSE 0
          /\ \A i \in 1 .. Len(s) - k + 1 : SubSeq(s, k, Len(s))[i] = s[k + i - 1]
      BY <3>2, SubSeqIs
    <3> QED BY <1>3, <3>3, Zenon
  <2> QED BY <1>1, <2>1
<1>9. <<n>> \in Seq(Nodes) /\ Len(<<n>>) = 1 /\ <<n>>[1] = n
  OBVIOUS
<1>10. /\ d \in Seq(Nodes) /\ Len(d) = k
       /\ \A i \in 1 .. k : d[i] = IF i <= k - 1 THEN a[i] ELSE <<n>>[i - (k - 1)]
  <2>1. /\ d \in Seq(Nodes) /\ Len(d) = Len(a) + Len(<<n>>)
        /\ \A i \in 1 .. Len(a) + Len(<<n>>) :
             d[i] = IF i <= Len(a) THEN a[i] ELSE <<n>>[i - Len(a)]
    BY <1>4, <1>7, <1>9, ConcatIs, Zenon
  <2> QED BY <1>1, <1>7, <1>9, <2>1, Zenon
<1>11. /\ e \in Seq(Nodes) /\ Len(e) = Len(s) + 1
       /\ \A i \in 1 .. Len(e) : e[i] = IF i <= k THEN d[i] ELSE c[i - k]
  <2>1. /\ e \in Seq(Nodes) /\ Len(e) = Len(d) + Len(c)
        /\ \A i \in 1 .. Len(d) + Len(c) :
             e[i] = IF i <= Len(d) THEN d[i] ELSE c[i - Len(d)]
    BY <1>5, <1>8, <1>10, ConcatIs, Zenon
  <2> QED BY <1>1, <1>8, <1>10, <2>1
<1>12. \A i \in 1 .. Len(s) + 1 : r[i] = e[i]
  <2> SUFFICES ASSUME NEW i \in 1 .. Len(s) + 1 PROVE r[i] = e[i]
    OBVIOUS
  <2>1. i \in Int /\ 1 <= i /\ i <= Len(s) + 1
    BY <1>1
  <2>2. CASE i < k
    BY <1>1, <1>7, <1>10, <1>11, <2>1, <2>2
  <2>3. CASE i = k
    <3>1. e[i] = d[k] /\ d[k] = <<n>>[k - (k - 1)]
      BY <1>1, <1>10, <1>11, <2>1, <2>3
    <3>2. k - (k - 1) = 1
      BY <1>1
    <3> QED BY <1>1, <1>9, <2>3, <3>1, <3>2
  <2>4. CASE i > k
    <3>1. i - k \in 1 .. Len(c) /\ k + (i - k) - 1 = i - 1
      BY <1>1, <1>8, <2>1, <2>4
    <3>2. e[i] = s[i - 1]
      BY <1>1, <1>8, <1>11, <2>1, <2>4, <3>1
    <3> QED BY <1>1, <2>1, <2>4, <3>2
  <2> QED BY <1>1, <2>1, <2>2, <2>3, <2>4
<1> QED BY <1>6, <1>11, <1>12, SeqEqual

\* js_rbtree_insert keeps the tree balanced, adds the one node, and inserts it
\* into the list behind those of the same key.
LEMMA InsertOK ==
  ASSUME NEW t, NEW g, NEW b, Balanced(t, g, b), NEW n \in Nodes \ InTree(t),
         NEW u, InsertInto(t, n) = u
  PROVE  \E h, d : /\ Balanced(u, h, d) /\ InTree(u) = InTree(t) \cup {n}
                   /\ Listed(h) = Sorted!Inserted(Listed(g), n)
<1>1. Sound(t, g) /\ Keyed(g) /\ t \in Trees /\ g \in Orders /\ g.size \in Nat
  BY DEF Balanced, Sound, Shape, Numbered, Orders
<1>2. PICK c, s : /\ Place(t, n) = <<c, s>> /\ Slot(t, c, s) /\ t.kid[s][c] = Sentinel
                  /\ Around(g, n, SlotLo(g, c, s), SlotHi(g, c, s))
  BY <1>1, PlaceOK
<1>3. PICK k : SlotLo(g, c, s) = k
  OBVIOUS
<1>4. k \in 1 .. g.size /\ SlotHi(g, c, s) = k - 1
  <2>1. /\ SlotLo(g, c, s) \in Int /\ SlotHi(g, c, s) \in Int
        /\ 1 <= SlotLo(g, c, s) /\ SlotHi(g, c, s) < g.size
        /\ SlotHi(g, c, s) = SlotLo(g, c, s) - 1
    BY <1>1, <1>2, SlotFacts
  <2> QED BY <1>1, <1>3, <2>1
<1>5. n \in Nodes /\ n \in Cells /\ c \in Cells /\ s \in Sides /\ c # n
  BY <1>2, CellFacts DEF Slot, InTree, InCells, InNodes
<1>6. PICK v : [t EXCEPT !.kid["left"][n] = Sentinel,
                         !.kid["right"][n] = Sentinel,
                         !.kid[s][c] = n,
                         !.parent[n] = c,
                         !.red = @ \cup {n}] = v
  OBVIOUS
<1>7. v \in Trees /\ Grown(t, v, n, c, s) /\ v.red = t.red \cup {n}
  BY <1>1, <1>5, <1>6, LinkIs, Zenon
<1>8. PICK h \in Orders : Opened(g, h, n, k, s)
  <2>1. \A i \in 1 .. g.size : g.at[i] \in Cells
    BY <1>1, CellFacts DEF Sound, Shape, Numbered
  <2> QED BY <1>1, <1>4, <1>5, <2>1, OrderOpens
<1>9. PICK d : InsertInv(v, n, h, d)
  BY <1>2, <1>3, <1>7, <1>8, GrownInsert
<1>10. InTree(v) = InTree(t) \cup {n}
  BY <1>1, <1>2, <1>3, <1>7, <1>8, GrownShape
<1>11. PICK w : InsertFixup(v, n) = w
  OBVIOUS
<1>12. PICK m : InsertEnd(w, m, h, InTree(v)) /\ w.parent[m] \notin w.red
  BY <1>9, <1>11, InsertFixupOK
<1>13. Blacken(w, {Root(w)}) = u
  <2>1. Place(t, n)[1] = c /\ Place(t, n)[2] = s
    BY <1>2
  <2> QED BY <1>6, <1>11, <2>1 DEF InsertInto
<1>14. PICK j, e : /\ Sound(u, j) /\ Even(u, e, Sentinel, "left")
                   /\ Root(u) \notin u.red
                   /\ \A x \in u.red, q \in Sides : u.kid[q][x] \notin u.red
                   /\ j.at = h.at /\ j.size = h.size /\ InTree(u) = InTree(v)
  BY <1>12, <1>13, RootBlack
<1>15. /\ j.size = g.size + 1
       /\ \A i \in 1 .. g.size + 1 :
            j.at[i] = IF i < k THEN g.at[i] ELSE IF i = k THEN n ELSE g.at[i - 1]
  BY <1>8, <1>14 DEF Opened
<1>16. \A i \in 1 .. g.size - 1 : /\ i < k => Key[g.at[i]] <= Key[n]
                                  /\ i > k - 1 => Key[n] < Key[g.at[i]]
  BY <1>2, <1>3, <1>4 DEF Around
<1>17. Key[n] \in Int /\ \A i \in 1 .. g.size - 1 : Key[g.at[i]] \in Int
  BY <1>1, <1>5, KeysAt, KeyAssumption
<1>18. Keyed(j)
  <2> SUFFICES ASSUME NEW x \in 1 .. j.size - 1, NEW y \in 1 .. j.size - 1, x <= y
               PROVE  Key[j.at[x]] <= Key[j.at[y]]
    BY DEF Keyed
  <2>1. x \in 1 .. g.size /\ y \in 1 .. g.size /\ x \in Int /\ y \in Int
    BY <1>1, <1>15
  <2> DEFINE V(i) == IF i < k THEN Key[g.at[i]] ELSE IF i = k THEN Key[n] ELSE Key[g.at[i - 1]]
  <2>2. Key[j.at[x]] = V(x) /\ Key[j.at[y]] = V(y)
    BY <1>1, <1>15, <2>1
  <2>3. \A p, q \in 1 .. g.size - 1 : p <= q => Key[g.at[p]] <= Key[g.at[q]]
    BY <1>1 DEF Keyed
  <2>4. k \in Int /\ 1 <= k /\ k <= g.size
    BY <1>1, <1>4
  <2>5. /\ x < k => x \in 1 .. g.size - 1
        /\ y < k => y \in 1 .. g.size - 1
        /\ x > k => x - 1 \in 1 .. g.size - 1 /\ x - 1 > k - 1
        /\ y > k => y - 1 \in 1 .. g.size - 1 /\ y - 1 > k - 1
    BY <1>1, <2>1, <2>4
  <2>6. CASE x < k /\ y < k
    BY <2>2, <2>3, <2>5, <2>6
  <2>7. CASE x < k /\ y = k
    BY <1>16, <2>2, <2>4, <2>5, <2>7
  <2>8. CASE x < k /\ y > k
    <3>1. x <= y - 1
      BY <2>1, <2>4, <2>8
    <3> QED BY <2>1, <2>2, <2>3, <2>4, <2>5, <2>8, <3>1
  <2>9. CASE x = k /\ y = k
    BY <1>17, <2>2, <2>9
  <2>10. CASE x = k /\ y > k
    BY <1>16, <1>17, <2>1, <2>2, <2>4, <2>5, <2>10
  <2>11. CASE x > k /\ y > k
    <3>1. x - 1 <= y - 1
      BY <2>1
    <3> QED BY <2>1, <2>2, <2>3, <2>4, <2>5, <2>11, <3>1
  <2> QED BY <2>1, <2>4, <2>6, <2>7, <2>8, <2>9, <2>10, <2>11
<1>19. Listed(j) = Sorted!Inserted(Listed(g), n)
  <2>1. /\ Listed(g) \in Seq(Nodes) /\ Len(Listed(g)) = g.size - 1
        /\ \A i \in 1 .. g.size - 1 : Listed(g)[i] = g.at[i]
    BY <1>1, ListedIs
  <2>2. /\ Listed(j) \in Seq(Nodes) /\ Len(Listed(j)) = j.size - 1
        /\ \A i \in 1 .. j.size - 1 : Listed(j)[i] = j.at[i]
    BY <1>14, ListedIs
  <2>3. PICK l : Listed(g) = l
    OBVIOUS
  <2>4. PICK r : Listed(j) = r
    OBVIOUS
  <2>5. Len(l) = g.size - 1 /\ Len(r) = g.size /\ g.size \in Nat /\ k \in 1 .. g.size
    BY <1>1, <1>4, <1>15, <2>1, <2>2, <2>3, <2>4
  <2>6. Sorted!UpTo(l, Key[n]) = k - 1
    <3>1. \A i \in 1 .. Len(l) : (i <= k - 1 => Key[l[i]] <= Key[n])
                                 /\ (i > k - 1 => Key[n] < Key[l[i]])
      <4>1. \A i \in 1 .. Len(l) : i <= k - 1 => i < k
        BY <2>5
      <4> QED BY <1>16, <2>1, <2>3, <2>5, <4>1
    <3>2. k - 1 \in 0 .. Len(l)
      BY <2>5
    <3>3. l \in Seq(Nodes)
      BY <2>1, <2>3
    <3> QED BY <1>17, <3>1, <3>2, <3>3, UpToIs
  <2>7. \A i \in 1 .. Len(r) : r[i] = IF i < k THEN l[i] ELSE IF i = k THEN n ELSE l[i - 1]
    <3> SUFFICES ASSUME NEW i \in 1 .. Len(r)
                 PROVE  r[i] = IF i < k THEN l[i] ELSE IF i = k THEN n ELSE l[i - 1]
      OBVIOUS
    <3>1. i \in 1 .. g.size + 1 /\ i \in 1 .. j.size - 1
      BY <1>15, <2>5
    <3>2. r[i] = IF i < k THEN g.at[i] ELSE IF i = k THEN n ELSE g.at[i - 1]
      BY <1>15, <2>2, <2>4, <3>1
    <3>3. i < k => i \in 1 .. g.size - 1
      BY <2>5
    <3>4. ~(i < k) /\ i # k => i - 1 \in 1 .. g.size - 1
      BY <2>5
    <3> QED BY <2>1, <2>3, <3>2, <3>3, <3>4
  <2>8. k \in 1 .. Len(l) + 1 /\ Len(r) = Len(l) + 1
    BY <2>5
  <2>9. l \in Seq(Nodes) /\ r \in Seq(Nodes)
    BY <2>1, <2>2, <2>3, <2>4
  <2>10. r = Sorted!Inserted(l, n)
    BY <1>5, <2>6, <2>7, <2>8, <2>9, InsertedIs
  <2> QED BY <2>3, <2>4, <2>10
<1> QED BY <1>10, <1>14, <1>18, <1>19 DEF Balanced

-----------------------------------------------------------------------------
(* The repair after a deletion *)

\* No red node has a red child.
NoRedRed(t) == \A m \in t.red, q \in Sides : t.kid[q][m] \notin t.red

\* A tree with nothing left to repair.
Whole(t, g, b) ==
  Sound(t, g) /\ Even(t, b, Sentinel, "left") /\ Root(t) \notin t.red /\ NoRedRed(t)

\* One black is missing on side s of p, where no red node is to be had, and the
\* sibling w is black.
Middle(t, g, b, p, s, w) ==
  /\ Sound(t, g) /\ p \in InTree(t) /\ s \in Sides /\ Even(t, b, p, s)
  /\ w \in InTree(t) /\ t.kid[Other(s)][p] = w /\ w \notin t.red
  /\ t.kid[s][p] \notin t.red
  /\ Root(t) \notin t.red /\ NoRedRed(t)

\* The nodes around a short slot with a black sibling.
LEMMA MiddleFacts ==
  ASSUME NEW t, NEW g, NEW b, NEW p, NEW s, NEW w, Middle(t, g, b, p, s, w)
  PROVE  /\ t \in Trees /\ Shape(t.kid, t.parent, g) /\ t.red \subseteq InTree(t)
         /\ Other(s) \in Sides /\ Other(s) # s /\ Other(Other(s)) = s
         /\ \A q \in Sides : q \in {s, Other(s)}
         /\ \A m \in InTree(t) : m # Sentinel /\ m \in Cells /\ m \in Nodes
         /\ Sentinel \notin t.red
         /\ p # w /\ t.parent[w] = p /\ t.parent[p] # p /\ t.parent[p] # w
         /\ t.parent[p] \in Cells
         /\ SideOf(t, w) = Other(s) /\ SideOf(t, p) \in Sides
         /\ t.kid[SideOf(t, p)][t.parent[p]] = p
         /\ b \in [Cells -> Nat] /\ b[Sentinel] = 0
         /\ b[p] = b[t.kid[s][p]] + 2 /\ b[p] = b[w] + 1
         /\ \A m \in InTree(t), q \in Sides :
              ~(m = p /\ q = s) => b[m] = b[t.kid[q][m]] + Weight(t, t.kid[q][m])
<1>1. /\ t \in Trees /\ Shape(t.kid, t.parent, g) /\ t.red \subseteq InTree(t)
      /\ p \in InTree(t) /\ s \in Sides /\ Even(t, b, p, s)
      /\ w \in InTree(t) /\ t.kid[Other(s)][p] = w /\ w \notin t.red
      /\ t.kid[s][p] \notin t.red
  BY DEF Middle, Sound
<1>2. /\ Other(s) \in Sides /\ Other(s) # s /\ Other(Other(s)) = s
      /\ \A q \in Sides : q \in {s, Other(s)}
  BY <1>1, Sides2, CellFacts DEF Other
<1>3. \A m \in InTree(t) : m # Sentinel /\ m \in Cells /\ m \in Nodes
  BY <1>1, UpFacts
<1>4. p # w /\ t.parent[w] = p /\ t.parent[p] # w /\ SideOf(t, w) = Other(s)
  BY <1>1, <1>2, <1>3, KidFacts
<1>5. /\ t.parent[p] # p /\ t.parent[p] \in Cells /\ SideOf(t, p) \in Sides
      /\ t.kid[SideOf(t, p)][t.parent[p]] = p
  BY <1>1, UpFacts
<1>6. /\ b \in [Cells -> Nat] /\ b[Sentinel] = 0
      /\ \A m \in InTree(t), q \in Sides :
           IF m = p /\ q = s THEN b[m] = b[t.kid[q][m]] + Weight(t, t.kid[q][m]) + 1
                             ELSE b[m] = b[t.kid[q][m]] + Weight(t, t.kid[q][m])
  BY <1>1 DEF Even
<1>7. Weight(t, t.kid[s][p]) = 1 /\ Weight(t, w) = 1
  BY <1>1 DEF Weight
<1>8. b[p] = b[t.kid[s][p]] + 2 /\ b[p] = b[w] + 1
  <2>1. b[p] = b[t.kid[s][p]] + 1 + 1
    BY <1>1, <1>6, <1>7
  <2>2. b[p] = b[w] + 1
    BY <1>1, <1>2, <1>6, <1>7
  <2>3. t.kid[s][p] \in Cells
    BY <1>1, KidFacts
  <2> QED BY <1>6, <2>1, <2>2, <2>3
<1>9. \A m \in InTree(t), q \in Sides :
              ~(m = p /\ q = s) => b[m] = b[t.kid[q][m]] + Weight(t, t.kid[q][m])
  BY <1>6
<1> QED BY <1>1, <1>2, <1>3, <1>4, <1>5, <1>6, <1>8, <1>9

\* The colours after Settle.
Settled(t, p, w, outer) ==
  (IF p \in t.red THEN t.red \cup {w} ELSE t.red \ {w}) \ {p, outer}

\* What Settle does, before its rotation.
LEMMA SettleIs ==
  ASSUME NEW t \in Trees, NEW p \in Nodes, NEW s \in Sides, NEW w \in Nodes,
         t.kid[Other(s)][p] = w, NEW outer, t.kid[Other(s)][w] = outer,
         NEW u, Settle(t, p, s) = u
  PROVE  \E v : Recoloured(t, v, Settled(t, p, w, outer)) /\ Rotate(v, s, p) = u
<1>1. PICK c : ColourAs(t, w, p) = c
  OBVIOUS
<1>2. PICK v : Blacken(c, {p, outer}) = v
  OBVIOUS
<1>3. Rotate(v, s, p) = u
  BY <1>1, <1>2 DEF Settle
<1>4. c \in Trees /\ c.kid = t.kid /\ c.parent = t.parent
      /\ c.red = IF p \in t.red THEN t.red \cup {w} ELSE t.red \ {w}
  <2>1. CASE p \in t.red
    <3>1. Redden(t, w) = c
      BY <1>1, <2>1 DEF ColourAs
    <3>2. Recoloured(t, c, t.red \cup {w})
      BY <3>1, Paint, Zenon
    <3> QED BY <2>1, <3>2 DEF Recoloured
  <2>2. CASE p \notin t.red
    <3>1. Blacken(t, {w}) = c
      BY <1>1, <2>2 DEF ColourAs
    <3>2. Recoloured(t, c, t.red \ {w})
      BY <3>1, Paint, Zenon
    <3> QED BY <2>2, <3>2 DEF Recoloured
  <2> QED BY <2>1, <2>2
<1>5. Recoloured(c, v, c.red \ {p, outer})
  <2>1. \A S : Recoloured(c, Blacken(c, S), c.red \ S)
    BY <1>4, Paint, Zenon
  <2> QED BY <1>2, <2>1
<1>6. Recoloured(t, v, Settled(t, p, w, outer))
  BY <1>4, <1>5 DEF Recoloured, Settled
<1> QED BY <1>3, <1>6

\* With a red child of the sibling on the far side, Settle repairs the tree.
LEMMA SettleOK ==
  ASSUME NEW t, NEW g, NEW b, NEW p, NEW s, NEW w, Middle(t, g, b, p, s, w),
         NEW outer, t.kid[Other(s)][w] = outer, outer \in t.red,
         NEW u, Settle(t, p, s) = u
  PROVE  \E h, c : Whole(u, h, c) /\ h.at = g.at /\ h.size = g.size /\ InTree(u) = InTree(t)
<1> DEFINE far   == Other(s)
           x     == t.kid[s][p]
           near  == t.kid[s][w]
           d     == t.parent[p]
           sd    == SideOf(t, p)
<1>1. /\ t \in Trees /\ Shape(t.kid, t.parent, g) /\ t.red \subseteq InTree(t)
      /\ far \in Sides /\ far # s /\ Other(far) = s
      /\ \A q \in Sides : q \in {s, far}
      /\ \A m \in InTree(t) : m # Sentinel /\ m \in Cells /\ m \in Nodes
      /\ Sentinel \notin t.red
      /\ p # w /\ t.parent[w] = p /\ d # p /\ d # w
      /\ d \in Cells
      /\ SideOf(t, w) = far /\ sd \in Sides
      /\ t.kid[sd][d] = p
  BY MiddleFacts
<1>2. /\ b \in [Cells -> Nat] /\ b[Sentinel] = 0
      /\ b[p] = b[x] + 2 /\ b[p] = b[w] + 1
      /\ \A m \in InTree(t), q \in Sides :
           ~(m = p /\ q = s) => b[m] = b[t.kid[q][m]] + Weight(t, t.kid[q][m])
  BY MiddleFacts
<1>3. /\ p \in InTree(t) /\ s \in Sides /\ w \in InTree(t) /\ t.kid[far][p] = w /\ w \notin t.red
      /\ x \notin t.red /\ Root(t) \notin t.red /\ Sound(t, g)
      /\ \A m \in t.red, q \in Sides : t.kid[q][m] \notin t.red
  BY DEF Middle, NoRedRed
<1>4. \A m \in InTree(t), q \in Sides :
        /\ t.kid[q][m] \in Cells
        /\ t.kid[q][m] # Sentinel =>
             /\ t.kid[q][m] \in InTree(t) /\ t.parent[t.kid[q][m]] = m
             /\ SideOf(t, t.kid[q][m]) = q
             /\ t.kid[q][m] # m /\ t.kid[q][m] # t.parent[m]
  BY <1>1, KidFacts
<1>5. t.kid[far][w] = outer /\ outer \in t.red
  OBVIOUS
<1> HIDE DEF far, x, near, d, sd
<1>6. /\ outer \in InTree(t) /\ outer # p /\ outer # w /\ t.parent[outer] = w /\ SideOf(t, outer) = far
  BY <1>1, <1>3, <1>4, <1>5
<1>7. \A m \in InTree(t), q \in Sides :
        /\ t.kid[q][m] = p => m = d /\ q = sd
        /\ t.kid[q][m] = w => m = p /\ q = far
        /\ t.kid[q][m] = outer => m = w /\ q = far
  BY <1>1, <1>3, <1>4, <1>6 DEF d, sd
<1>8. /\ x \in Cells /\ x # p /\ x # w /\ x # outer
      /\ near \in Cells /\ near # p /\ near # w /\ near # outer
  <2>1. x \in Cells /\ near \in Cells
    BY <1>3, <1>4 DEF x, near
  <2>2. t.kid[s][p] = x /\ t.kid[s][w] = near
    BY DEF x, near
  <2> QED BY <1>1, <1>3, <1>6, <1>7, <2>1, <2>2
<1>9. PICK v : Recoloured(t, v, Settled(t, p, w, outer)) /\ Rotate(v, s, p) = u
  BY <1>1, <1>3, <1>5, SettleIs DEF far
<1>10. PICK S : Settled(t, p, w, outer) = S
  OBVIOUS
<1>11. /\ S \in SUBSET InTree(t)
       /\ w \in S <=> p \in t.red
       /\ p \notin S /\ outer \notin S
       /\ \A m : m \notin {p, w, outer} => (m \in S <=> m \in t.red)
  BY <1>1, <1>3, <1>6, <1>10 DEF Settled
<1>12. Recoloured(t, v, S)
  BY <1>9, <1>10
<1>13. /\ Sound(v, g) /\ InTree(v) = InTree(t) /\ SideOf(v, p) = sd
       /\ v \in Trees /\ v.kid = t.kid /\ v.parent = t.parent /\ v.red = S
       /\ Shape(v.kid, v.parent, g)
  <2>1. Sound(v, g) /\ InTree(v) = InTree(t) /\ SideOf(v, p) = SideOf(t, p)
    BY <1>3, <1>11, <1>12, RecolouredShape
  <2> QED BY <1>12, <2>1 DEF Recoloured, Sound, sd
<1>14. /\ u \in Trees /\ u.red = S /\ Turned(v, u, s, p) /\ InTree(u) = InTree(t)
       /\ \E h : TurnedOrder(g, h, s, p, v.kid[far][p]) /\ Shape(u.kid, u.parent, h)
  <2>1. p \in InTree(v) /\ v.kid[Other(s)][p] # Sentinel
    BY <1>1, <1>3, <1>13 DEF far
  <2> QED BY <1>3, <1>9, <1>13, <2>1, RotateOK DEF far
<1>15. PICK h : TurnedOrder(g, h, s, p, v.kid[far][p]) /\ Shape(u.kid, u.parent, h)
  BY <1>14
<1>16. \A q \in Sides, m \in Cells :
           u.kid[q][m] = IF m = p /\ q = far THEN near
                         ELSE IF m = w /\ q = s THEN p
                         ELSE IF m = d /\ q = sd THEN w
                         ELSE t.kid[q][m]
  BY <1>3, <1>13, <1>14 DEF Turned, far, near, d
<1>17. Sound(u, h)
  BY <1>11, <1>14, <1>15 DEF Sound
<1>18. PICK H \in Nat : b[p] = H + 1
  <2>1. p \in Cells /\ w \in Cells
    BY <1>1, <1>3
  <2> QED BY <1>2, <2>1
<1> DEFINE c == [b EXCEPT ![p] = H, ![w] = H + 1]
<1>19. /\ c \in [Cells -> Nat] /\ c[p] = H /\ c[w] = H + 1
       /\ \A m \in Cells : m \notin {p, w} => c[m] = b[m]
  <2>1. p \in Cells /\ w \in Cells /\ H + 1 \in Nat
    BY <1>1, <1>3, <1>18
  <2> QED BY <1>1, <1>2, <2>1
<1> HIDE DEF c
<1>20. /\ b[x] + 1 = H /\ b[w] = H /\ b[outer] = H /\ b[near] + Weight(t, near) = H
  <2>1. b[w] = b[outer] + Weight(t, outer) /\ b[w] = b[near] + Weight(t, near)
    BY <1>1, <1>2, <1>3, <1>5 DEF near
  <2>2. Weight(t, outer) = 0
    BY <1>5 DEF Weight
  <2>3. b[x] \in Nat /\ b[w] \in Nat /\ b[outer] \in Nat
    BY <1>1, <1>2, <1>3, <1>6, <1>8
  <2> QED BY <1>2, <1>18, <2>1, <2>2, <2>3
<1>21. /\ Weight(u, p) = 1 /\ Weight(u, outer) = 1 /\ Weight(u, x) = 1
       /\ Weight(u, w) = Weight(t, p)
       /\ \A m : m \notin {p, w, outer} => Weight(u, m) = Weight(t, m)
  BY <1>3, <1>8, <1>11, <1>14 DEF Weight
<1>22. Even(u, c, Sentinel, "left")
  <2>1. ASSUME NEW m \in InTree(t), NEW q \in Sides
        PROVE  c[m] = c[u.kid[q][m]] + Weight(u, u.kid[q][m])
    <3>0. m \in Cells
      BY <1>1
    <3>1. CASE m = p /\ q = far
      <4>1. u.kid[q][m] = near
        BY <1>16, <3>0, <3>1
      <4> QED BY <1>8, <1>19, <1>20, <1>21, <3>1, <4>1
    <3>2. CASE m = p /\ q = s
      <4>1. u.kid[q][m] = x
        BY <1>1, <1>16, <3>0, <3>2 DEF x
      <4> QED BY <1>8, <1>19, <1>20, <1>21, <3>2, <4>1
    <3>3. CASE m = w /\ q = s
      <4>1. u.kid[q][m] = p
        BY <1>1, <1>16, <3>0, <3>3
      <4> QED BY <1>19, <1>21, <3>3, <4>1
    <3>4. CASE m = w /\ q = far
      <4>1. u.kid[q][m] = outer
        BY <1>1, <1>5, <1>16, <3>0, <3>4
      <4> QED BY <1>1, <1>6, <1>19, <1>20, <1>21, <3>4, <4>1
    <3>5. CASE m = d /\ q = sd
      <4>1. u.kid[q][m] = w
        BY <1>1, <1>16, <3>0, <3>5
      <4>2. b[d] = b[p] + Weight(t, p)
        BY <1>1, <1>2, <3>5
      <4> QED BY <1>1, <1>18, <1>19, <1>21, <3>5, <4>1, <4>2
    <3>6. CASE m \notin {p, w} /\ ~(m = d /\ q = sd)
      <4>1. u.kid[q][m] = t.kid[q][m]
        BY <1>16, <3>0, <3>6
      <4>2. t.kid[q][m] \in Cells /\ t.kid[q][m] \notin {p, w, outer}
        BY <1>4, <1>7, <3>6
      <4>3. b[m] = b[t.kid[q][m]] + Weight(t, t.kid[q][m])
        BY <1>2, <3>6
      <4> QED BY <1>19, <1>21, <3>0, <3>6, <4>1, <4>2, <4>3
    <3> QED BY <1>1, <3>1, <3>2, <3>3, <3>4, <3>5, <3>6
  <2>2. c[Sentinel] = 0
    BY <1>1, <1>2, <1>3, <1>19, CellFacts
  <2> QED BY <1>14, <1>15, <1>19, <2>1, <2>2, EvenWhole
<1>23. Root(u) \notin u.red
  <2>1. Root(u) = IF d = Sentinel /\ sd = "left" THEN w ELSE Root(t)
    BY <1>1, <1>3, <1>16, CellFacts DEF Root
  <2>2. CASE d = Sentinel /\ sd = "left"
    <3>1. Root(t) = p
      BY <1>1, <2>2 DEF Root
    <3> QED BY <1>3, <1>11, <1>14, <2>1, <2>2, <3>1
  <2>3. CASE ~(d = Sentinel /\ sd = "left")
    <3>1. Root(t) # w
      <4>1. t.parent[w] = p /\ (Root(t) # Sentinel => t.parent[Root(t)] = Sentinel)
        BY <1>1, CellFacts DEF Shape, LeftOf, Root
      <4> QED BY <1>1, <1>3, <4>1
    <3> QED BY <1>3, <1>11, <1>14, <2>1, <2>3, <3>1
  <2> QED BY <2>2, <2>3
<1>24. NoRedRed(u)
  <2> SUFFICES ASSUME NEW m \in S, NEW q \in Sides, u.kid[q][m] \in S PROVE FALSE
    BY <1>14 DEF NoRedRed
  <2>0. m \in InTree(t) /\ m \in Cells /\ m # p
    BY <1>1, <1>11
  <2>1. CASE m = w
    <3>1. u.kid[q][m] \in {p, outer}
      BY <1>1, <1>5, <1>16, <2>0, <2>1
    <3> QED BY <1>11, <3>1
  <2>2. CASE m # w /\ m = d /\ q = sd
    <3>1. u.kid[q][m] = w
      BY <1>1, <1>16, <2>0, <2>2
    <3>2. p \in t.red
      BY <1>11, <3>1
    <3>3. m \in t.red
      BY <1>6, <1>11, <2>0, <2>2
    <3> QED BY <1>1, <1>3, <2>2, <3>2, <3>3
  <2>3. CASE m # w /\ ~(m = d /\ q = sd)
    <3>1. u.kid[q][m] = t.kid[q][m]
      BY <1>16, <2>0, <2>3
    <3>2. m \in t.red
      BY <1>11, <2>0, <2>3
    <3>3. t.kid[q][m] \notin {p, w, outer}
      BY <1>7, <2>0, <2>3
    <3>4. t.kid[q][m] \in t.red
      BY <1>11, <3>1, <3>3
    <3> QED BY <1>3, <3>2, <3>4
  <2> QED BY <2>1, <2>2, <2>3
<1>25. Whole(u, h, c)
  BY <1>17, <1>22, <1>23, <1>24 DEF Whole
<1> QED BY <1>14, <1>15, <1>25 DEF TurnedOrder

\* The rotation of a black node below which a red child comes up, after they
\* have exchanged colours.
LEMMA Exchange ==
  ASSUME NEW t, NEW g, Sound(t, g), NEW side \in Sides, NEW n \in InTree(t) \ t.red,
         NEW k \in t.red, t.kid[Other(side)][n] = k,
         NEW u, Rotate(Redden(Blacken(t, {k}), n), side, n) = u,
         NEW b, NEW c, NEW s, Even(t, b, c, s),
         ~(c = n /\ s = Other(side)), ~(c = k),
         c = Sentinel \/ c # t.parent[n] \/ s # SideOf(t, n)
  PROVE  \E h : /\ Sound(u, h) /\ Even(u, b, c, s) /\ h.at = g.at /\ h.size = g.size
                /\ TurnedOrder(g, h, side, n, k)
                /\ InTree(u) = InTree(t) /\ u.red = (t.red \ {k}) \cup {n}
                /\ Turned(t, u, side, n)
<1>1. t \in Trees /\ t.red \subseteq InTree(t) /\ Shape(t.kid, t.parent, g)
  BY DEF Sound
<1>2. PICK v : Redden(Blacken(t, {k}), n) = v
  OBVIOUS
<1>3. PICK S : (t.red \ {k}) \cup {n} = S
  BY Zenon
<1>4. S \in SUBSET InTree(t) /\ k \in InTree(t) /\ n \in Nodes /\ k # n
  BY <1>1, <1>3 DEF InTree
<1>5. Recoloured(t, v, S)
  <2>1. Recoloured(t, v, (t.red \ {k}) \cup {n})
    BY <1>1, <1>2, <1>4, Paint
  <2> QED BY <1>3, <2>1, Zenon
<1>6. Sound(v, g) /\ InTree(v) = InTree(t) /\ SideOf(v, n) = SideOf(t, n)
  BY <1>4, <1>5, RecolouredShape
<1>7. v \in Trees /\ v.kid = t.kid /\ v.parent = t.parent /\ v.red = S /\ Shape(v.kid, v.parent, g)
  BY <1>5, <1>6 DEF Recoloured, Sound
<1>8. k # Sentinel /\ n # Sentinel
  BY <1>1, <1>4, UpFacts
<1>9. /\ u \in Trees /\ u.red = S /\ Turned(v, u, side, n) /\ InTree(u) = InTree(t)
      /\ \E h : TurnedOrder(g, h, side, n, v.kid[Other(side)][n]) /\ Shape(u.kid, u.parent, h)
  <2>1. n \in InTree(v) /\ v.kid[Other(side)][n] # Sentinel
    BY <1>6, <1>7, <1>8
  <2>2. Rotate(v, side, n) = u
    BY <1>2
  <2> QED BY <1>6, <1>7, <2>1, <2>2, RotateOK
<1>10. PICK h : TurnedOrder(g, h, side, n, k) /\ Shape(u.kid, u.parent, h)
  BY <1>7, <1>9
<1>11. Turned(t, u, side, n)
  BY <1>6, <1>7, <1>9 DEF Turned
<1>12. Even(u, b, c, s)
  <2>1. n \in u.red /\ (k \in u.red <=> n \in t.red)
        /\ \A x \in Cells \ {n, k} : x \in u.red <=> x \in t.red
    BY <1>3, <1>4, <1>9
  <2>2. k = t.kid[Other(side)][n]
    OBVIOUS
  <2> QED BY <1>1, <1>8, <1>9, <1>11, <2>1, <2>2, RotateEven, Zenon
<1>13. Sound(u, h)
  BY <1>4, <1>9, <1>10 DEF Sound
<1>14. h.at = g.at /\ h.size = g.size
  BY <1>10 DEF TurnedOrder
<1> QED BY <1>3, <1>9, <1>10, <1>11, <1>12, <1>13, <1>14

\* With a red child on the near side only, NearOver brings it to the far one.
LEMMA NearOverOK ==
  ASSUME NEW t, NEW g, NEW b, NEW p, NEW s, NEW w, Middle(t, g, b, p, s, w),
         NEW near, t.kid[s][w] = near, near \in t.red, t.kid[Other(s)][w] \notin t.red,
         NEW u, NearOver(t, w, near, Other(s)) = u
  PROVE  \E h : /\ Middle(u, h, b, p, s, near) /\ h.at = g.at /\ h.size = g.size
                /\ InTree(u) = InTree(t)
                /\ u.kid[Other(s)][near] = w /\ w \in u.red
<1> DEFINE far   == Other(s)
           x     == t.kid[s][p]
           outer == t.kid[far][w]
           inner == t.kid[far][near]
           d     == t.parent[p]
           sd    == SideOf(t, p)
<1>1. /\ t \in Trees /\ Shape(t.kid, t.parent, g) /\ t.red \subseteq InTree(t)
      /\ far \in Sides /\ far # s /\ Other(far) = s
      /\ \A q \in Sides : q \in {s, far}
      /\ \A m \in InTree(t) : m # Sentinel /\ m \in Cells /\ m \in Nodes
      /\ Sentinel \notin t.red
      /\ p # w /\ t.parent[w] = p /\ d # p /\ d # w
      /\ d \in Cells
      /\ SideOf(t, w) = far /\ sd \in Sides
      /\ t.kid[sd][d] = p
  BY MiddleFacts
<1>2. /\ p \in InTree(t) /\ s \in Sides /\ w \in InTree(t) /\ t.kid[far][p] = w /\ w \notin t.red
      /\ x \notin t.red /\ Root(t) \notin t.red /\ Sound(t, g) /\ Even(t, b, p, s)
      /\ \A m \in t.red, q \in Sides : t.kid[q][m] \notin t.red
  BY DEF Middle, NoRedRed
<1>3. \A m \in InTree(t), q \in Sides :
        /\ t.kid[q][m] \in Cells
        /\ t.kid[q][m] # Sentinel =>
             /\ t.kid[q][m] \in InTree(t) /\ t.parent[t.kid[q][m]] = m
             /\ SideOf(t, t.kid[q][m]) = q
             /\ t.kid[q][m] # m /\ t.kid[q][m] # t.parent[m]
  BY <1>1, KidFacts
<1>4. t.kid[s][w] = near /\ near \in t.red /\ outer \notin t.red
  OBVIOUS
<1> HIDE DEF far, x, outer, inner, d, sd
<1>5. /\ near \in InTree(t) /\ near # p /\ near # w /\ t.parent[near] = w /\ SideOf(t, near) = s
  BY <1>1, <1>2, <1>3, <1>4
<1>6. \E h : /\ Sound(u, h) /\ Even(u, b, p, s) /\ h.at = g.at /\ h.size = g.size
             /\ TurnedOrder(g, h, far, w, near)
             /\ InTree(u) = InTree(t) /\ u.red = (t.red \ {near}) \cup {w}
             /\ Turned(t, u, far, w)
  <2>1. Rotate(Redden(Blacken(t, {near}), w), far, w) = u
    BY DEF NearOver, far
  <2>2. ~(p = w /\ s = Other(far)) /\ ~(p = near) /\ (p = Sentinel \/ p # t.parent[w] \/ s # SideOf(t, w))
    BY <1>1, <1>5
  <2>3. w \in InTree(t) \ t.red /\ t.kid[Other(far)][w] = near /\ near \in t.red /\ far \in Sides
    BY <1>1, <1>2, <1>4
  <2> QED BY <1>2, <2>1, <2>2, <2>3, Exchange
<1>7. PICK h : /\ Sound(u, h) /\ Even(u, b, p, s) /\ h.at = g.at /\ h.size = g.size
               /\ InTree(u) = InTree(t) /\ u.red = (t.red \ {near}) \cup {w}
  BY <1>6
<1>8. \A q \in Sides, m \in Cells :
           u.kid[q][m] = IF m = w /\ q = s THEN inner
                         ELSE IF m = near /\ q = far THEN w
                         ELSE IF m = p /\ q = far THEN near
                         ELSE t.kid[q][m]
  BY <1>1, <1>4, <1>6 DEF Turned, inner
<1>9. \A m \in InTree(t), q \in Sides :
        /\ t.kid[q][m] = w => m = p /\ q = far
        /\ t.kid[q][m] = near => m = w /\ q = s
  <2> SUFFICES ASSUME NEW m \in InTree(t), NEW q \in Sides
               PROVE  /\ t.kid[q][m] = w => m = p /\ q = far
                      /\ t.kid[q][m] = near => m = w /\ q = s
    OBVIOUS
  <2>1. w # Sentinel /\ near # Sentinel
    BY <1>1, <1>2, <1>5
  <2>2. t.kid[q][m] # Sentinel => t.parent[t.kid[q][m]] = m /\ SideOf(t, t.kid[q][m]) = q
    BY <1>3
  <2>3. ASSUME t.kid[q][m] = w PROVE m = p /\ q = far
    BY <1>1, <2>1, <2>2, <2>3
  <2>4. ASSUME t.kid[q][m] = near PROVE m = w /\ q = s
    BY <1>5, <2>1, <2>2, <2>4
  <2> QED BY <2>3, <2>4
<1>10. inner \in Cells /\ inner \notin t.red /\ inner # w
  <2>1. t.kid[far][near] = inner
    BY DEF inner
  <2> QED BY <1>1, <1>2, <1>3, <1>4, <1>5, <1>9, <2>1
<1>11. u.kid[far][p] = near /\ u.kid[far][near] = w /\ u.kid[s][p] = x
  BY <1>1, <1>2, <1>5, <1>8 DEF x
<1>12. x \notin u.red
  <2>1. x # w
    BY <1>1, <1>2, <1>9 DEF x
  <2> QED BY <1>2, <1>7, <2>1
<1>13. Root(u) \notin u.red
  <2>1. Root(u) = Root(t)
    BY <1>1, <1>2, <1>5, <1>8, CellFacts DEF Root
  <2>2. Root(t) # w
    <3>1. Root(t) # Sentinel => t.parent[Root(t)] = Sentinel
      BY <1>1, CellFacts DEF Shape, LeftOf, Root
    <3> QED BY <1>1, <1>2, <3>1
  <2> QED BY <1>2, <1>7, <2>1, <2>2
<1>14. NoRedRed(u)
  <2> SUFFICES ASSUME NEW m \in u.red, NEW q \in Sides, u.kid[q][m] \in u.red PROVE FALSE
    BY DEF NoRedRed
  <2>0. m \in InTree(t) /\ m \in Cells /\ m # near
    BY <1>1, <1>2, <1>5, <1>7
  <2>1. CASE m = w
    <3>1. u.kid[q][m] \in {inner, outer}
      BY <1>1, <1>5, <1>8, <2>0, <2>1 DEF outer
    <3>2. outer # w
      BY <1>1, <1>2, <1>9 DEF outer
    <3> QED BY <1>4, <1>7, <1>10, <3>1, <3>2
  <2>2. CASE m # w /\ m = p /\ q = far
    <3>1. u.kid[q][m] = near
      BY <1>5, <1>8, <2>0, <2>2
    <3> QED BY <1>5, <1>7, <3>1
  <2>3. CASE m # w /\ ~(m = p /\ q = far)
    <3>1. u.kid[q][m] = t.kid[q][m]
      BY <1>8, <2>0, <2>3
    <3>2. m \in t.red
      BY <1>7, <2>3
    <3>3. t.kid[q][m] # w
      BY <1>9, <2>0, <2>3
    <3> QED BY <1>2, <1>7, <3>1, <3>2, <3>3
  <2> QED BY <2>1, <2>2, <2>3
<1>15. near \notin u.red /\ w \in u.red
  BY <1>5, <1>7
<1>16. Middle(u, h, b, p, s, near)
  BY <1>2, <1>5, <1>7, <1>11, <1>12, <1>13, <1>14, <1>15 DEF Middle, far
<1> QED BY <1>7, <1>11, <1>15, <1>16 DEF far

\* One black is missing on side s of p, where x is; only x may be red below or
\* above another red node.
Short(t, g, b, x, p, s) ==
  /\ Sound(t, g) /\ Slot(t, p, s) /\ t.kid[s][p] = x /\ t.parent[x] = p
  /\ Even(t, b, p, s)
  /\ \A m \in t.red, q \in Sides : t.kid[q][m] \in t.red => x \in {m, t.kid[q][m]}
  /\ Root(t) \in t.red => Root(t) = x

\* A short node that is not the root has a sibling.
LEMMA ShortFacts ==
  ASSUME NEW t, NEW g, NEW b, NEW x, NEW p, NEW s, Short(t, g, b, x, p, s),
         x \notin t.red, Root(t) # x
  PROVE  /\ t \in Trees /\ Shape(t.kid, t.parent, g) /\ t.red \subseteq InTree(t)
         /\ p \in InTree(t) /\ s \in Sides /\ SideOf(t, x) = s /\ x # p /\ x \in Cells
         /\ Other(s) \in Sides /\ Other(s) # s
         /\ NoRedRed(t) /\ Root(t) \notin t.red
         /\ t.kid[Other(s)][p] # Sentinel
         /\ b \in [Cells -> Nat] /\ b[Sentinel] = 0 /\ b[p] = b[x] + 2
<1>1. /\ t \in Trees /\ Shape(t.kid, t.parent, g) /\ t.red \subseteq InTree(t)
      /\ s \in Sides /\ Even(t, b, p, s) /\ t.kid[s][p] = x /\ t.parent[x] = p
      /\ p \in InCells(t.parent) /\ (p = Sentinel => s = "left")
  BY DEF Short, Sound, Slot
<1>2. p \in InTree(t)
  <2>1. p # Sentinel
    BY <1>1 DEF Root
  <2> QED BY <1>1, <2>1, CellFacts DEF InTree, InNodes
<1>3. Other(s) \in Sides /\ Other(s) # s
  BY <1>1, Sides2
<1>4. x \in Cells /\ x # p
  BY <1>1, <1>2, KidFacts, UpFacts
<1>5. /\ b \in [Cells -> Nat] /\ b[Sentinel] = 0
      /\ b[p] = b[x] + Weight(t, x) + 1
      /\ b[p] = b[t.kid[Other(s)][p]] + Weight(t, t.kid[Other(s)][p])
  BY <1>1, <1>2, <1>3 DEF Even
<1>6. b[p] = b[x] + 2
  <2>1. Weight(t, x) = 1 /\ b[x] \in Nat
    BY <1>4, <1>5 DEF Weight
  <2> QED BY <1>5, <2>1
<1>7. t.kid[Other(s)][p] # Sentinel
  <2> SUFFICES ASSUME t.kid[Other(s)][p] = Sentinel PROVE FALSE
    OBVIOUS
  <2>1. Weight(t, Sentinel) \in {0, 1} /\ b[x] \in Nat
    BY <1>4, <1>5 DEF Weight
  <2>2. b[p] = 0 + Weight(t, Sentinel)
    BY <1>5
  <2> QED BY <1>6, <2>1, <2>2
<1>8. SideOf(t, x) = s
  <2>1. CASE x = Sentinel
    <3>1. t.kid[Other(s)][p] # x
      BY <1>7, <2>1
    <3> QED BY <1>1, <3>1, CellFacts DEF SideOf, Other
  <2>2. CASE x # Sentinel
    BY <1>1, <1>2, <2>2, KidFacts
  <2> QED BY <2>1, <2>2
<1>9. NoRedRed(t)
  BY <1>1 DEF NoRedRed, Short
<1>10. Root(t) \notin t.red
  BY DEF Short
<1> QED BY <1>1, <1>2, <1>3, <1>4, <1>5, <1>6, <1>7, <1>8, <1>9, <1>10

\* The width of a subtree, 0 for a leaf.
Span(g, x) == IF x = Sentinel THEN 0 ELSE g.hi[x] - g.lo[x] + 1

\* A red sibling comes up first.
LEMMA RedSibOK ==
  ASSUME NEW t, NEW g, NEW b, NEW x, NEW p, NEW s, Short(t, g, b, x, p, s),
         x \notin t.red, Root(t) # x,
         NEW w, t.kid[Other(s)][p] = w, w \in t.red,
         NEW u, Rotate(Redden(Blacken(t, {w}), p), s, p) = u
  PROVE  \E h, k : /\ Middle(u, h, b, p, s, k) /\ h.at = g.at /\ h.size = g.size
                   /\ InTree(u) = InTree(t) /\ u.kid[s][p] = x /\ u.parent[x] = p
                   /\ Span(h, x) = Span(g, x)
<1> DEFINE far   == Other(s)
           inner == t.kid[s][w]
           d     == t.parent[p]
           sd    == SideOf(t, p)
<1>1. /\ t \in Trees /\ Shape(t.kid, t.parent, g) /\ t.red \subseteq InTree(t) /\ Sound(t, g)
      /\ p \in InTree(t) /\ s \in Sides /\ x # p /\ x \in Cells
      /\ far \in Sides /\ far # s
      /\ \A m \in t.red, q \in Sides : t.kid[q][m] \notin t.red
      /\ Root(t) \notin t.red
      /\ b \in [Cells -> Nat] /\ b[Sentinel] = 0 /\ b[p] = b[x] + 2
  BY ShortFacts DEF NoRedRed, Short
<1>2. /\ \A q \in Sides : q \in {s, far}
      /\ Other(far) = s
  BY <1>1, Sides2, CellFacts DEF Other
<1>3. \A m \in InTree(t), q \in Sides :
        /\ t.kid[q][m] \in Cells
        /\ t.kid[q][m] # Sentinel =>
             /\ t.kid[q][m] \in InTree(t) /\ t.parent[t.kid[q][m]] = m
             /\ SideOf(t, t.kid[q][m]) = q
             /\ t.kid[q][m] # m /\ t.kid[q][m] # t.parent[m]
  BY <1>1, KidFacts, Zenon
<1>4. \A m \in InTree(t) : m # Sentinel /\ m \in Cells /\ m \in Nodes
  BY <1>1, UpFacts, Zenon
<1>5. /\ d # p /\ d \in Cells /\ sd \in Sides /\ t.kid[sd][d] = p
      /\ d = Sentinel => sd = "left"
  BY <1>1, UpFacts, Zenon
<1>6. t.kid[far][p] = w /\ w \in t.red /\ t.kid[s][p] = x /\ t.parent[x] = p /\ Even(t, b, p, s)
  BY DEF Short
<1> HIDE DEF far, inner, d, sd
<1>7. w \in InTree(t) /\ w # p /\ w # d /\ t.parent[w] = p /\ SideOf(t, w) = far
  BY <1>1, <1>3, <1>4, <1>6 DEF d
<1>8. p \notin t.red
  BY <1>1, <1>6
<1>9. \E h : /\ Sound(u, h) /\ Even(u, b, p, s) /\ h.at = g.at /\ h.size = g.size
             /\ TurnedOrder(g, h, s, p, w)
             /\ InTree(u) = InTree(t) /\ u.red = (t.red \ {w}) \cup {p}
             /\ Turned(t, u, s, p)
  <2>1. ~(p = p /\ s = Other(s)) /\ ~(p = w) /\ (p = Sentinel \/ p # t.parent[p] \/ s # SideOf(t, p))
    BY <1>1, <1>5, <1>7 DEF far, d
  <2>2. p \in InTree(t) \ t.red /\ t.kid[Other(s)][p] = w
    BY <1>1, <1>6, <1>8 DEF far
  <2> QED BY <1>1, <1>6, <2>1, <2>2, Exchange
<1>10. PICK h : /\ Sound(u, h) /\ Even(u, b, p, s) /\ h.at = g.at /\ h.size = g.size
                /\ TurnedOrder(g, h, s, p, w)
                /\ InTree(u) = InTree(t) /\ u.red = (t.red \ {w}) \cup {p}
                /\ Turned(t, u, s, p)
  BY <1>9
<1>11. /\ \A q \in Sides, m \in Cells :
           u.kid[q][m] = IF m = p /\ q = far THEN inner
                         ELSE IF m = w /\ q = s THEN p
                         ELSE IF m = d /\ q = sd THEN w
                         ELSE t.kid[q][m]
       /\ \A m \in Cells : u.parent[m] = IF m = p THEN w ELSE IF m = w THEN d
                                         ELSE IF m = inner THEN p ELSE t.parent[m]
  BY <1>6, <1>10 DEF Turned, inner, far, d, sd
<1>12. x # w
  <2>1. x = w => x # Sentinel
    BY <1>4, <1>7
  <2> QED BY <1>1, <1>3, <1>6, <1>7, <2>1
<1>13. u.kid[s][p] = x /\ u.parent[x] = p /\ u.kid[far][p] = inner
  BY <1>1, <1>4, <1>5, <1>6, <1>7, <1>11, <1>12
<1>14. inner \in Cells /\ inner \notin t.red /\ inner # p
  <2>1. t.kid[s][w] = inner
    BY DEF inner
  <2>2. inner # Sentinel => inner # t.parent[w]
    BY <1>1, <1>3, <1>7, <2>1
  <2>3. p # Sentinel
    BY <1>1, <1>4
  <2> QED BY <1>1, <1>3, <1>6, <1>7, <2>1, <2>2, <2>3
<1>15. inner \in InTree(t)
  <2>1. inner # Sentinel
    <3> SUFFICES ASSUME inner = Sentinel PROVE FALSE
      OBVIOUS
    <3>1. b[p] = b[Sentinel] + Weight(u, Sentinel)
      BY <1>1, <1>10, <1>13 DEF Even
    <3>2. Weight(u, Sentinel) \in {0, 1} /\ b[x] \in Nat
      BY <1>1 DEF Weight
    <3> QED BY <1>1, <3>1, <3>2
  <2> QED BY <1>1, <1>3, <1>7, <2>1 DEF inner
<1>16. inner \notin u.red /\ x \notin u.red
  BY <1>1, <1>10, <1>14
<1>17. \A m \in InTree(t), q \in Sides : t.kid[q][m] = p => m = d /\ q = sd
  <2>1. p # Sentinel
    BY <1>1, <1>4
  <2> QED BY <1>3, <2>1 DEF d, sd
<1>18. NoRedRed(u)
  <2> SUFFICES ASSUME NEW m \in u.red, NEW q \in Sides, u.kid[q][m] \in u.red PROVE FALSE
    BY DEF NoRedRed
  <2>0. m \in InTree(t) /\ m \in Cells /\ m # w
    BY <1>1, <1>4, <1>7, <1>10
  <2>1. CASE m = p
    BY <1>2, <1>13, <1>16, <2>1
  <2>2. CASE m # p /\ m = d /\ q = sd
    <3>1. u.kid[q][m] = w
      BY <1>11, <2>0, <2>2
    <3> QED BY <1>7, <1>10, <3>1
  <2>3. CASE m # p /\ ~(m = d /\ q = sd)
    <3>1. u.kid[q][m] = t.kid[q][m]
      BY <1>11, <2>0, <2>3
    <3>2. m \in t.red
      BY <1>10, <2>3
    <3>3. t.kid[q][m] # p
      BY <1>17, <2>0, <2>3
    <3> QED BY <1>1, <1>10, <3>1, <3>2, <3>3
  <2> QED BY <2>1, <2>2, <2>3
<1>19. Root(u) \notin u.red
  <2>1. Root(u) = IF d = Sentinel /\ sd = "left" THEN w ELSE Root(t)
    BY <1>1, <1>4, <1>7, <1>11, CellFacts DEF Root
  <2>2. CASE d = Sentinel /\ sd = "left"
    BY <1>7, <1>10, <2>1, <2>2
  <2>3. CASE ~(d = Sentinel /\ sd = "left")
    <3>1. Root(t) # p
      <4>1. Root(t) # Sentinel => t.parent[Root(t)] = Sentinel
        BY <1>1, CellFacts DEF Shape, LeftOf, Root
      <4> QED BY <1>1, <1>4, <1>5, <2>3, <4>1 DEF d
    <3> QED BY <1>1, <1>10, <2>1, <2>3, <3>1
  <2> QED BY <2>2, <2>3
<1>20. Span(h, x) = Span(g, x)
  <2>1. h.lo[x] = g.lo[x] /\ h.hi[x] = g.hi[x]
    BY <1>1, <1>10, <1>12 DEF TurnedOrder
  <2> QED BY <2>1 DEF Span
<1>21. Middle(u, h, b, p, s, inner)
  <2>1. inner \in InTree(u) /\ p \in InTree(u) /\ u.kid[Other(s)][p] = inner
        /\ u.kid[s][p] \notin u.red
    BY <1>1, <1>10, <1>13, <1>15, <1>16 DEF far
  <2> QED BY <1>1, <1>10, <1>16, <1>18, <1>19, <2>1 DEF Middle
<1> QED BY <1>10, <1>13, <1>20, <1>21

\* The sibling turns red, and what is missing is missing one level up.
LEMMA PaleOK ==
  ASSUME NEW t, NEW g, NEW b, NEW p, NEW s, NEW w, Middle(t, g, b, p, s, w),
         t.kid[s][w] \notin t.red, t.kid[Other(s)][w] \notin t.red,
         NEW u, Redden(t, w) = u
  PROVE  \E c : Short(u, g, c, p, t.parent[p], SideOf(t, p)) /\ InTree(u) = InTree(t)
<1> DEFINE far   == Other(s)
           x     == t.kid[s][p]
           d     == t.parent[p]
           sd    == SideOf(t, p)
<1>1. /\ t \in Trees /\ Shape(t.kid, t.parent, g) /\ t.red \subseteq InTree(t)
      /\ far \in Sides /\ far # s
      /\ \A q \in Sides : q \in {s, far}
      /\ \A m \in InTree(t) : m # Sentinel /\ m \in Cells /\ m \in Nodes
      /\ p # w /\ t.parent[w] = p /\ d # p /\ d # w
      /\ d \in Cells /\ SideOf(t, w) = far /\ sd \in Sides
      /\ t.kid[sd][d] = p
  BY MiddleFacts
<1>2. /\ b \in [Cells -> Nat] /\ b[Sentinel] = 0
      /\ b[p] = b[x] + 2 /\ b[p] = b[w] + 1
      /\ \A m \in InTree(t), q \in Sides :
           ~(m = p /\ q = s) => b[m] = b[t.kid[q][m]] + Weight(t, t.kid[q][m])
  BY MiddleFacts
<1>3. /\ p \in InTree(t) /\ s \in Sides /\ w \in InTree(t) /\ t.kid[far][p] = w
      /\ x \notin t.red /\ Root(t) \notin t.red /\ Sound(t, g)
      /\ \A m \in t.red, q \in Sides : t.kid[q][m] \notin t.red
  BY DEF Middle, NoRedRed
<1>4. \A m \in InTree(t), q \in Sides :
        /\ t.kid[q][m] \in Cells
        /\ t.kid[q][m] # Sentinel =>
             /\ t.kid[q][m] \in InTree(t) /\ t.parent[t.kid[q][m]] = m
             /\ SideOf(t, t.kid[q][m]) = q
             /\ t.kid[q][m] # m /\ t.kid[q][m] # t.parent[m]
  BY <1>1, KidFacts
<1>5. /\ d \in InCells(t.parent) /\ (d = Sentinel => sd = "left")
  BY <1>1, <1>3, UpFacts
<1>6. t.kid[s][w] \notin t.red /\ t.kid[far][w] \notin t.red
  OBVIOUS
<1> HIDE DEF far, x, d, sd
<1>7. PICK S : t.red \cup {w} = S
  BY Zenon
<1>8. Recoloured(t, u, S) /\ S \in SUBSET InTree(t)
  BY <1>1, <1>3, <1>7, Paint, Zenon
<1>9. Sound(u, g) /\ InTree(u) = InTree(t) /\ Root(u) = Root(t)
      /\ u.kid = t.kid /\ u.parent = t.parent /\ u.red = S
  BY <1>3, <1>8, RecolouredShape DEF Recoloured
<1>10. \A m \in InTree(t), q \in Sides :
        /\ t.kid[q][m] = w => m = p /\ q = far
        /\ t.kid[q][m] = p => m = d /\ q = sd
  BY <1>1, <1>3, <1>4 DEF d, sd
<1>11. PICK H \in Nat : b[p] = H + 1
  BY <1>1, <1>2, <1>3
<1> DEFINE c == [b EXCEPT ![p] = H]
<1>12. c \in [Cells -> Nat] /\ c[p] = H /\ \A m \in Cells : m # p => c[m] = b[m]
  BY <1>1, <1>2, <1>3
<1> HIDE DEF c
<1>13. /\ Weight(u, w) = 0 /\ \A m : m # w => Weight(u, m) = Weight(t, m)
  BY <1>7, <1>9 DEF Weight
<1>14. ASSUME NEW m \in InTree(t), NEW q \in Sides
       PROVE  IF m = d /\ q = sd THEN c[m] = c[t.kid[q][m]] + Weight(u, t.kid[q][m]) + 1
                                 ELSE c[m] = c[t.kid[q][m]] + Weight(u, t.kid[q][m])
  <2>0. m \in Cells
    BY <1>1
  <2>1. CASE m = p /\ q = s
    <3>1. t.kid[q][m] = x /\ x # w /\ x # p /\ x \in Cells /\ Weight(t, x) = 1
      <4>1. t.kid[s][p] = x
        BY DEF x
      <4>2. x # p /\ x \in Cells
        BY <1>1, <1>3, <1>4, <4>1
      <4>3. x # w
        BY <1>1, <1>3, <1>10, <4>1
      <4> QED BY <1>3, <2>1, <4>1, <4>2, <4>3 DEF Weight
    <3>2. b[x] \in Nat
      BY <1>2, <3>1
    <3> QED BY <1>1, <1>2, <1>11, <1>12, <1>13, <2>1, <3>1, <3>2
  <2>2. CASE m = p /\ q = far
    <3>1. w \in Cells /\ b[w] \in Nat
      BY <1>1, <1>2, <1>3
    <3> QED BY <1>1, <1>2, <1>3, <1>11, <1>12, <1>13, <2>2, <3>1
  <2>3. CASE m # p /\ m = d /\ q = sd
    <3>1. b[d] = b[p] + Weight(t, p) /\ t.kid[q][m] = p
      BY <1>1, <1>2, <2>3
    <3>2. Weight(t, p) \in {0, 1}
      BY DEF Weight
    <3> QED BY <1>1, <1>11, <1>12, <1>13, <2>3, <3>1, <3>2
  <2>4. CASE m # p /\ ~(m = d /\ q = sd)
    <3>1. t.kid[q][m] \in Cells /\ t.kid[q][m] # w /\ t.kid[q][m] # p
      BY <1>4, <1>10, <2>4
    <3> QED BY <1>2, <1>12, <1>13, <2>0, <2>4, <3>1
  <2> QED BY <1>1, <2>1, <2>2, <2>3, <2>4
<1>15. Even(u, c, d, sd)
  <2>1. c[Sentinel] = 0
    BY <1>1, <1>2, <1>3, <1>12, CellFacts
  <2> QED BY <1>9, <1>12, <1>14, <2>1 DEF Even
<1>16. \A m \in u.red, q \in Sides : u.kid[q][m] \in u.red => p \in {m, u.kid[q][m]}
  <2> SUFFICES ASSUME NEW m \in S, NEW q \in Sides, t.kid[q][m] \in S PROVE p = m
    BY <1>9
  <2>1. m \in InTree(t)
    BY <1>8
  <2>2. CASE m = w
    <3>1. t.kid[q][m] \notin t.red
      BY <1>1, <1>6, <2>2
    <3>2. t.kid[q][m] # w
      BY <1>1, <1>10, <2>1, <2>2
    <3> QED BY <1>7, <3>1, <3>2
  <2>3. CASE m # w
    <3>1. t.kid[q][m] \notin t.red
      BY <1>3, <1>7, <2>3
    <3>2. t.kid[q][m] = w
      BY <1>7, <3>1
    <3> QED BY <1>10, <2>1, <3>2
  <2> QED BY <2>2, <2>3
<1>17. Root(u) \notin u.red
  <2>1. Root(t) # w
    <3>1. Root(t) # Sentinel => t.parent[Root(t)] = Sentinel
      BY <1>1, CellFacts DEF Shape, LeftOf, Root
    <3> QED BY <1>1, <1>3, <3>1
  <2> QED BY <1>3, <1>7, <1>9, <2>1
<1>18. Slot(u, d, sd) /\ u.kid[sd][d] = p /\ u.parent[p] = d
  BY <1>1, <1>5, <1>9 DEF Slot, d
<1>19. Short(u, g, c, p, d, sd)
  BY <1>9, <1>15, <1>16, <1>17, <1>18 DEF Short
<1> QED BY <1>9, <1>19 DEF d, sd

\* Where a pass stands on its way up.
Moved(r, g, T, old) ==
  \/ /\ r.at = Null
     /\ \E h, c : Whole(r.tree, h, c) /\ h.at = g.at /\ h.size = g.size
     /\ InTree(r.tree) = T
  \/ /\ \E h, c, d, sd : /\ Short(r.tree, h, c, r.at, d, sd)
                         /\ h.at = g.at /\ h.size = g.size /\ Span(h, r.at) > old
     /\ InTree(r.tree) = T

\* What follows once the sibling is black.
LEMMA MiddleMoves ==
  ASSUME NEW t, NEW g, NEW b, NEW p, NEW s, NEW w, Middle(t, g, b, p, s, w),
         NEW x, t.kid[s][p] = x, x # Sentinel => t.parent[x] = p,
         NEW near, t.kid[s][w] = near, NEW outer, t.kid[Other(s)][w] = outer,
         NEW r,
         \/ outer \in t.red /\ r = [tree |-> Settle(t, p, s), at |-> Null]
         \/ /\ outer \notin t.red /\ near \in t.red
            /\ r = [tree |-> Settle(NearOver(t, w, near, Other(s)), p, s), at |-> Null]
         \/ /\ outer \notin t.red /\ near \notin t.red
            /\ r = [tree |-> Redden(t, w), at |-> p]
  PROVE  Moved(r, g, InTree(t), Span(g, x)) /\ r = [tree |-> r.tree, at |-> r.at]
<1>1. CASE outer \in t.red /\ r = [tree |-> Settle(t, p, s), at |-> Null]
  <2>1. PICK u : Settle(t, p, s) = u
    OBVIOUS
  <2>2. \E h, c : Whole(u, h, c) /\ h.at = g.at /\ h.size = g.size /\ InTree(u) = InTree(t)
    BY <1>1, <2>1, SettleOK
  <2>3. r.tree = u /\ r.at = Null /\ r = [tree |-> r.tree, at |-> r.at]
    BY <1>1, <2>1
  <2> QED BY <2>2, <2>3 DEF Moved
<1>2. CASE /\ outer \notin t.red /\ near \in t.red
           /\ r = [tree |-> Settle(NearOver(t, w, near, Other(s)), p, s), at |-> Null]
  <2>1. PICK v : NearOver(t, w, near, Other(s)) = v
    OBVIOUS
  <2>2. PICK h : /\ Middle(v, h, b, p, s, near) /\ h.at = g.at /\ h.size = g.size
                 /\ InTree(v) = InTree(t)
                 /\ v.kid[Other(s)][near] = w /\ w \in v.red
    BY <1>2, <2>1, NearOverOK
  <2>3. PICK u : Settle(v, p, s) = u
    OBVIOUS
  <2>4. \E k, c : Whole(u, k, c) /\ k.at = h.at /\ k.size = h.size /\ InTree(u) = InTree(v)
    BY <2>2, <2>3, SettleOK
  <2>5. r.tree = u /\ r.at = Null /\ r = [tree |-> r.tree, at |-> r.at]
    BY <1>2, <2>1, <2>3
  <2> QED BY <2>2, <2>4, <2>5 DEF Moved
<1>3. CASE outer \notin t.red /\ near \notin t.red /\ r = [tree |-> Redden(t, w), at |-> p]
  <2>1. PICK u : Redden(t, w) = u
    OBVIOUS
  <2>2. \E c : Short(u, g, c, p, t.parent[p], SideOf(t, p)) /\ InTree(u) = InTree(t)
    BY <1>3, <2>1, PaleOK
  <2>3. r.tree = u /\ r.at = p /\ r = [tree |-> r.tree, at |-> r.at]
    BY <1>3, <2>1
  <2>4. Span(g, p) > Span(g, x)
    <3>1. /\ t \in Trees /\ Shape(t.kid, t.parent, g) /\ p \in InTree(t) /\ p # Sentinel /\ s \in Sides
          /\ Sound(t, g)
      BY MiddleFacts DEF Middle
    <3>2. g.hi[p] - g.lo[p] \in 0 .. Cardinality(Nodes) - 1 /\ Cardinality(Nodes) \in Nat
      BY <3>1, SizeBound
    <3>3. CASE x = Sentinel
      BY <3>1, <3>2, <3>3 DEF Span
    <3>4. CASE x # Sentinel
      <4>1. x \in InTree(t) /\ t.parent[x] = p
        BY <3>1, <3>4, KidFacts
      <4>2. x \in InNodes(t.parent)
        BY <4>1 DEF InTree, InNodes
      <4>3. g.lo[x] \in Int /\ g.hi[x] \in Int /\ g.lo[p] \in Int /\ g.hi[p] \in Int
            /\ g.hi[x] - g.lo[x] < g.hi[p] - g.lo[p]
        BY <3>1, <4>1, <4>2, Nested
      <4> QED BY <3>1, <3>4, <4>3 DEF Span
    <3> QED BY <3>3, <3>4
  <2> QED BY <2>2, <2>3, <2>4 DEF Moved
<1> QED BY <1>1, <1>2, <1>3

\* One pass of js_rbtree_delete_fixup repairs the tree or moves the short slot
\* to a node with a wider span.
LEMMA DeletePassOK ==
  ASSUME NEW t, NEW g, NEW b, NEW x, NEW p, NEW s, Short(t, g, b, x, p, s),
         x \notin t.red, Root(t) # x, NEW r, DeletePass(t, x) = r
  PROVE  Moved(r, g, InTree(t), Span(g, x)) /\ r = [tree |-> r.tree, at |-> r.at]
<1>1. /\ t \in Trees /\ Shape(t.kid, t.parent, g) /\ t.red \subseteq InTree(t)
      /\ p \in InTree(t) /\ s \in Sides /\ SideOf(t, x) = s /\ x # p /\ x \in Cells
      /\ Other(s) \in Sides /\ Other(s) # s
      /\ NoRedRed(t) /\ Root(t) \notin t.red
      /\ t.kid[Other(s)][p] # Sentinel
      /\ b \in [Cells -> Nat] /\ b[Sentinel] = 0 /\ b[p] = b[x] + 2
  BY ShortFacts
<1>2. t.parent[x] = p /\ t.kid[s][p] = x /\ Sound(t, g) /\ Even(t, b, p, s)
  BY DEF Short
<1>3. x # Null
  BY <1>1, CellFacts
<1>4. PICK k : t.kid[Other(s)][p] = k
  OBVIOUS
<1>5. PICK u, h, w : /\ u = IF k \in t.red THEN Rotate(Redden(Blacken(t, {k}), p), s, p) ELSE t
                     /\ Middle(u, h, b, p, s, w) /\ h.at = g.at /\ h.size = g.size
                     /\ InTree(u) = InTree(t) /\ u.kid[s][p] = x /\ u.parent[x] = p
                     /\ Span(h, x) = Span(g, x)
  <2>1. CASE k \in t.red
    <3>1. PICK u : Rotate(Redden(Blacken(t, {k}), p), s, p) = u
      OBVIOUS
    <3>2. \E h, w : /\ Middle(u, h, b, p, s, w) /\ h.at = g.at /\ h.size = g.size
                    /\ InTree(u) = InTree(t) /\ u.kid[s][p] = x /\ u.parent[x] = p
                    /\ Span(h, x) = Span(g, x)
      BY <1>4, <2>1, <3>1, RedSibOK
    <3> QED BY <2>1, <3>1, <3>2
  <2>2. CASE k \notin t.red
    <3>1. k \in InTree(t)
      BY <1>1, <1>4, KidFacts
    <3>2. Middle(t, g, b, p, s, k)
      BY <1>1, <1>2, <1>4, <2>2, <3>1 DEF Middle
    <3> QED BY <1>2, <2>2, <3>2
  <2> QED BY <2>1, <2>2
<1>6. u.kid[Other(s)][p] = w
  BY <1>5 DEF Middle
<1>7. PICK near : u.kid[s][w] = near
  OBVIOUS
<1>8. PICK outer : u.kid[Other(s)][w] = outer
  OBVIOUS
<1>9. \/ outer \in u.red /\ r = [tree |-> Settle(u, p, s), at |-> Null]
      \/ /\ outer \notin u.red /\ near \in u.red
         /\ r = [tree |-> Settle(NearOver(u, w, near, Other(s)), p, s), at |-> Null]
      \/ /\ outer \notin u.red /\ near \notin u.red
         /\ r = [tree |-> Redden(u, w), at |-> p]
  <2>1. x \notin t.red \cup {Root(t), Null}
    BY SMTT(30), <1>3
  <2>2. r = CASE x \in t.red \cup {Root(t), Null} -> [tree |-> t, at |-> x]
              [] x \notin t.red \cup {Root(t), Null} /\ outer \in u.red ->
                   [tree |-> Settle(u, p, s), at |-> Null]
              [] x \notin t.red \cup {Root(t), Null} /\ ~(outer \in u.red) /\ near \in u.red ->
                   [tree |-> Settle(NearOver(u, w, near, Other(s)), p, s), at |-> Null]
              [] OTHER -> [tree |-> Redden(u, w), at |-> p]
    BY <1>1, <1>2, <1>4, <1>5, <1>6, <1>7, <1>8 DEF DeletePass
  <2> QED BY <2>1, <2>2
<1>10. Moved(r, h, InTree(u), Span(h, x)) /\ r = [tree |-> r.tree, at |-> r.at]
  <2>1. Middle(u, h, b, p, s, w) /\ u.kid[s][p] = x /\ (x # Sentinel => u.parent[x] = p)
    BY <1>5
  <2> QED BY <1>7, <1>8, <1>9, <2>1, MiddleMoves
<1> QED BY <1>5, <1>10 DEF Moved

\* What ends the repair makes the node it stopped at black.
LEMMA ShortEnds ==
  ASSUME NEW t, NEW g, NEW b, NEW x, NEW p, NEW s, Short(t, g, b, x, p, s),
         x \in t.red \/ Root(t) = x, NEW u, Blacken(t, {x}) = u
  PROVE  Whole(u, g, b) /\ InTree(u) = InTree(t)
<1>1. /\ t \in Trees /\ Shape(t.kid, t.parent, g) /\ t.red \subseteq InTree(t) /\ Sound(t, g)
      /\ s \in Sides /\ Even(t, b, p, s) /\ t.kid[s][p] = x /\ t.parent[x] = p
      /\ p \in InCells(t.parent)
  BY DEF Short, Sound, Slot
<1>2. PICK S : t.red \ {x} = S
  BY Zenon
<1>3. Recoloured(t, u, S) /\ S \in SUBSET InTree(t)
  <2>1. t.red \ {x} \in SUBSET Nodes
    BY <1>1 DEF Trees
  <2>2. u = [t EXCEPT !.red = S]
    BY <1>2 DEF Blacken
  <2>3. Recoloured(t, u, S)
    BY <1>1, <1>2, <2>1, <2>2 DEF Recoloured, Trees
  <2> QED BY <1>1, <1>2, <2>3
<1>4. /\ Sound(u, g) /\ InTree(u) = InTree(t) /\ Root(u) = Root(t)
      /\ u.kid = t.kid /\ u.red = S
  BY <1>1, <1>3, RecolouredShape DEF Recoloured
<1>5. \A m \in InTree(t) : m # Sentinel /\ m \in Cells
  BY <1>1, UpFacts
<1>6. ASSUME NEW m \in InTree(t), NEW q \in Sides
      PROVE  b[m] = b[t.kid[q][m]] + Weight(u, t.kid[q][m])
  <2>0. IF m = p /\ q = s THEN b[m] = b[t.kid[q][m]] + Weight(t, t.kid[q][m]) + 1
                          ELSE b[m] = b[t.kid[q][m]] + Weight(t, t.kid[q][m])
    BY <1>1 DEF Even
  <2>1. CASE m = p /\ q = s
    <3>1. b[m] = b[x] + Weight(t, x) + 1 /\ t.kid[q][m] = x
      BY <1>1, <2>0, <2>1
    <3>2. x \in t.red
      <4> SUFFICES ASSUME Root(t) = x PROVE FALSE
        OBVIOUS
      <4>1. CASE x = Sentinel
        <5>1. g.lo[Sentinel] = g.pos[Sentinel]
          BY <1>1, <4>1, CellFacts DEF Shape, LeftOf, Root
        <5>2. g.size = 1
          BY <1>1, <5>1 DEF Shape, Numbered
        <5>3. m \in InCells(t.parent) /\ m # Sentinel /\ m \in Cells
          BY <1>5 DEF InCells, InNodes, InTree
        <5>4. 1 <= g.lo[m] /\ g.lo[m] <= g.pos[m] /\ g.pos[m] <= g.hi[m] /\ g.hi[m] < g.size
              /\ g.lo[m] \in Int /\ g.pos[m] \in Int /\ g.hi[m] \in Int
          BY <1>1, <5>3 DEF Shape, Numbered, Orders
        <5> QED BY <5>2, <5>4
      <4>2. CASE x # Sentinel
        <5>1. t.parent[x] = Sentinel
          BY <1>1, <4>2, CellFacts DEF Shape, LeftOf, Root
        <5> QED BY <1>1, <1>5, <2>1, <5>1
      <4> QED BY <4>1, <4>2
    <3>3. Weight(t, x) = 0 /\ Weight(u, x) = 1
      BY <1>2, <1>4, <3>2 DEF Weight
    <3>4. x \in Cells /\ b[x] \in Nat
      BY <1>1, <1>5, <3>2 DEF Even
    <3> QED BY <3>1, <3>3, <3>4
  <2>2. CASE ~(m = p /\ q = s)
    <3>1. t.kid[q][m] = x => x \notin t.red
      <4> SUFFICES ASSUME t.kid[q][m] = x, x \in t.red PROVE FALSE
        OBVIOUS
      <4>1. x \in InTree(t) /\ x # Sentinel
        BY <1>1, <1>5
      <4>2. t.parent[x] = m /\ SideOf(t, x) = q
        BY <1>1, <4>1, KidFacts
      <4>3. m = p
        BY <1>1, <4>2
      <4>4. SideOf(t, x) = s
        BY <1>1, <4>1, <4>3, KidFacts
      <4> QED BY <2>2, <4>2, <4>3, <4>4
    <3>2. Weight(u, t.kid[q][m]) = Weight(t, t.kid[q][m])
      BY <1>2, <1>4, <3>1 DEF Weight
    <3> QED BY <2>0, <2>2, <3>2
  <2> QED BY <2>1, <2>2
<1>7. Even(u, b, Sentinel, "left")
  <2>1. b \in [Cells -> Nat] /\ b[Sentinel] = 0
    BY <1>1 DEF Even
  <2>2. u \in Trees /\ Shape(u.kid, u.parent, g)
    BY <1>4 DEF Sound
  <2>3. \A m \in InTree(u), q \in Sides : b[m] = b[u.kid[q][m]] + Weight(u, u.kid[q][m])
    BY <1>4, <1>6
  <2> QED BY <2>1, <2>2, <2>3, EvenWhole, Zenon
<1>8. NoRedRed(u)
  <2>1. \A m \in t.red, q \in Sides : t.kid[q][m] \in t.red => x \in {m, t.kid[q][m]}
    BY DEF Short
  <2> QED BY <1>2, <1>4, <2>1 DEF NoRedRed
<1>9. Root(u) \notin u.red
  <2>1. Root(t) \in t.red => Root(t) = x
    BY DEF Short
  <2> QED BY <1>2, <1>4, <2>1
<1> QED BY <1>4, <1>7, <1>8, <1>9 DEF Whole

\* No place is wider than all.
LEMMA ShortSpan ==
  ASSUME NEW t, NEW g, NEW b, NEW x, NEW p, NEW s, Short(t, g, b, x, p, s)
  PROVE  /\ Span(g, x) \in 0 .. Cardinality(Nodes) /\ x \in Cells
         /\ Span(g, x) >= Cardinality(Nodes) => x \in t.red \/ Root(t) = x
<1> DEFINE N == Cardinality(Nodes)
<1>1. /\ t \in Trees /\ Shape(t.kid, t.parent, g) /\ Sound(t, g)
      /\ s \in Sides /\ t.kid[s][p] = x /\ t.parent[x] = p /\ Slot(t, p, s)
  BY DEF Short, Sound, Slot
<1>2. N \in Nat /\ \A n \in InTree(t) : g.hi[n] - g.lo[n] \in 0 .. N - 1
  BY <1>1, SizeBound
<1>3. x \in InCells(t.parent) /\ (x # Sentinel => x \in InTree(t))
  BY <1>1, SlotFacts
<1>4. x \in Cells
  BY <1>3, CellFacts
<1>5. Span(g, x) \in 0 .. N
  BY <1>2, <1>3 DEF Span
<1>6. ASSUME Span(g, x) >= N, x \notin t.red, Root(t) # x PROVE FALSE
  <2>1. p \in InTree(t)
    BY <1>6, ShortFacts
  <2>2. g.hi[p] - g.lo[p] \in 0 .. N - 1
    BY <1>2, <2>1
  <2>3. N >= 1
    BY <1>2, <2>2
  <2>4. x # Sentinel
    BY <1>2, <1>6, <2>3 DEF Span
  <2>5. x \in InNodes(t.parent)
    BY <1>3, <2>4 DEF InTree, InNodes
  <2>6. /\ g.lo[x] \in Int /\ g.hi[x] \in Int /\ g.lo[p] \in Int /\ g.hi[p] \in Int
        /\ g.hi[x] - g.lo[x] < g.hi[p] - g.lo[p]
    BY <1>1, <2>5, Nested
  <2> QED BY <1>2, <1>6, <2>2, <2>4, <2>6 DEF Span
<1> QED BY <1>4, <1>5, <1>6

\* js_rbtree_delete_fixup ends, within the passes Loop allows it, with nothing
\* left to repair.
LEMMA DeleteFixupOK ==
  ASSUME NEW t, NEW g, NEW b, NEW n, NEW p, NEW s, Short(t, g, b, n, p, s),
         NEW u, DeleteFixup(t, n) = u
  PROVE  \E h, c : Whole(u, h, c) /\ h.at = g.at /\ h.size = g.size /\ InTree(u) = InTree(t)
<1> DEFINE N  == Cardinality(Nodes)
           T  == InTree(t)
           Pass(x) == DeletePass(x.tree, x.at)
           States == [tree : Trees, at : Cells \cup {Null}]
           s0 == [tree |-> t, at |-> n]
           Good(i) == {x \in States : Moved(x, g, T, i - 1)}
           Done == {x \in Good(0) : x.at = Null \/ x.at \in x.tree.red \/ Root(x.tree) = x.at}
           G == [i \in 0 .. N |-> Good(i)]
           F == [x \in Good(0) |-> Pass(x)]
<1>1. N \in Nat
  BY SizeBound DEF Short
<1>2. ASSUME NEW r, NEW old \in Int, Moved(r, g, T, old), r = [tree |-> r.tree, at |-> r.at]
      PROVE  r \in States
  <2>1. CASE r.at = Null /\ \E h, c : Whole(r.tree, h, c)
    BY <1>2, <2>1 DEF Whole, Sound
  <2>2. CASE \E h, c, d, sd : Short(r.tree, h, c, r.at, d, sd)
    <3>1. PICK h, c, d, sd : Short(r.tree, h, c, r.at, d, sd)
      BY <2>2
    <3>2. r.at \in Cells
      BY <3>1, ShortSpan
    <3> QED BY <1>2, <3>1, <3>2 DEF Short, Sound
  <2> QED BY <1>2, <2>1, <2>2 DEF Moved
<1>3. s0 \in Good(0)
  <2>1. s0.tree = t /\ s0.at = n /\ s0 = [tree |-> s0.tree, at |-> s0.at]
    OBVIOUS
  <2>2. Span(g, n) \in 0 .. N
    BY ShortSpan
  <2>3. Span(g, n) > 0 - 1
    BY <1>1, <2>2
  <2> HIDE DEF s0
  <2>4. Moved(s0, g, T, 0 - 1)
    BY <2>1, <2>3 DEF Moved
  <2>5. 0 - 1 \in Int
    OBVIOUS
  <2>6. s0 \in States
    BY <1>2, <2>1, <2>4, <2>5
  <2> QED BY <2>4, <2>6
<1>4. ASSUME NEW i \in 0 .. N, NEW x \in Good(i) PROVE x \in Good(0)
  <2>1. Moved(x, g, T, i - 1) /\ x \in States
    BY <1>4
  <2>2. Moved(x, g, T, 0 - 1)
    <3>1. CASE x.at = Null /\ InTree(x.tree) = T
               /\ \E h, c : Whole(x.tree, h, c) /\ h.at = g.at /\ h.size = g.size
      BY <3>1 DEF Moved
    <3>2. CASE /\ \E h, c, d, sd : /\ Short(x.tree, h, c, x.at, d, sd)
                                   /\ h.at = g.at /\ h.size = g.size /\ Span(h, x.at) > i - 1
               /\ InTree(x.tree) = T
      <4>1. PICK h, c, d, sd : /\ Short(x.tree, h, c, x.at, d, sd)
                               /\ h.at = g.at /\ h.size = g.size /\ Span(h, x.at) > i - 1
        BY <3>2
      <4>2. Span(h, x.at) \in 0 .. N
        BY <4>1, ShortSpan
      <4>3. Span(h, x.at) > 0 - 1
        BY <1>1, <4>2
      <4> QED BY <3>2, <4>1, <4>3 DEF Moved
    <3> QED BY <2>1, <3>1, <3>2 DEF Moved
  <2> QED BY <2>1, <2>2
<1>5. ASSUME NEW i \in 0 .. N, NEW x \in Good(i), x \notin Done
      PROVE  i < N /\ Pass(x) \in Good(i + 1)
  <2>1. /\ x.at # Null /\ x.at \notin x.tree.red /\ Root(x.tree) # x.at
        /\ Moved(x, g, T, i - 1) /\ i \in Int
    BY <1>4, <1>5
  <2>2. PICK h, c, d, sd : /\ Short(x.tree, h, c, x.at, d, sd)
                           /\ h.at = g.at /\ h.size = g.size /\ Span(h, x.at) > i - 1
                           /\ InTree(x.tree) = T
    BY <2>1 DEF Moved
  <2>3. Span(h, x.at) \in 0 .. N /\ (Span(h, x.at) >= N => x.at \in x.tree.red \/ Root(x.tree) = x.at)
    BY <2>2, ShortSpan
  <2>4. i < N /\ Span(h, x.at) \in Int /\ Span(h, x.at) >= i
    BY <1>1, <2>1, <2>2, <2>3
  <2>5. PICK r : Pass(x) = r
    OBVIOUS
  <2>6. Moved(r, h, InTree(x.tree), Span(h, x.at)) /\ r = [tree |-> r.tree, at |-> r.at]
    BY <2>1, <2>2, <2>5, DeletePassOK
  <2>7. Moved(r, g, T, (i + 1) - 1)
    <3>1. CASE r.at = Null /\ InTree(r.tree) = T
               /\ \E k, e : Whole(r.tree, k, e) /\ k.at = h.at /\ k.size = h.size
      BY <2>2, <3>1 DEF Moved
    <3>2. CASE /\ \E k, e, q, sq : /\ Short(r.tree, k, e, r.at, q, sq)
                                   /\ k.at = h.at /\ k.size = h.size /\ Span(k, r.at) > Span(h, x.at)
               /\ InTree(r.tree) = T
      <4>1. PICK k, e, q, sq : /\ Short(r.tree, k, e, r.at, q, sq)
                               /\ k.at = h.at /\ k.size = h.size /\ Span(k, r.at) > Span(h, x.at)
        BY <3>2
      <4>2. Span(k, r.at) \in 0 .. N
        BY <4>1, ShortSpan
      <4>3. Span(k, r.at) > (i + 1) - 1
        BY <1>1, <2>1, <2>4, <4>1, <4>2
      <4> QED BY <2>2, <3>2, <4>1, <4>3 DEF Moved
    <3> QED BY <2>2, <2>6, <3>1, <3>2 DEF Moved
  <2>8. (i + 1) - 1 \in Int
    BY <2>1
  <2>9. r \in States
    BY <1>2, <2>6, <2>7, <2>8
  <2> QED BY <2>4, <2>5, <2>7, <2>9
<1>6. ASSUME NEW x \in Done PROVE Pass(x) = x
  <2>1. x = [tree |-> x.tree, at |-> x.at] /\ x.at \in x.tree.red \cup {Root(x.tree), Null}
    BY <1>6
  <2> QED BY <2>1, Zenon DEF DeletePass
<1>7. \A i \in 0 .. N : Good(i) \subseteq Good(0)
  <2> HIDE DEF Good
  <2> QED BY <1>4
<1> HIDE DEF N, Good, Pass
<1>9. Advances(N, F, s0, Done, G)
  <2>1. 0 \in 0 .. N /\ N \in 0 .. N /\ \A i \in 0 .. N - 1 : i \in 0 .. N /\ i + 1 \in 0 .. N
    BY <1>1
  <2>2. ASSUME NEW i \in 0 .. N - 1, NEW x \in G[i] PROVE F[x] \in Done \/ F[x] \in G[i + 1]
    <3>1. x \in Good(i) /\ i \in 0 .. N
      BY <2>1, <2>2
    <3>2. x \in Good(0)
      BY <1>7, <3>1
    <3>3. F[x] = Pass(x)
      BY <3>2
    <3>4. CASE x \in Done
      BY <1>6, <3>3, <3>4
    <3>5. CASE x \notin Done
      <4>1. Pass(x) \in Good(i + 1)
        BY <1>5, <3>1, <3>5
      <4> QED BY <2>1, <3>3, <4>1
    <3> QED BY <3>4, <3>5
  <2>3. \A x \in Done : F[x] = x
    BY <1>6
  <2>4. ASSUME NEW x \in G[N] PROVE x \in Done
    <3>1. x \in Good(N)
      BY <2>1
    <3> QED BY <1>1, <1>5, <2>1, <3>1
  <2>5. s0 \in G[0]
    BY <1>3, <2>1
  <2> QED BY <2>2, <2>3, <2>4, <2>5, Zenon DEF Advances
<1>10. /\ \A i \in 0 .. N : G[i] \subseteq Good(0)
       /\ \A x \in Done : x \in Good(0)
  BY <1>7
<1> DEFINE Made(f) == f = [k \in 0 .. N |-> IF k = 0 THEN s0 ELSE Pass(f[k - 1])]
<1>11. \E f : Made(f)
  <2>1. PICK f : MadeBy(N, F, s0, f) /\ \A k \in 0 .. N : f[k] \in Done \/ f[k] \in G[k]
    <3> HIDE DEF F, s0, Done, G
    <3> QED BY <1>1, <1>9, LoopLeads
  <2>2. \A k \in 0 .. N : f[k] \in Good(0)
    BY <1>10, <2>1
  <2>3. \A k \in 1 .. N : F[f[k - 1]] = Pass(f[k - 1])
    BY <1>1, <2>2
  <2>4. [k \in 0 .. N |-> IF k = 0 THEN s0 ELSE F[f[k - 1]]]
        = [k \in 0 .. N |-> IF k = 0 THEN s0 ELSE Pass(f[k - 1])]
    <3> HIDE DEF F, s0
    <3>1. \A k \in 0 .. N : k # 0 => k \in 1 .. N
      BY <1>1
    <3> QED BY <2>3, <3>1
  <2> QED BY <2>1, <2>4, Zenon DEF MadeBy
<1>12. PICK f : f = CHOOSE x : Made(x)
  OBVIOUS
<1>13. Made(f)
  <2> HIDE DEF Made
  <2> QED BY <1>11, <1>12
<1>14. f[0] = s0 /\ \A k \in 1 .. N : f[k] = Pass(f[k - 1])
  <2> HIDE DEF s0
  <2> QED BY <1>1, <1>13
<1>15. f[N] \in Done
  <2>1. \A k \in 1 .. N : f[k - 1] \in Done \/ f[k - 1] \in G[k - 1] => f[k] = F[f[k - 1]]
    <3> SUFFICES ASSUME NEW k \in 1 .. N, f[k - 1] \in Done \/ f[k - 1] \in G[k - 1]
                 PROVE  f[k] = F[f[k - 1]]
      OBVIOUS
    <3>1. k - 1 \in 0 .. N
      BY <1>1
    <3>2. f[k - 1] \in Good(0)
      BY <1>10, <3>1
    <3> QED BY <1>14, <3>2
  <2> HIDE DEF F, s0, Done, G
  <2>2. Follows(N, F, s0, Done, G, f)
    BY <1>14, <2>1 DEF Follows
  <2> QED BY <1>1, <1>9, <2>2, LoopEnds
<1>16. PICK end : f[N] = end
  OBVIOUS
<1>17. u = Blacken(end.tree, {end.at})
  BY <1>12, <1>16, Zenon DEF DeleteFixup, Loop, N, Pass
<1>18. /\ Moved(end, g, T, 0 - 1)
       /\ end.at = Null \/ end.at \in end.tree.red \/ Root(end.tree) = end.at
  BY <1>15, <1>16 DEF Good
<1>19. CASE /\ end.at = Null /\ InTree(end.tree) = T
            /\ \E h, c : Whole(end.tree, h, c) /\ h.at = g.at /\ h.size = g.size
  <2>1. PICK h, c : Whole(end.tree, h, c) /\ h.at = g.at /\ h.size = g.size
    BY <1>19
  <2>2. end.tree \in Trees /\ Null \notin end.tree.red
    BY <2>1, CellFacts DEF Whole, Sound, InTree, Cells
  <2>3. u = end.tree
    <3>1. end.tree.red \ {end.at} = end.tree.red
      BY <1>19, <2>2
    <3>2. u = [end.tree EXCEPT !.red = end.tree.red]
      BY <1>17, <3>1 DEF Blacken
    <3> QED BY <2>2, <3>2 DEF Trees
  <2> QED BY <1>19, <2>1, <2>3
<1>20. CASE /\ \E h, c, d, sd : /\ Short(end.tree, h, c, end.at, d, sd)
                                /\ h.at = g.at /\ h.size = g.size
            /\ InTree(end.tree) = T
  <2>1. PICK h, c, d, sd : /\ Short(end.tree, h, c, end.at, d, sd)
                           /\ h.at = g.at /\ h.size = g.size
    BY <1>20
  <2>2. end.at # Null
    <3>1. end.at \in Cells
      BY <2>1, ShortSpan
    <3> QED BY <3>1, CellFacts
  <2>3. Whole(u, h, c) /\ InTree(u) = InTree(end.tree)
    <3>1. Blacken(end.tree, {end.at}) = u
      BY <1>17
    <3>2. end.at \in end.tree.red \/ Root(end.tree) = end.at
      BY <1>18, <2>2
    <3> QED BY SMTT(30), <2>1, <3>1, <3>2, ShortEnds
  <2> QED BY <1>20, <2>1, <2>3
<1> QED BY <1>18, <1>19, <1>20 DEF Moved

-----------------------------------------------------------------------------
(* A node with one child at most leaves *)

\* The order without the position k.
Closed(g, h, k) ==
  /\ h.size = g.size - 1
  /\ \A i \in 1 .. g.size - 1 : h.at[i] = IF i < k THEN g.at[i] ELSE g.at[i + 1]
  /\ \A c \in Cells :
       /\ h.pos[c] = IF g.pos[c] > k THEN g.pos[c] - 1 ELSE g.pos[c]
       /\ h.lo[c]  = IF g.lo[c] > k THEN g.lo[c] - 1 ELSE g.lo[c]
       /\ h.hi[c]  = IF g.hi[c] >= k THEN g.hi[c] - 1 ELSE g.hi[c]

\* Such an order exists.
LEMMA OrderCloses ==
  ASSUME NEW g \in Orders, NEW k \in 1 .. g.size - 1,
         \A i \in 1 .. g.size : g.at[i] \in Cells
  PROVE  \E h \in Orders : Closed(g, h, k)
<1> DEFINE m   == g.size - 1
           at  == [i \in 1 .. m |-> IF i < k THEN g.at[i] ELSE g.at[i + 1]]
           pos == [c \in Cells |-> IF g.pos[c] > k THEN g.pos[c] - 1 ELSE g.pos[c]]
           lo  == [c \in Cells |-> IF g.lo[c] > k THEN g.lo[c] - 1 ELSE g.lo[c]]
           hi  == [c \in Cells |-> IF g.hi[c] >= k THEN g.hi[c] - 1 ELSE g.hi[c]]
           h   == [at |-> at, size |-> m, pos |-> pos, lo |-> lo, hi |-> hi]
<1>1. g.size \in Nat /\ m \in Nat /\ k \in Int /\ k \in 1 .. m
  BY DEF Orders
<1>2. \A c \in Cells : g.pos[c] \in Int /\ g.lo[c] \in Int /\ g.hi[c] \in Int
  BY DEF Orders
<1>3. at \in [1 .. m -> Cells]
  <2> SUFFICES ASSUME NEW i \in 1 .. m
               PROVE  (IF i < k THEN g.at[i] ELSE g.at[i + 1]) \in Cells
    OBVIOUS
  <2>1. i \in 1 .. g.size /\ i + 1 \in 1 .. g.size
    BY <1>1
  <2> QED BY <2>1
<1>4. pos \in [Cells -> Int]
  BY <1>1, <1>2
<1>5. lo \in [Cells -> Int]
  BY <1>1, <1>2
<1>6. hi \in [Cells -> Int]
  BY <1>1, <1>2
<1>7. h \in Orders
  <2>1. at \in UNION {[1 .. i -> Cells] : i \in Nat}
    BY <1>1, <1>3
  <2> HIDE DEF at, pos, lo, hi, m
  <2> QED BY <1>1, <1>4, <1>5, <1>6, <2>1 DEF Orders
<1>8. Closed(g, h, k)
  <2>1. h.size = m /\ h.at = at /\ h.pos = pos /\ h.lo = lo /\ h.hi = hi
    OBVIOUS
  <2>2. \A i \in 1 .. m : at[i] = IF i < k THEN g.at[i] ELSE g.at[i + 1]
    OBVIOUS
  <2>3. \A c \in Cells :
       /\ pos[c] = IF g.pos[c] > k THEN g.pos[c] - 1 ELSE g.pos[c]
       /\ lo[c] = IF g.lo[c] > k THEN g.lo[c] - 1 ELSE g.lo[c]
       /\ hi[c] = IF g.hi[c] >= k THEN g.hi[c] - 1 ELSE g.hi[c]
    OBVIOUS
  <2> HIDE DEF at, pos, lo, hi, h
  <2> QED BY <2>1, <2>2, <2>3 DEF Closed
<1> QED BY <1>7, <1>8

\* n is off the links, and its child x is in its place.
Spliced(t, u, n, x) ==
  /\ \A q \in Sides, c \in Cells :
       u.kid[q][c] = IF c = n THEN Null
                     ELSE IF c = t.parent[n] /\ q = SideOf(t, n) THEN x ELSE t.kid[q][c]
  /\ \A c \in Cells : u.parent[c] = IF c = n THEN Null
                                    ELSE IF c = x THEN t.parent[n] ELSE t.parent[c]

\* Taking out a node with one child gives a tree of the closed order.
LEMMA SplicedShape ==
  ASSUME NEW t, NEW g, Sound(t, g), NEW n \in InTree(t), NEW side \in Sides,
         NEW x, t.kid[side][n] = x, t.kid[Other(side)][n] = Sentinel,
         NEW u \in Trees, Spliced(t, u, n, x),
         NEW h \in Orders, NEW k, g.pos[n] = k, Closed(g, h, k)
  PROVE  /\ Shape(u.kid, u.parent, h)
         /\ InTree(u) = InTree(t) \ {n}
<1>1. /\ t \in Trees /\ Shape(t.kid, t.parent, g) /\ Numbered(t.parent, g) /\ g \in Orders
      /\ g.size \in Nat
  BY Zenon DEF Sound, Shape, Numbered, Orders
<1> DEFINE C == InCells(t.parent)
           D == InCells(u.parent)
           p == t.parent[n]
           s == SideOf(t, n)
<1>2. /\ n \in C /\ n \in Cells /\ n # Sentinel /\ n \in Nodes /\ n \in InNodes(t.parent)
      /\ p \in C /\ p \in Cells /\ p # n /\ s \in Sides /\ t.kid[s][p] = n
      /\ (p = Sentinel => s = "left") /\ Other(side) \in Sides
      /\ \A q \in Sides : q = side \/ q = Other(side)
      /\ Sides = {"left", "right"} /\ "left" # "right"
  <2>1. /\ n \in Nodes /\ n \in Cells /\ n # Sentinel /\ p \in C /\ p \in Cells /\ p # n
        /\ s \in Sides /\ t.kid[s][p] = n /\ (p = Sentinel => s = "left")
    BY <1>1, UpFacts
  <2>2. n \in InNodes(t.parent) /\ n \in C
    BY CellFacts DEF InTree, InNodes
  <2>3. Other(side) \in Sides /\ \A q \in Sides : q = side \/ q = Other(side)
    BY CellFacts DEF Other
  <2> QED BY <2>1, <2>2, <2>3, CellFacts
<1>3. /\ x \in C /\ x \in Cells
      /\ x # Sentinel => /\ x \in InTree(t) /\ x \in Nodes /\ t.parent[x] = n
                         /\ x # n /\ x # p
  BY <1>1, DownFacts
<1> HIDE DEF p, s
<1>4. /\ \A q \in Sides, c \in Cells :
           u.kid[q][c] = IF c = n THEN Null
                         ELSE IF c = p /\ q = s THEN x ELSE t.kid[q][c]
      /\ \A c \in Cells : u.parent[c] = IF c = n THEN Null
                                        ELSE IF c = x THEN p ELSE t.parent[c]
  BY DEF Spliced, p, s
<1>5. /\ \A c \in C : c \in Cells /\ g.pos[c] \in Int /\ g.lo[c] \in Int /\ g.hi[c] \in Int
      /\ \A c \in C : /\ 1 <= g.lo[c] /\ g.lo[c] <= g.pos[c] /\ g.pos[c] <= g.hi[c]
                      /\ g.hi[c] <= g.size /\ g.at[g.pos[c]] = c
                      /\ (c # Sentinel => g.hi[c] < g.size)
  BY <1>1, CellFacts DEF Orders, Numbered
<1>6. k \in Int /\ 1 <= k /\ k < g.size /\ g.pos[n] = k
  BY <1>1, <1>2, <1>5
<1>7. D = C \ {n} /\ InNodes(u.parent) = InNodes(t.parent) \ {n} /\ InTree(u) = InTree(t) \ {n}
  <2>1. Sentinel \notin Nodes /\ Null \notin Cells /\ Nodes \subseteq Cells
    BY CellFacts
  <2>2. \A c \in Nodes : u.parent[c] # Null <=> c # n /\ t.parent[c] # Null
    <3>1. x \in Nodes => t.parent[x] # Null
      BY <1>3, <2>1 DEF InTree
    <3> QED BY <1>2, <1>4, <2>1, <3>1
  <2> QED BY <1>2, <2>1, <2>2 DEF InCells, InNodes, InTree
<1>8. \A c \in C : /\ h.pos[c] = IF g.pos[c] > k THEN g.pos[c] - 1 ELSE g.pos[c]
                   /\ h.lo[c]  = IF g.lo[c] > k THEN g.lo[c] - 1 ELSE g.lo[c]
                   /\ h.hi[c]  = IF g.hi[c] >= k THEN g.hi[c] - 1 ELSE g.hi[c]
  BY <1>5 DEF Closed
<1>9. h.size = g.size - 1 /\ \A i \in 1 .. g.size - 1 : h.at[i] = IF i < k THEN g.at[i] ELSE g.at[i + 1]
  BY DEF Closed
<1> HIDE DEF C, D
<1>10. \A c \in C : c # n => g.pos[c] # k
  BY <1>2, <1>5, <1>6
<1>11. \A c \in C : LeftOf(t.kid, t.parent, g, c)
  BY <1>1 DEF Shape, C
<1>12. \A c \in C : c # Sentinel => RightOf(t.kid, t.parent, g, c) /\ Below(t.kid, t.parent, c)
  BY <1>1, CellFacts DEF Shape, C
\* n and its child
<1>13. /\ x = Sentinel => g.lo[n] = k /\ g.hi[n] = k
       /\ x # Sentinel => \/ g.lo[n] = k /\ g.lo[x] = k + 1 /\ g.hi[x] = g.hi[n]
                          \/ g.hi[n] = k /\ g.hi[x] = k - 1 /\ g.lo[x] = g.lo[n]
  <2>1. LeftOf(t.kid, t.parent, g, n) /\ RightOf(t.kid, t.parent, g, n)
    BY <1>2, <1>11, <1>12
  <2>2. CASE side = "left"
    <3>1. t.kid["left"][n] = x /\ t.kid["right"][n] = Sentinel
      BY <2>2 DEF Other
    <3> QED BY <1>6, <2>1, <3>1 DEF LeftOf, RightOf
  <2>3. CASE side = "right"
    <3>1. t.kid["right"][n] = x /\ t.kid["left"][n] = Sentinel
      BY <1>2, <2>3 DEF Other
    <3> QED BY <1>6, <2>1, <3>1 DEF LeftOf, RightOf
  <2> QED BY <1>2, <2>2, <2>3
<1>14. /\ s = "left" => g.lo[n] = g.lo[p] /\ g.hi[n] = g.pos[p] - 1
       /\ s = "right" => g.lo[n] = g.pos[p] + 1 /\ g.hi[n] = g.hi[p]
  BY <1>2, <1>11, <1>12 DEF LeftOf, RightOf
\* A child other than n is its parent's alone.
<1>15. \A q \in Sides, c \in C : t.kid[q][c] = n => c = p /\ q = s
  <2> SUFFICES ASSUME NEW q \in Sides, NEW c \in C, t.kid[q][c] = n PROVE c = p /\ q = s
    OBVIOUS
  <2>1. CASE c # Sentinel
    <3>1. c \in InTree(t)
      BY <2>1, CellFacts DEF C, InTree, InNodes
    <3> QED BY <1>1, <1>2, <3>1, OneSlot DEF p, s
  <2>2. CASE c = Sentinel
    <3>1. q = "left"
      <4>1. t.kid["right"][Sentinel] = Null
        BY <1>1 DEF Shape
      <4> QED BY <1>2, <2>2, <4>1, CellFacts
    <3>2. t.parent[n] = Sentinel
      BY <1>2, <1>11, <2>2, <3>1 DEF LeftOf
    <3> QED BY <1>2, <2>2, <3>1, <3>2, CellFacts DEF p, s, SideOf
  <2> QED BY <2>1, <2>2
<1>20. Numbered(u.parent, h)
  <2>1. h.pos[Sentinel] = h.size /\ h.lo[Sentinel] = 1 /\ h.hi[Sentinel] = h.size
    <3>1. Sentinel \in C /\ g.pos[Sentinel] = g.size /\ g.lo[Sentinel] = 1 /\ g.hi[Sentinel] = g.size
      BY <1>1, CellFacts DEF Numbered, C
    <3> QED BY <1>1, <1>6, <1>8, <1>9, <3>1
  <2>2. ASSUME NEW i \in 1 .. h.size PROVE h.at[i] \in D /\ h.pos[h.at[i]] = i
    <3>1. h.at[i] = IF i < k THEN g.at[i] ELSE g.at[i + 1]
      BY <1>9
    <3>2. i \in Int /\ 1 <= i /\ i <= g.size - 1 /\ i \in 1 .. g.size /\ i + 1 \in 1 .. g.size
      BY <1>1, <1>9
    <3>3. \A j \in 1 .. g.size : g.at[j] \in C /\ g.pos[g.at[j]] = j
      BY <1>1 DEF Numbered, C
    <3>4. CASE i < k
      <4>1. g.at[i] \in C /\ g.pos[g.at[i]] = i /\ h.at[i] = g.at[i] /\ g.at[i] # n
        BY <1>6, <3>1, <3>2, <3>3, <3>4
      <4> QED BY <1>6, <1>7, <1>8, <3>2, <3>4, <4>1
    <3>5. CASE i >= k
      <4>1. g.at[i + 1] \in C /\ g.pos[g.at[i + 1]] = i + 1 /\ h.at[i] = g.at[i + 1] /\ g.at[i + 1] # n
        BY <1>6, <3>1, <3>2, <3>3, <3>5
      <4>2. h.pos[g.at[i + 1]] = i + 1 - 1
        BY <1>6, <1>8, <3>2, <3>5, <4>1
      <4> QED BY <1>7, <3>2, <4>1, <4>2
    <3> QED BY <1>6, <3>2, <3>4, <3>5
  <2>3. ASSUME NEW c \in D
        PROVE /\ 1 <= h.lo[c] /\ h.lo[c] <= h.pos[c] /\ h.pos[c] <= h.hi[c] /\ h.hi[c] <= h.size
              /\ (c # Sentinel => h.hi[c] < h.size) /\ h.pos[c] \in 1 .. h.size
    <3>1. c \in C /\ c # n
      BY <1>7
    <3>2. g.pos[c] # k
      BY <1>10, <3>1
    <3>3. /\ 1 <= g.lo[c] /\ g.lo[c] <= g.pos[c] /\ g.pos[c] <= g.hi[c] /\ g.hi[c] <= g.size
          /\ (c # Sentinel => g.hi[c] < g.size)
          /\ g.pos[c] \in Int /\ g.lo[c] \in Int /\ g.hi[c] \in Int
      BY <1>5, <3>1
    <3> QED BY <1>1, <1>6, <1>8, <1>9, <3>1, <3>2, <3>3
  <2>4. ASSUME NEW c \in D PROVE h.at[h.pos[c]] = c
    <3>1. h.pos[c] \in 1 .. h.size
      BY <2>3
    <3>2. c \in C /\ c # n
      BY <1>7
    <3>3. g.pos[c] # k /\ g.pos[c] \in Int /\ g.at[g.pos[c]] = c
      BY <1>5, <1>10, <3>2
    <3>4. CASE g.pos[c] > k
      <4>1. h.pos[c] = g.pos[c] - 1
        BY <1>8, <3>2, <3>4
      <4>2. ~(g.pos[c] - 1 < k) /\ g.pos[c] - 1 + 1 = g.pos[c]
        BY <1>6, <3>3, <3>4
      <4> QED BY <1>9, <3>1, <3>3, <4>1, <4>2
    <3>5. CASE g.pos[c] < k
      <4>1. h.pos[c] = g.pos[c]
        BY <1>6, <1>8, <3>2, <3>3, <3>5
      <4> QED BY <1>9, <3>1, <3>3, <3>5, <4>1
    <3> QED BY <1>6, <3>3, <3>4, <3>5
  <2> QED BY <2>1, <2>2, <2>3, <2>4 DEF Numbered, D
<1>21. ASSUME NEW c \in D PROVE LeftOf(u.kid, u.parent, h, c)
  <2> DEFINE y == t.kid["left"][c]
  <2>1. c \in C /\ c # n /\ c \in Cells
    BY <1>5, <1>7
  <2>2. /\ y \in C
        /\ y = Sentinel => g.lo[c] = g.pos[c]
        /\ y # Sentinel => t.parent[y] = c /\ g.lo[y] = g.lo[c] /\ g.hi[y] = g.pos[c] - 1
    BY <1>11, <2>1 DEF LeftOf, C
  <2>3. g.pos[c] \in Int /\ g.lo[c] \in Int /\ g.hi[c] \in Int /\ g.pos[c] # k
        /\ g.lo[c] <= g.pos[c] /\ g.pos[c] <= g.hi[c]
    BY <1>5, <1>10, <2>1
  <2>4. CASE c = p /\ s = "left"
    <3>1. u.kid["left"][c] = x
      BY <1>2, <1>4, <2>1, <2>4
    <3>2. x \in D /\ (x # Sentinel => u.parent[x] = c)
      BY <1>2, <1>3, <1>4, <1>7, <2>4
    <3>3. g.lo[n] = g.lo[c] /\ g.hi[n] = g.pos[c] - 1
      BY <1>14, <2>4
    <3>4. CASE x = Sentinel
      <4>1. h.lo[c] = h.pos[c]
        BY <1>6, <1>8, <1>13, <2>1, <2>3, <3>3, <3>4
      <4> QED BY <3>1, <3>2, <3>4, <4>1 DEF LeftOf, D
    <3>5. CASE x # Sentinel
      <4>1. g.lo[n] \in Int /\ g.hi[n] \in Int /\ g.lo[n] <= k /\ k <= g.hi[n]
            /\ g.lo[x] \in Int /\ g.hi[x] \in Int
        BY <1>2, <1>3, <1>5, <1>6
      <4>2. h.lo[x] = h.lo[c] /\ h.hi[x] = h.pos[c] - 1
        BY <1>3, <1>6, <1>8, <1>13, <2>1, <2>3, <3>3, <3>5, <4>1
      <4> QED BY <3>1, <3>2, <3>5, <4>2 DEF LeftOf, D
    <3> QED BY <3>4, <3>5
  <2>5. CASE ~(c = p /\ s = "left")
    <3>1. u.kid["left"][c] = y /\ y # n
      BY <1>2, <1>4, <1>15, <2>1, <2>5
    <3>2. y \in D /\ y \in Cells
      BY <1>5, <1>7, <2>2, <3>1
    <3>3. CASE y = Sentinel
      <4>1. h.lo[c] = h.pos[c]
        BY <1>6, <1>8, <2>1, <2>2, <2>3, <3>3
      <4> QED BY <3>1, <3>2, <3>3, <4>1 DEF LeftOf, D
    <3>4. CASE y # Sentinel
      <4>1. y # x
        BY <1>3, <2>1, <2>2, <3>4
      <4>2. u.parent[y] = c
        BY <1>4, <2>2, <3>1, <3>2, <3>4, <4>1
      <4>3. g.lo[y] = g.lo[c] /\ g.hi[y] = g.pos[c] - 1
        BY <2>2, <3>4
      <4>4. h.lo[y] = h.lo[c] /\ h.hi[y] = h.pos[c] - 1
        BY <1>6, <1>8, <2>1, <2>2, <2>3, <4>3
      <4> QED BY <3>1, <3>2, <3>4, <4>2, <4>4 DEF LeftOf, D
    <3> QED BY <3>3, <3>4
  <2> QED BY <2>4, <2>5
<1>22. ASSUME NEW c \in D, c # Sentinel PROVE RightOf(u.kid, u.parent, h, c)
  <2> DEFINE y == t.kid["right"][c]
  <2>1. c \in C /\ c # n /\ c \in Cells
    BY <1>5, <1>7
  <2>2. /\ y \in C
        /\ y = Sentinel => g.hi[c] = g.pos[c]
        /\ y # Sentinel => t.parent[y] = c /\ g.lo[y] = g.pos[c] + 1 /\ g.hi[y] = g.hi[c]
    BY <1>12, <1>22, <2>1 DEF RightOf, C
  <2>3. g.pos[c] \in Int /\ g.lo[c] \in Int /\ g.hi[c] \in Int /\ g.pos[c] # k
        /\ g.lo[c] <= g.pos[c] /\ g.pos[c] <= g.hi[c]
    BY <1>5, <1>10, <2>1
  <2>4. CASE c = p /\ s = "right"
    <3>1. u.kid["right"][c] = x
      BY <1>2, <1>4, <2>1, <2>4
    <3>2. x \in D /\ (x # Sentinel => u.parent[x] = c)
      BY <1>2, <1>3, <1>4, <1>7, <2>4
    <3>3. g.lo[n] = g.pos[c] + 1 /\ g.hi[n] = g.hi[c]
      BY <1>14, <2>4
    <3>4. CASE x = Sentinel
      <4>1. h.hi[c] = h.pos[c]
        BY <1>6, <1>8, <1>13, <2>1, <2>3, <3>3, <3>4
      <4> QED BY <3>1, <3>2, <3>4, <4>1 DEF RightOf, D
    <3>5. CASE x # Sentinel
      <4>1. g.lo[n] \in Int /\ g.hi[n] \in Int /\ g.lo[n] <= k /\ k <= g.hi[n]
            /\ g.lo[x] \in Int /\ g.hi[x] \in Int
        BY <1>2, <1>3, <1>5, <1>6
      <4>2. h.lo[x] = h.pos[c] + 1 /\ h.hi[x] = h.hi[c]
        BY <1>3, <1>6, <1>8, <1>13, <2>1, <2>3, <3>3, <3>5, <4>1
      <4> QED BY <3>1, <3>2, <3>5, <4>2 DEF RightOf, D
    <3> QED BY <3>4, <3>5
  <2>5. CASE ~(c = p /\ s = "right")
    <3>1. u.kid["right"][c] = y /\ y # n
      BY <1>2, <1>4, <1>15, <2>1, <2>5
    <3>2. y \in D /\ y \in Cells
      BY <1>5, <1>7, <2>2, <3>1
    <3>3. CASE y = Sentinel
      <4>1. h.hi[c] = h.pos[c]
        BY <1>6, <1>8, <2>1, <2>2, <2>3, <3>3
      <4> QED BY <3>1, <3>2, <3>3, <4>1 DEF RightOf, D
    <3>4. CASE y # Sentinel
      <4>1. y # x
        BY <1>3, <2>1, <2>2, <3>4
      <4>2. u.parent[y] = c
        BY <1>4, <2>2, <3>1, <3>2, <3>4, <4>1
      <4>3. g.lo[y] = g.pos[c] + 1 /\ g.hi[y] = g.hi[c]
        BY <2>2, <3>4
      <4>4. h.lo[y] = h.pos[c] + 1 /\ h.hi[y] = h.hi[c]
        BY <1>6, <1>8, <2>1, <2>2, <2>3, <4>3
      <4> QED BY <3>1, <3>2, <3>4, <4>2, <4>4 DEF RightOf, D
    <3> QED BY <3>3, <3>4
  <2> QED BY <2>4, <2>5
<1>23. ASSUME NEW c \in D, c # Sentinel PROVE Below(u.kid, u.parent, c)
  <2>1. c \in C /\ c # n /\ c \in Cells
    BY <1>5, <1>7
  <2>2. CASE c = x
    <3>1. u.parent[c] = p /\ u.kid[s][p] = x /\ p \in D
      BY <1>2, <1>4, <1>7, <2>1, <2>2
    <3> QED BY <1>2, <2>2, <3>1 DEF Below, D
  <2>3. CASE c # x
    <3>1. u.parent[c] = t.parent[c]
      BY <1>4, <2>1, <2>3
    <3>2. /\ t.parent[c] \in C
          /\ \/ t.kid["left"][t.parent[c]] = c
             \/ t.parent[c] # Sentinel /\ t.kid["right"][t.parent[c]] = c
      BY <1>12, <1>23, <2>1 DEF Below, C
    <3> DEFINE d == t.parent[c]
    <3>3. d # n
      <4>1. \A q \in Sides : t.kid[q][n] # c
        BY <1>2, <1>23, <2>3
      <4> QED BY <1>2, <3>2, <4>1
    <3>4. d \in D /\ d \in Cells
      BY <1>5, <1>7, <3>2, <3>3
    <3>5. \A q \in Sides : t.kid[q][d] = c => u.kid[q][d] = c
      <4> SUFFICES ASSUME NEW q \in Sides, t.kid[q][d] = c PROVE u.kid[q][d] = c
        OBVIOUS
      <4>1. ~(d = p /\ q = s)
        BY <1>2, <2>1
      <4> QED BY <1>4, <3>3, <3>4, <4>1
    <3> QED BY <1>2, <3>1, <3>2, <3>4, <3>5 DEF Below, D
  <2> QED BY <2>2, <2>3
<1>24. Shape(u.kid, u.parent, h)
  <2>1. u.kid \in [Sides -> [Cells -> Cells \cup {Null}]] /\ u.parent \in [Cells -> Cells \cup {Null}]
    BY DEF Trees
  <2>2. u.kid["right"][Sentinel] = Null
    <3>1. t.kid["right"][Sentinel] = Null
      BY <1>1 DEF Shape
    <3> QED BY <1>2, <1>4, <3>1, CellFacts
  <2>3. \A c \in D : LeftOf(u.kid, u.parent, h, c)
    BY <1>21
  <2>4. \A c \in InNodes(u.parent) : c \in D /\ c # Sentinel
    BY CellFacts DEF D
  <2>5. \A c \in InNodes(u.parent) : RightOf(u.kid, u.parent, h, c) /\ Below(u.kid, u.parent, c)
    BY <1>22, <1>23, <2>4
  <2> QED BY <1>20, <2>1, <2>2, <2>3, <2>5 DEF Shape, D
<1> QED BY <1>7, <1>24

\* A red node leaves no gap; where a black one was, its paths are one short.
LEMMA SplicedOK ==
  ASSUME NEW t, NEW g, NEW b, Whole(t, g, b), NEW n \in InTree(t), NEW side \in Sides,
         NEW x, t.kid[side][n] = x, t.kid[Other(side)][n] = Sentinel,
         NEW u \in Trees, Spliced(t, u, n, x), u.red = t.red \ {n},
         NEW k, g.pos[n] = k
  PROVE  \E h : /\ Closed(g, h, k) /\ InTree(u) = InTree(t) \ {n} /\ k \in 1 .. g.size - 1
                /\ n \in t.red => Whole(u, h, b)
                /\ n \notin t.red => Short(u, h, b, x, t.parent[n], SideOf(t, n))
<1> DEFINE p == t.parent[n]
           s == SideOf(t, n)
<1>1. /\ Sound(t, g) /\ t \in Trees /\ t.red \subseteq InTree(t) /\ Shape(t.kid, t.parent, g)
      /\ g \in Orders /\ Even(t, b, Sentinel, "left") /\ Root(t) \notin t.red
      /\ \A m \in t.red, q \in Sides : t.kid[q][m] \notin t.red
  BY DEF Whole, Sound, Shape, Numbered, NoRedRed
<1>2. \A i \in 1 .. g.size : g.at[i] \in Cells
  BY <1>1, CellFacts DEF Shape, Numbered
<1>3. k \in 1 .. g.size - 1
  <2>1. n \in InCells(t.parent) /\ n # Sentinel /\ n \in Cells
    BY <1>1, UpFacts, CellFacts DEF InTree, InNodes
  <2>2. 1 <= g.lo[n] /\ g.lo[n] <= g.pos[n] /\ g.pos[n] <= g.hi[n] /\ g.hi[n] < g.size
        /\ g.lo[n] \in Int /\ g.pos[n] \in Int /\ g.hi[n] \in Int /\ g.size \in Nat
    BY <1>1, <2>1 DEF Shape, Numbered, Orders
  <2> QED BY <2>2
<1>4. PICK h \in Orders : Closed(g, h, k)
  BY <1>1, <1>2, <1>3, OrderCloses
<1>5. Shape(u.kid, u.parent, h) /\ InTree(u) = InTree(t) \ {n}
  BY <1>1, <1>4, SplicedShape
<1>6. Sound(u, h)
  BY <1>1, <1>5 DEF Sound
<1>7. /\ n \in Nodes /\ n \in Cells /\ n # Sentinel
      /\ p \in InCells(t.parent) /\ p \in Cells /\ p # n /\ s \in Sides
      /\ t.kid[s][p] = n /\ (p = Sentinel => s = "left")
  BY <1>1, UpFacts
<1>8. /\ x \in Cells /\ x # n
      /\ x # Sentinel => x \in InTree(t) /\ t.parent[x] = n /\ x # p
  BY <1>1, <1>7, DownFacts
<1> HIDE DEF p, s
<1>9. /\ \A q \in Sides, c \in Cells :
           u.kid[q][c] = IF c = n THEN Null
                         ELSE IF c = p /\ q = s THEN x ELSE t.kid[q][c]
      /\ \A c \in Cells : u.parent[c] = IF c = n THEN Null
                                        ELSE IF c = x THEN p ELSE t.parent[c]
  BY DEF Spliced, p, s
<1>10. \A m \in InTree(t), q \in Sides : t.kid[q][m] = n => m = p /\ q = s
  BY <1>1, OneSlot, Zenon DEF p, s
<1>11. /\ b \in [Cells -> Nat] /\ b[Sentinel] = 0
       /\ \A m \in InTree(t), q \in Sides : b[m] = b[t.kid[q][m]] + Weight(t, t.kid[q][m])
  BY <1>1, EvenWhole
<1>12. \A c : c # n => Weight(u, c) = Weight(t, c)
  BY DEF Weight
<1>13. ASSUME NEW m \in InTree(u), NEW q \in Sides
       PROVE  /\ m = p /\ q = s => b[m] = b[u.kid[q][m]] + Weight(u, u.kid[q][m]) + Weight(t, n)
              /\ ~(m = p /\ q = s) => b[m] = b[u.kid[q][m]] + Weight(u, u.kid[q][m])
  <2>1. m \in InTree(t) /\ m # n /\ m \in Cells
    BY <1>1, <1>5, UpFacts
  <2>2. CASE m = p /\ q = s
    <3>1. b[p] = b[n] + Weight(t, n)
      BY <1>7, <1>11, <2>1, <2>2
    <3>2. b[n] = b[x] + Weight(t, x)
      BY <1>11
    <3>3. u.kid[q][m] = x /\ Weight(u, x) = Weight(t, x)
      BY <1>8, <1>9, <1>12, <2>1, <2>2
    <3>4. b[x] \in Nat /\ b[n] \in Nat /\ b[p] \in Nat /\ Weight(t, n) \in Nat /\ Weight(t, x) \in Nat
      BY <1>7, <1>8, <1>11 DEF Weight
    <3> QED BY <2>2, <3>1, <3>2, <3>3, <3>4
  <2>3. CASE ~(m = p /\ q = s)
    <3>1. u.kid[q][m] = t.kid[q][m] /\ t.kid[q][m] # n
      BY <1>9, <1>10, <2>1, <2>3
    <3>2. Weight(u, t.kid[q][m]) = Weight(t, t.kid[q][m])
      BY <1>12, <3>1
    <3>3. b[m] = b[t.kid[q][m]] + Weight(t, t.kid[q][m])
      BY <1>11, <2>1
    <3> QED BY <2>3, <3>1, <3>2, <3>3
  <2> QED BY <2>2, <2>3
<1>14. ASSUME NEW m \in u.red, NEW q \in Sides, u.kid[q][m] \in u.red
       PROVE  m = p /\ q = s /\ u.kid[q][m] = x /\ x \in t.red /\ n \notin t.red
  <2>1. m \in t.red /\ m # n /\ m \in Cells
    BY <1>1, UpFacts
  <2>2. m = p /\ q = s
    <3> SUFFICES ASSUME ~(m = p /\ q = s) PROVE FALSE
      OBVIOUS
    <3>1. u.kid[q][m] = t.kid[q][m]
      BY <1>9, <2>1
    <3> QED BY <1>1, <1>14, <2>1, <3>1
  <2>3. u.kid[q][m] = x
    BY <1>9, <2>1, <2>2
  <2>4. n \notin t.red
    BY <1>1, <1>7, <2>1, <2>2
  <2> QED BY <1>14, <2>2, <2>3, <2>4
<1>15. Root(u) = IF p = Sentinel THEN x ELSE Root(t)
  BY <1>7, <1>9, CellFacts DEF Root
<1>16. ASSUME n \in t.red PROVE Whole(u, h, b)
  <2>1. Weight(t, n) = 0
    BY <1>16 DEF Weight
  <2>2. \A m \in InTree(u), q \in Sides : b[m] = b[u.kid[q][m]] + Weight(u, u.kid[q][m])
    <3> SUFFICES ASSUME NEW m \in InTree(u), NEW q \in Sides
                 PROVE  b[m] = b[u.kid[q][m]] + Weight(u, u.kid[q][m])
      OBVIOUS
    <3>1. CASE m = p /\ q = s
      <4>1. u.kid[q][m] = x
        <5>1. m # n /\ m \in Cells
          BY <1>7, <3>1
        <5> QED BY <1>9, <3>1, <5>1
      <4>2. b[u.kid[q][m]] \in Nat /\ Weight(u, u.kid[q][m]) \in Nat
        BY <1>8, <1>11, <4>1 DEF Weight
      <4>3. b[m] = b[u.kid[q][m]] + Weight(u, u.kid[q][m]) + Weight(t, n)
        BY <1>13, <3>1
      <4> QED BY <2>1, <4>2, <4>3
    <3>2. CASE ~(m = p /\ q = s)
      BY <1>13, <3>2
    <3> QED BY <3>1, <3>2
  <2>3. Even(u, b, Sentinel, "left")
    <3>1. b \in [Cells -> Nat] /\ b[Sentinel] = 0
      BY <1>11
    <3> QED BY <1>5, <2>2, <3>1, EvenWhole
  <2>4. NoRedRed(u)
    BY <1>14, <1>16 DEF NoRedRed
  <2>5. Root(u) \notin u.red
    <3>1. p = Sentinel => Root(t) = n
      BY <1>7 DEF Root
    <3> QED BY <1>1, <1>15, <1>16, <3>1
  <2> QED BY <1>6, <2>3, <2>4, <2>5 DEF Whole
<1>17. ASSUME n \notin t.red PROVE Short(u, h, b, x, p, s)
  <2>1. Weight(t, n) = 1
    BY <1>17 DEF Weight
  <2>2. Even(u, b, p, s)
    BY <1>11, <1>13, <2>1 DEF Even
  <2>3. Slot(u, p, s)
    <3>1. p \in InCells(u.parent)
      BY <1>5, <1>7, CellFacts DEF InCells, InNodes, InTree
    <3> QED BY <1>7, <3>1 DEF Slot
  <2>4. u.kid[s][p] = x /\ u.parent[x] = p
    BY <1>7, <1>8, <1>9
  <2>5. \A m \in u.red, q \in Sides : u.kid[q][m] \in u.red => x \in {m, u.kid[q][m]}
    BY <1>14
  <2>6. Root(u) \in u.red => Root(u) = x
    BY <1>1, <1>15
  <2> QED BY <1>6, <2>2, <2>3, <2>4, <2>5, <2>6 DEF Short
<1> QED BY <1>3, <1>4, <1>5, <1>16, <1>17 DEF p, s

-----------------------------------------------------------------------------
(* A node takes the place of another *)

\* n gives its place to w.
As(n, w, c) == IF c = n THEN w ELSE c

\* The links of u are those of t with w in the place of n,
Renamed(t, u, n, w) ==
  /\ \A q \in Sides, c \in InCells(t.parent) :
       u.kid[q][As(n, w, c)] = As(n, w, t.kid[q][c])
  /\ \A c \in Nodes :
       u.parent[c] = IF c = n THEN Null
                     ELSE IF c = w THEN As(n, w, t.parent[n]) ELSE As(n, w, t.parent[c])

\* and h is the order g with w in the place of n.
Swapped(g, h, n, w) ==
  /\ h.size = g.size
  /\ \A i \in 1 .. g.size : h.at[i] = As(n, w, g.at[i])
  /\ \A c \in Cells : c # w => h.pos[c] = g.pos[c] /\ h.lo[c] = g.lo[c] /\ h.hi[c] = g.hi[c]
  /\ h.pos[w] = g.pos[n] /\ h.lo[w] = g.lo[n] /\ h.hi[w] = g.hi[n]

\* Such an order exists.
LEMMA OrderSwaps ==
  ASSUME NEW g \in Orders, NEW n \in Cells, NEW w \in Cells,
         \A i \in 1 .. g.size : g.at[i] \in Cells
  PROVE  \E h \in Orders : Swapped(g, h, n, w)
<1> DEFINE m   == g.size
           at  == [i \in 1 .. m |-> As(n, w, g.at[i])]
           pos == [g.pos EXCEPT ![w] = g.pos[n]]
           lo  == [g.lo EXCEPT ![w] = g.lo[n]]
           hi  == [g.hi EXCEPT ![w] = g.hi[n]]
           h   == [at |-> at, size |-> m, pos |-> pos, lo |-> lo, hi |-> hi]
<1>1. m \in Nat
  BY DEF Orders
<1>2. g.pos \in [Cells -> Int] /\ g.lo \in [Cells -> Int] /\ g.hi \in [Cells -> Int]
  BY DEF Orders
<1>3. at \in [1 .. m -> Cells]
  BY DEF As
<1>4. pos \in [Cells -> Int] /\ lo \in [Cells -> Int] /\ hi \in [Cells -> Int]
  BY <1>2
<1>5. h \in Orders
  <2>1. at \in UNION {[1 .. i -> Cells] : i \in Nat}
    BY <1>1, <1>3
  <2> HIDE DEF at, pos, lo, hi, m
  <2> QED BY <1>1, <1>4, <2>1, Zenon DEF Orders
<1>6. Swapped(g, h, n, w)
  <2>1. h.size = m /\ h.at = at /\ h.pos = pos /\ h.lo = lo /\ h.hi = hi
    OBVIOUS
  <2>2. \A i \in 1 .. m : at[i] = As(n, w, g.at[i])
    OBVIOUS
  <2>3. \A c \in Cells : c # w => pos[c] = g.pos[c] /\ lo[c] = g.lo[c] /\ hi[c] = g.hi[c]
    BY <1>2
  <2>4. pos[w] = g.pos[n] /\ lo[w] = g.lo[n] /\ hi[w] = g.hi[n]
    BY <1>2
  <2> HIDE DEF at, pos, lo, hi, h
  <2> QED BY <2>1, <2>2, <2>3, <2>4 DEF Swapped
<1> QED BY <1>5, <1>6

\* The links of the cells that stay.
LEMMA RenamedIs ==
  ASSUME NEW t, NEW g, Sound(t, g), NEW n \in InTree(t), NEW w \in Nodes \ InTree(t),
         NEW u \in Trees, Renamed(t, u, n, w),
         NEW h \in Orders, Swapped(g, h, n, w)
  PROVE  /\ InTree(u) = (InTree(t) \ {n}) \cup {w}
         /\ \A c \in InCells(t.parent) :
              /\ As(n, w, c) \in InCells(u.parent) /\ (As(n, w, c) = Sentinel <=> c = Sentinel)
              /\ h.pos[As(n, w, c)] = g.pos[c] /\ h.lo[As(n, w, c)] = g.lo[c]
              /\ h.hi[As(n, w, c)] = g.hi[c]
              /\ \A q \in Sides : u.kid[q][As(n, w, c)] = As(n, w, t.kid[q][c])
              /\ c # Sentinel => u.parent[As(n, w, c)] = As(n, w, t.parent[c])
         /\ \A c, d \in InCells(t.parent) : As(n, w, c) = As(n, w, d) => c = d
         /\ \A d \in InCells(u.parent) : \E c \in InCells(t.parent) : d = As(n, w, c)
<1>1. /\ t \in Trees /\ Shape(t.kid, t.parent, g)
      /\ n \in Nodes /\ w \in Nodes /\ n # w /\ n \in Cells /\ w \in Cells
      /\ n # Sentinel /\ w # Sentinel
      /\ Sentinel \notin Nodes /\ Null \notin Cells /\ Nodes \subseteq Cells
      /\ InTree(t) = InNodes(t.parent)
      /\ InCells(t.parent) \subseteq Cells /\ w \notin InCells(t.parent) /\ n \in InCells(t.parent)
  BY CellFacts DEF Sound, InTree, InNodes, InCells
<1>2. InTree(u) = (InTree(t) \ {n}) \cup {w} /\ InNodes(u.parent) = InTree(u)
  <2>1. \A c \in Nodes : u.parent[c] # Null <=> c = w \/ (c # n /\ t.parent[c] # Null)
    <3>1. t.parent[n] # Null /\ w # Null /\ n # Null
      BY <1>1 DEF InTree
    <3> QED BY <1>1, <3>1 DEF Renamed, As
  <2> QED BY <1>1, <2>1 DEF InTree, InNodes
<1>3. InCells(u.parent) = (InCells(t.parent) \ {n}) \cup {w}
  BY <1>1, <1>2 DEF InCells
<1>4. ASSUME NEW c \in InCells(t.parent)
      PROVE  /\ As(n, w, c) \in InCells(u.parent) /\ (As(n, w, c) = Sentinel <=> c = Sentinel)
             /\ h.pos[As(n, w, c)] = g.pos[c] /\ h.lo[As(n, w, c)] = g.lo[c]
             /\ h.hi[As(n, w, c)] = g.hi[c]
             /\ \A q \in Sides : u.kid[q][As(n, w, c)] = As(n, w, t.kid[q][c])
             /\ c # Sentinel => u.parent[As(n, w, c)] = As(n, w, t.parent[c])
  <2>1. As(n, w, c) \in InCells(u.parent) /\ (As(n, w, c) = Sentinel <=> c = Sentinel)
    BY <1>1, <1>3 DEF As
  <2>2. h.pos[As(n, w, c)] = g.pos[c] /\ h.lo[As(n, w, c)] = g.lo[c] /\ h.hi[As(n, w, c)] = g.hi[c]
    BY <1>1 DEF As, Swapped
  <2>3. \A q \in Sides : u.kid[q][As(n, w, c)] = As(n, w, t.kid[q][c])
    BY DEF Renamed
  <2>4. c # Sentinel => u.parent[As(n, w, c)] = As(n, w, t.parent[c])
    <3>1. CASE c = n
      <4>1. As(n, w, c) = w
        BY <3>1 DEF As
      <4> QED BY <1>1, <3>1, <4>1 DEF Renamed
    <3>2. CASE c # n /\ c # Sentinel
      <4>1. As(n, w, c) = c /\ c # w /\ c \in Nodes
        BY <1>1, <3>2, CellFacts DEF As
      <4> QED BY <1>1, <3>2, <4>1 DEF Renamed
    <3> QED BY <3>1, <3>2
  <2> QED BY <2>1, <2>2, <2>3, <2>4
<1>5. \A c, d \in InCells(t.parent) : As(n, w, c) = As(n, w, d) => c = d
  BY <1>1 DEF As
<1>6. \A d \in InCells(u.parent) : \E c \in InCells(t.parent) : d = As(n, w, c)
  BY <1>1, <1>3 DEF As
<1> QED BY <1>2, <1>4, <1>5, <1>6

\* A node that takes another's place gives a tree of the swapped order.
LEMMA RenamedShape ==
  ASSUME NEW t, NEW g, Sound(t, g), NEW n \in InTree(t), NEW w \in Nodes \ InTree(t),
         NEW u \in Trees, Renamed(t, u, n, w),
         NEW h \in Orders, Swapped(g, h, n, w)
  PROVE  Shape(u.kid, u.parent, h)
<1> DEFINE C == InCells(t.parent)
           D == InCells(u.parent)
           R(c) == As(n, w, c)
<1>1. /\ t \in Trees /\ Shape(t.kid, t.parent, g) /\ Numbered(t.parent, g) /\ g.size \in Nat
      /\ Sentinel \in C /\ n # Sentinel /\ n \in Cells /\ w \in Cells /\ w # Sentinel
  <2>1. n \in Nodes /\ w \in Nodes
    BY DEF InTree
  <2>2. t \in Trees /\ Shape(t.kid, t.parent, g) /\ Numbered(t.parent, g) /\ g.size \in Nat
    BY Zenon DEF Sound, Shape, Numbered, Orders
  <2> QED BY <2>1, <2>2, CellFacts
<1>2. /\ \A c \in C : /\ R(c) \in D /\ (R(c) = Sentinel <=> c = Sentinel)
                      /\ h.pos[R(c)] = g.pos[c] /\ h.lo[R(c)] = g.lo[c] /\ h.hi[R(c)] = g.hi[c]
                      /\ \A q \in Sides : u.kid[q][R(c)] = R(t.kid[q][c])
                      /\ c # Sentinel => u.parent[R(c)] = R(t.parent[c])
      /\ \A c, d \in C : R(c) = R(d) => c = d
      /\ \A d \in D : \E c \in C : d = R(c)
  BY RenamedIs
<1>3. R(Sentinel) = Sentinel /\ R(Null) = Null
  BY <1>1, CellFacts DEF As
<1>4. h.size = g.size /\ \A i \in 1 .. g.size : h.at[i] = R(g.at[i])
  BY DEF Swapped
<1>5. \A c \in C : c # Sentinel => c \in InNodes(t.parent)
  BY CellFacts
<1>6. "left" \in Sides /\ "right" \in Sides
  BY CellFacts
<1> HIDE DEF C, D, R
<1>7. Numbered(u.parent, h)
  <2>1. h.pos[Sentinel] = h.size /\ h.lo[Sentinel] = 1 /\ h.hi[Sentinel] = h.size
    <3>1. g.pos[Sentinel] = g.size /\ g.lo[Sentinel] = 1 /\ g.hi[Sentinel] = g.size
      BY <1>1 DEF Numbered
    <3> QED BY <1>1, <1>2, <1>3, <1>4, <3>1
  <2>2. \A i \in 1 .. h.size : h.at[i] \in D /\ h.pos[h.at[i]] = i
    <3>1. \A i \in 1 .. g.size : g.at[i] \in C /\ g.pos[g.at[i]] = i
      BY <1>1 DEF Numbered, C
    <3> QED BY <1>2, <1>4, <3>1
  <2>3. ASSUME NEW d \in D
        PROVE  /\ 1 <= h.lo[d] /\ h.lo[d] <= h.pos[d] /\ h.pos[d] <= h.hi[d] /\ h.hi[d] <= h.size
               /\ h.at[h.pos[d]] = d
               /\ d # Sentinel => h.hi[d] < h.size
    <3>1. PICK c \in C : d = R(c)
      BY <1>2
    <3>2. /\ 1 <= g.lo[c] /\ g.lo[c] <= g.pos[c] /\ g.pos[c] <= g.hi[c] /\ g.hi[c] <= g.size
          /\ g.at[g.pos[c]] = c
          /\ c # Sentinel => g.hi[c] < g.size
      BY <1>1 DEF Numbered, C
    <3>3. g.pos[c] \in 1 .. g.size
      <4>1. g.lo[c] \in Int /\ g.pos[c] \in Int /\ g.hi[c] \in Int
        BY <1>1, CellFacts, Zenon DEF Numbered, Orders, C
      <4> QED BY <1>1, <3>2, <4>1
    <3>4. h.pos[d] = g.pos[c] /\ h.lo[d] = g.lo[c] /\ h.hi[d] = g.hi[c] /\ (d = Sentinel <=> c = Sentinel)
      BY <1>2, <3>1
    <3>5. h.at[h.pos[d]] = d
      BY <1>4, <3>1, <3>2, <3>3, <3>4
    <3> QED BY <1>4, <3>2, <3>4, <3>5
  <2> QED BY <2>1, <2>2, <2>3 DEF Numbered, D
<1>8. ASSUME NEW d \in D PROVE LeftOf(u.kid, u.parent, h, d)
  <2>1. PICK c \in C : d = R(c)
    BY <1>2
  <2>2. PICK k : t.kid["left"][c] = k
    OBVIOUS
  <2>3. /\ k \in C
        /\ k = Sentinel => g.lo[c] = g.pos[c]
        /\ k # Sentinel => t.parent[k] = c /\ g.lo[k] = g.lo[c] /\ g.hi[k] = g.pos[c] - 1
    BY <1>1, <2>2 DEF Shape, LeftOf, C
  <2>4. u.kid["left"][d] = R(k) /\ R(k) \in D /\ (R(k) = Sentinel <=> k = Sentinel)
    BY <1>2, <1>6, <2>1, <2>2, <2>3
  <2>5. k # Sentinel => u.parent[R(k)] = d
    BY <1>2, <2>1, <2>3
  <2>6. /\ h.pos[d] = g.pos[c] /\ h.lo[d] = g.lo[c] /\ h.hi[d] = g.hi[c]
        /\ h.pos[R(k)] = g.pos[k] /\ h.lo[R(k)] = g.lo[k] /\ h.hi[R(k)] = g.hi[k]
    BY <1>2, <2>1, <2>3
  <2> QED BY <2>3, <2>4, <2>5, <2>6 DEF LeftOf, D
<1>9. ASSUME NEW d \in D, d # Sentinel PROVE RightOf(u.kid, u.parent, h, d)
  <2>1. PICK c \in C : d = R(c)
    BY <1>2
  <2>2. PICK k : t.kid["right"][c] = k
    OBVIOUS
  <2>0. c \in InNodes(t.parent)
    BY <1>2, <1>5, <1>9, <2>1
  <2>3. /\ k \in C
        /\ k = Sentinel => g.hi[c] = g.pos[c]
        /\ k # Sentinel => t.parent[k] = c /\ g.lo[k] = g.pos[c] + 1 /\ g.hi[k] = g.hi[c]
    BY <1>1, <2>0, <2>2 DEF Shape, RightOf, C
  <2>4. u.kid["right"][d] = R(k) /\ R(k) \in D /\ (R(k) = Sentinel <=> k = Sentinel)
    BY <1>2, <1>6, <2>1, <2>2, <2>3
  <2>5. k # Sentinel => u.parent[R(k)] = d
    BY <1>2, <2>1, <2>3
  <2>6. /\ h.pos[d] = g.pos[c] /\ h.lo[d] = g.lo[c] /\ h.hi[d] = g.hi[c]
        /\ h.pos[R(k)] = g.pos[k] /\ h.lo[R(k)] = g.lo[k] /\ h.hi[R(k)] = g.hi[k]
    BY <1>2, <2>1, <2>3
  <2> QED BY <2>3, <2>4, <2>5, <2>6 DEF RightOf, D
<1>10. ASSUME NEW d \in D, d # Sentinel PROVE Below(u.kid, u.parent, d)
  <2>1. PICK c \in C : d = R(c)
    BY <1>2
  <2>2. c # Sentinel /\ c \in InNodes(t.parent)
    BY <1>2, <1>5, <1>10, <2>1
  <2>3. PICK p : t.parent[c] = p
    OBVIOUS
  <2>4. p \in C /\ (t.kid["left"][p] = c \/ (p # Sentinel /\ t.kid["right"][p] = c))
    BY <1>1, <2>2, <2>3 DEF Shape, Below, C
  <2>5. u.parent[d] = R(p) /\ R(p) \in D
    BY <1>2, <2>1, <2>2, <2>3, <2>4
  <2>6. u.kid["left"][R(p)] = d \/ (R(p) # Sentinel /\ u.kid["right"][R(p)] = d)
    BY <1>2, <1>6, <2>1, <2>4
  <2> QED BY <2>5, <2>6 DEF Below, D
<1>11. u.kid["right"][Sentinel] = Null
  <2>1. t.kid["right"][Sentinel] = Null
    BY <1>1 DEF Shape
  <2> QED BY <1>1, <1>2, <1>3, <1>6, <2>1
<1>12. \A d \in InNodes(u.parent) : d \in D /\ d # Sentinel
  BY CellFacts DEF D
<1>13. u.kid \in [Sides -> [Cells -> Cells \cup {Null}]] /\ u.parent \in [Cells -> Cells \cup {Null}]
  BY DEF Trees
<1>14. \A d \in InNodes(u.parent) : RightOf(u.kid, u.parent, h, d) /\ Below(u.kid, u.parent, d)
  BY <1>9, <1>10, <1>12
<1>15. \A d \in D : LeftOf(u.kid, u.parent, h, d)
  BY <1>8
<1> QED BY <1>7, <1>11, <1>13, <1>14, <1>15 DEF Shape, D

\* It also takes the heights and the colour.
LEMMA RenamedEven ==
  ASSUME NEW t, NEW g, Sound(t, g), NEW n \in InTree(t), NEW w \in Nodes \ InTree(t),
         NEW u \in Trees, Renamed(t, u, n, w),
         u.red = IF n \in t.red THEN (t.red \ {n}) \cup {w} ELSE t.red,
         NEW h \in Orders, Swapped(g, h, n, w), NEW b \in [Cells -> Nat]
  PROVE  \E c : \A p \in InCells(t.parent) : \A s :
           Even(t, b, p, s) => Even(u, c, As(n, w, p), s)
<1> DEFINE C == InCells(t.parent)
           R(c) == As(n, w, c)
           c == [b EXCEPT ![w] = b[n]]
<1>1. /\ t \in Trees /\ Shape(t.kid, t.parent, g) /\ t.red \subseteq InTree(t)
      /\ \A m \in InTree(t) : m \in C /\ m \in Cells /\ m # Sentinel
      /\ Sentinel \in C /\ w \in Cells /\ w # Sentinel /\ w \notin C /\ n \in Cells
  <2>1. t \in Trees /\ Shape(t.kid, t.parent, g) /\ t.red \subseteq InTree(t)
    BY DEF Sound
  <2>2. InTree(t) = InNodes(t.parent) /\ w \in Nodes /\ w # Sentinel
    BY CellFacts DEF InTree, InNodes
  <2> QED BY <2>1, <2>2, CellFacts
<1>2. /\ \A y \in C : /\ (R(y) = Sentinel <=> y = Sentinel)
                      /\ \A q \in Sides : u.kid[q][R(y)] = R(t.kid[q][y])
      /\ \A y, z \in C : R(y) = R(z) => y = z
      /\ InTree(u) = (InTree(t) \ {n}) \cup {w}
  BY RenamedIs
<1>3. \A y \in C : c[R(y)] = b[y] /\ (R(y) \in u.red <=> y \in t.red)
  <2> SUFFICES ASSUME NEW y \in C PROVE c[R(y)] = b[y] /\ (R(y) \in u.red <=> y \in t.red)
    OBVIOUS
  <2>1. y \in Cells /\ y # w
    BY <1>1, CellFacts
  <2>2. w \notin t.red
    BY <1>1
  <2>3. CASE y = n
    BY <1>1, <2>1, <2>2, <2>3 DEF As
  <2>4. CASE y # n
    BY <1>1, <2>1, <2>2, <2>4 DEF As
  <2> QED BY <2>3, <2>4
<1>4. \A d \in InTree(u) : \E m \in InTree(t) : d = R(m)
  BY <1>2 DEF As
<1>5. c \in [Cells -> Nat] /\ c[Sentinel] = b[Sentinel]
  <2>1. c \in [Cells -> Nat]
    BY <1>1
  <2> QED BY <1>1, <2>1, CellFacts
<1>6. \A m \in InTree(t), q \in Sides : t.kid[q][m] \in C
  BY <1>1, DownFacts
<1> HIDE DEF C, R, c
<1>7. ASSUME NEW p \in C, NEW s, Even(t, b, p, s) PROVE Even(u, c, R(p), s)
  <2>1. ASSUME NEW d \in InTree(u), NEW q \in Sides
        PROVE  IF d = R(p) /\ q = s THEN c[d] = c[u.kid[q][d]] + Weight(u, u.kid[q][d]) + 1
                                    ELSE c[d] = c[u.kid[q][d]] + Weight(u, u.kid[q][d])
    <3>1. PICK m \in InTree(t) : d = R(m)
      BY <1>4
    <3>2. PICK k : t.kid[q][m] = k
      OBVIOUS
    <3>3. m \in C /\ k \in C
      BY <1>1, <1>6, <3>2
    <3>4. IF m = p /\ q = s THEN b[m] = b[k] + Weight(t, k) + 1
                            ELSE b[m] = b[k] + Weight(t, k)
      BY <1>7, <3>2 DEF Even
    <3>5. d = R(p) <=> m = p
      BY <1>2, <3>1, <3>3
    <3>6. u.kid[q][d] = R(k)
      BY <1>2, <3>1, <3>2, <3>3
    <3>7. Weight(u, R(k)) = Weight(t, k)
      BY <1>3, <3>3 DEF Weight
    <3>8. c[d] = b[m] /\ c[R(k)] = b[k]
      BY <1>3, <3>1, <3>3
    <3> QED BY <3>4, <3>5, <3>6, <3>7, <3>8
  <2>2. c[Sentinel] = 0
    BY <1>5, <1>7 DEF Even
  <2> QED BY <1>5, <2>1, <2>2 DEF Even
<1> QED BY <1>7 DEF C, R

\* A whole tree stays whole, and a short slot stays short.
LEMMA RenamedOK ==
  ASSUME NEW t, NEW g, Sound(t, g), NEW n \in InTree(t), NEW w \in Nodes \ InTree(t),
         NEW u \in Trees, Renamed(t, u, n, w),
         u.red = IF n \in t.red THEN (t.red \ {n}) \cup {w} ELSE t.red,
         NEW b
  PROVE  \E h, c :
           /\ Swapped(g, h, n, w) /\ InTree(u) = (InTree(t) \ {n}) \cup {w}
           /\ Whole(t, g, b) => Whole(u, h, c)
           /\ \A x, p, s : /\ Short(t, g, b, x, p, s) /\ x # n
                           /\ u.parent[x] = As(n, w, p)
                           => Short(u, h, c, x, As(n, w, p), s)
<1> DEFINE C == InCells(t.parent)
           R(c) == As(n, w, c)
<1>1. /\ t \in Trees /\ Shape(t.kid, t.parent, g) /\ t.red \subseteq InTree(t) /\ g \in Orders
      /\ \A m \in InTree(t) : m \in C /\ m \in Cells /\ m # Sentinel
      /\ Sentinel \in C /\ w \in Cells /\ w # Sentinel /\ w \notin C /\ n \in Cells
  <2>1. t \in Trees /\ Shape(t.kid, t.parent, g) /\ t.red \subseteq InTree(t) /\ g \in Orders
    BY DEF Sound, Shape, Numbered
  <2>2. InTree(t) = InNodes(t.parent) /\ w \in Nodes /\ w # Sentinel
    BY CellFacts DEF InTree, InNodes
  <2> QED BY <2>1, <2>2, CellFacts
<1>2. \A i \in 1 .. g.size : g.at[i] \in Cells
  BY <1>1, CellFacts DEF Shape, Numbered
<1>3. PICK h \in Orders : Swapped(g, h, n, w)
  BY <1>1, <1>2, OrderSwaps
<1>4. Shape(u.kid, u.parent, h)
  BY <1>3, RenamedShape
<1>5. /\ InTree(u) = (InTree(t) \ {n}) \cup {w}
      /\ \A y \in C : /\ R(y) \in InCells(u.parent) /\ (R(y) = Sentinel <=> y = Sentinel)
                      /\ \A q \in Sides : u.kid[q][R(y)] = R(t.kid[q][y])
      /\ \A y, z \in C : R(y) = R(z) => y = z
  BY <1>3, RenamedIs
<1>6. Sound(u, h)
  BY <1>1, <1>4, <1>5 DEF Sound
<1>7. \A y \in C : R(y) \in u.red <=> y \in t.red
  <2> SUFFICES ASSUME NEW y \in C PROVE R(y) \in u.red <=> y \in t.red
    OBVIOUS
  <2>1. y # w /\ w \notin t.red
    BY <1>1
  <2>2. CASE y = n
    BY <1>1, <2>1, <2>2 DEF As
  <2>3. CASE y # n
    BY <1>1, <2>1, <2>3 DEF As
  <2> QED BY <2>2, <2>3
<1>8. \A d \in u.red : \E m \in t.red : d = R(m)
  BY DEF As
<1>9. PICK c : b \in [Cells -> Nat] => \A p \in C : \A s : Even(t, b, p, s) => Even(u, c, R(p), s)
  <2>1. CASE b \in [Cells -> Nat]
    <3>1. \E c : \A p \in C : \A s : Even(t, b, p, s) => Even(u, c, R(p), s)
      BY <1>3, <2>1, RenamedEven
    <3> QED BY <3>1
  <2>2. CASE ~(b \in [Cells -> Nat])
    BY <2>2
  <2> QED BY <2>1, <2>2, Zenon
<1>10. \A m \in InTree(t), q \in Sides : t.kid[q][m] \in C
  BY <1>1, DownFacts
<1>11. Root(t) \in C /\ Root(u) = R(Root(t)) /\ R(Sentinel) = Sentinel
  <2>1. Root(t) \in C
    BY <1>1, CellFacts DEF Shape, LeftOf, Root
  <2>2. R(Sentinel) = Sentinel
    BY <1>1, <1>5
  <2>3. u.kid["left"][R(Sentinel)] = R(t.kid["left"][Sentinel])
    BY <1>1, <1>5, CellFacts
  <2> QED BY <2>1, <2>2, <2>3 DEF Root
<1> HIDE DEF C, R
\* Two red nodes in a row are where they were.
<1>12. ASSUME NEW d \in u.red, NEW q \in Sides, u.kid[q][d] \in u.red
       PROVE  \E m \in t.red : d = R(m) /\ u.kid[q][d] = R(t.kid[q][m]) /\ t.kid[q][m] \in t.red
  <2>1. PICK m \in t.red : d = R(m)
    BY <1>8
  <2>2. m \in C /\ t.kid[q][m] \in C
    BY <1>1, <1>10, <2>1
  <2>3. u.kid[q][d] = R(t.kid[q][m])
    BY <1>5, <2>1, <2>2
  <2>4. t.kid[q][m] \in t.red
    BY <1>7, <1>12, <2>2, <2>3
  <2> QED BY <2>1, <2>3, <2>4
<1>13. ASSUME Whole(t, g, b) PROVE Whole(u, h, c)
  <2>1. b \in [Cells -> Nat] /\ Even(t, b, Sentinel, "left") /\ Root(t) \notin t.red /\ NoRedRed(t)
    BY <1>13 DEF Whole, Even
  <2>2. Even(u, c, Sentinel, "left")
    BY <1>1, <1>9, <1>11, <2>1
  <2>3. NoRedRed(u)
    BY <1>12, <2>1, Zenon DEF NoRedRed
  <2>4. Root(u) \notin u.red
    BY <1>7, <1>11, <2>1
  <2> QED BY <1>6, <2>2, <2>3, <2>4 DEF Whole
<1>14. ASSUME NEW x, NEW p, NEW s, Short(t, g, b, x, p, s), x # n, u.parent[x] = R(p)
       PROVE  Short(u, h, c, x, R(p), s)
  <2>1. /\ b \in [Cells -> Nat] /\ Even(t, b, p, s) /\ Slot(t, p, s) /\ t.kid[s][p] = x
        /\ \A m \in t.red, q \in Sides : t.kid[q][m] \in t.red => x \in {m, t.kid[q][m]}
        /\ Root(t) \in t.red => Root(t) = x
    BY <1>14 DEF Short, Even
  <2>2. p \in C /\ s \in Sides /\ (p = Sentinel => s = "left")
    BY <2>1 DEF Slot, C
  <2>3. Even(u, c, R(p), s)
    BY <1>9, <2>1, <2>2
  <2>4. Slot(u, R(p), s)
    BY <1>5, <2>2 DEF Slot
  <2>5. R(x) = x
    BY <1>14 DEF R, As
  <2>6. u.kid[s][R(p)] = x
    BY <1>5, <2>1, <2>2, <2>5
  <2>7. ASSUME NEW d \in u.red, NEW q \in Sides, u.kid[q][d] \in u.red
        PROVE  x \in {d, u.kid[q][d]}
    <3>1. PICK m \in t.red : d = R(m) /\ u.kid[q][d] = R(t.kid[q][m]) /\ t.kid[q][m] \in t.red
      BY <1>12, <2>7
    <3>2. x \in {m, t.kid[q][m]}
      BY <2>1, <3>1
    <3> QED BY <2>5, <3>1, <3>2
  <2>8. Root(u) \in u.red => Root(u) = x
    BY SMTT(30), <1>7, <1>11, <2>1, <2>5
  <2> QED BY <1>6, <1>14, <2>3, <2>4, <2>6, <2>7, <2>8 DEF Short
<1> QED BY <1>3, <1>5, <1>13, <1>14 DEF R

-----------------------------------------------------------------------------
(* The walk *)

\* js_rbtree_branch_min finds the first node of the span.
LEMMA BranchMinIs ==
  ASSUME NEW t, NEW g, Sound(t, g), NEW n \in InCells(t.parent)
  PROVE  /\ BranchMin(t, n) = g.at[g.lo[n]]
         /\ t.kid["left"][BranchMin(t, n)] = Sentinel
<1> DEFINE D == InTree(t) \cup {Sentinel}
           Step(f, m) == IF t.kid["left"][m] = Sentinel THEN m ELSE f[t.kid["left"][m]]
           Made(f) == f = [m \in D |-> Step(f, m)]
           w == [m \in D |-> g.at[g.lo[m]]]
<1>1. t \in Trees /\ Shape(t.kid, t.parent, g) /\ D = InCells(t.parent) /\ g.size \in Nat
  BY DEF Sound, InTree, InCells, InNodes, Shape, Numbered, Orders
<1>2. ASSUME NEW m \in D
      PROVE  LET k == t.kid["left"][m]
             IN  /\ k = Sentinel => g.lo[m] = g.pos[m]
                 /\ k # Sentinel => k \in D /\ g.lo[k] = g.lo[m] /\ g.pos[k] < g.pos[m]
  <2>1. PICK k : t.kid["left"][m] = k
    OBVIOUS
  <2>2. /\ k \in D
        /\ k = Sentinel => g.lo[m] = g.pos[m]
        /\ k # Sentinel => g.lo[k] = g.lo[m] /\ g.hi[k] = g.pos[m] - 1
    BY <1>1, <2>1 DEF Shape, LeftOf
  <2>3. g.pos[k] <= g.hi[k] /\ g.pos[k] \in Int /\ g.hi[k] \in Int /\ g.pos[m] \in Int
    BY <1>1, <2>2, CellFacts DEF Shape, Numbered, Orders
  <2> QED BY <2>1, <2>2, <2>3
<1>3. \A m \in D : /\ g.at[g.pos[m]] = m /\ g.lo[m] <= g.pos[m] /\ 1 <= g.lo[m] /\ g.pos[m] <= g.size
                   /\ g.lo[m] \in Int /\ g.pos[m] \in Int
  BY <1>1, CellFacts DEF Shape, Numbered, Orders
<1> HIDE DEF D
<1>4. \E f : Made(f)
  <2>1. \A m \in D : w[m] = Step(w, m)
    BY <1>2, <1>3
  <2>2. Made(w)
    <3> HIDE DEF Step
    <3>1. w = [m \in D |-> w[m]]
      OBVIOUS
    <3> HIDE DEF w
    <3> QED BY <2>1, <3>1
  <2> QED BY <2>2, Zenon
<1>5. PICK f : f = CHOOSE x : Made(x)
  OBVIOUS
<1>6. Made(f)
  <2> HIDE DEF Made
  <2> QED BY <1>4, <1>5
<1>7. \A m \in D : f[m] = IF t.kid["left"][m] = Sentinel THEN m ELSE f[t.kid["left"][m]]
  <2>1. \A m \in D : [x \in D |-> Step(f, x)][m] = Step(f, m)
    <3> HIDE DEF Step
    <3> QED BY Zenon
  <2>2. \A m \in D : f[m] = Step(f, m)
    <3> HIDE DEF Step
    <3> QED BY <1>6, <2>1, Zenon
  <2> QED BY <2>2
<1> DEFINE Right(m) == f[m] = g.at[g.lo[m]] /\ t.kid["left"][f[m]] = Sentinel
           P == {k \in 0 .. g.size : \A m \in D : g.pos[m] <= k => Right(m)}
<1>8. 0 \in P
  BY <1>1, <1>3
<1>9. ASSUME NEW k \in P, k < g.size PROVE k + 1 \in P
  <2>1. k + 1 \in 0 .. g.size /\ k \in Int
    BY <1>1, <1>9
  <2>2. ASSUME NEW m \in D, g.pos[m] <= k + 1 PROVE Right(m)
    <3>1. CASE t.kid["left"][m] = Sentinel
      BY <1>2, <1>3, <1>7, <3>1
    <3>2. CASE t.kid["left"][m] # Sentinel
      <4>1. PICK y \in D : t.kid["left"][m] = y
        BY <1>2, <3>2
      <4>2. g.lo[y] = g.lo[m] /\ g.pos[y] < g.pos[m]
        BY <1>2, <3>2, <4>1
      <4>3. g.pos[y] <= k
        BY <1>3, <2>1, <2>2, <4>2
      <4>4. Right(y)
        BY <1>9, <4>3
      <4> QED BY <1>7, <3>2, <4>1, <4>2, <4>4
    <3> QED BY <3>1, <3>2
  <2> QED BY <2>1, <2>2
<1>10. g.size \in P
  <2>1. P \in SUBSET (0 .. g.size)
    OBVIOUS
  <2> HIDE DEF P
  <2> QED BY <1>1, <1>8, <1>9, <2>1, CountUp
<1>11. n \in D /\ Right(n)
  BY SMTT(30), <1>1, <1>3, <1>10
<1> QED BY <1>5, <1>11 DEF BranchMin, D

\* The climb ends at the position behind the span.
LEMMA ClimbIs ==
  ASSUME NEW t, NEW g, Sound(t, g), NEW n \in InTree(t)
  PROVE  Climb(t, n) = g.at[g.hi[n] + 1]
<1> DEFINE D == InTree(t)
           Step(f, m) == IF t.kid["left"][t.parent[m]] = m THEN t.parent[m] ELSE f[t.parent[m]]
           Made(f) == f = [m \in D |-> Step(f, m)]
           w == [m \in D |-> g.at[g.hi[m] + 1]]
<1>1. t \in Trees /\ Shape(t.kid, t.parent, g) /\ D = InNodes(t.parent) /\ g.size \in Nat
      /\ \A m \in D : m \in InCells(t.parent) /\ m # Sentinel
  BY CellFacts DEF Sound, InTree, InNodes, Shape, Numbered, Orders
<1>2. ASSUME NEW m \in D
      PROVE  LET p == t.parent[m]
             IN  /\ t.kid["left"][p] = m => g.at[g.hi[m] + 1] = p
                 /\ t.kid["left"][p] # m =>
                      /\ p \in D /\ g.hi[p] = g.hi[m]
                      /\ g.hi[m] - g.lo[m] < g.hi[p] - g.lo[p]
  <2>1. PICK p : t.parent[m] = p
    OBVIOUS
  <2>2. p \in InCells(t.parent) /\ (t.kid["left"][p] = m \/ (p # Sentinel /\ t.kid["right"][p] = m))
    BY <1>1, <2>1 DEF Shape, Below
  <2>3. g.hi[m] - g.lo[m] < g.hi[p] - g.lo[p] /\ m # Sentinel
    BY <1>1, <2>1, Nested
  <2>4. g.at[g.pos[p]] = p /\ g.pos[p] \in Int
    BY <1>1, <2>2, CellFacts DEF Shape, Numbered, Orders
  <2>5. ASSUME t.kid["left"][p] = m PROVE g.at[g.hi[m] + 1] = p
    <3>1. g.hi[m] = g.pos[p] - 1
      BY <1>1, <2>2, <2>3, <2>5 DEF Shape, LeftOf
    <3> QED BY <2>4, <3>1
  <2>6. ASSUME t.kid["left"][p] # m PROVE p \in D /\ g.hi[p] = g.hi[m]
    <3>1. p \in D /\ t.kid["right"][p] = m
      BY <1>1, <2>2, <2>6, CellFacts
    <3> QED BY <1>1, <2>3, <3>1 DEF Shape, RightOf
  <2> QED BY <2>1, <2>3, <2>5, <2>6
<1>3. \A m \in D : /\ g.lo[m] \in Int /\ g.hi[m] \in Int /\ 1 <= g.lo[m] /\ g.hi[m] < g.size
                   /\ g.lo[m] <= g.hi[m]
  <2> SUFFICES ASSUME NEW m \in D
               PROVE  /\ g.lo[m] \in Int /\ g.hi[m] \in Int /\ 1 <= g.lo[m] /\ g.hi[m] < g.size
                      /\ g.lo[m] <= g.hi[m]
    OBVIOUS
  <2>1. m \in InCells(t.parent) /\ m \in Cells /\ m # Sentinel
    BY <1>1, CellFacts
  <2>2. g.lo[m] \in Int /\ g.hi[m] \in Int /\ g.pos[m] \in Int
    BY <1>1, <2>1 DEF Shape, Numbered, Orders
  <2>3. 1 <= g.lo[m] /\ g.hi[m] < g.size /\ g.lo[m] <= g.pos[m] /\ g.pos[m] <= g.hi[m]
    BY <1>1, <2>1 DEF Shape, Numbered
  <2> QED BY <2>2, <2>3
<1> HIDE DEF D
<1>4. \E f : Made(f)
  <2>1. \A m \in D : w[m] = Step(w, m)
    <3> SUFFICES ASSUME NEW m \in D PROVE w[m] = Step(w, m)
      OBVIOUS
    <3>1. PICK p : t.parent[m] = p
      OBVIOUS
    <3>2. CASE t.kid["left"][p] = m
      BY <1>2, <3>1, <3>2
    <3>3. CASE t.kid["left"][p] # m
      <4>1. p \in D /\ g.hi[p] = g.hi[m]
        BY <1>2, <3>1, <3>3
      <4> QED BY <3>1, <3>3, <4>1
    <3> QED BY <3>2, <3>3
  <2>2. Made(w)
    <3> HIDE DEF Step
    <3>1. w = [m \in D |-> w[m]]
      OBVIOUS
    <3> HIDE DEF w
    <3> QED BY <2>1, <3>1
  <2> QED BY <2>2, Zenon
<1>5. PICK f : f = CHOOSE x : Made(x)
  OBVIOUS
<1>6. Made(f)
  <2> HIDE DEF Made
  <2> QED BY <1>4, <1>5
<1>7. \A m \in D : f[m] = IF t.kid["left"][t.parent[m]] = m THEN t.parent[m] ELSE f[t.parent[m]]
  <2>1. \A m \in D : [x \in D |-> Step(f, x)][m] = Step(f, m)
    <3> HIDE DEF Step
    <3> QED BY Zenon
  <2>2. \A m \in D : f[m] = Step(f, m)
    <3> HIDE DEF Step
    <3> QED BY <1>6, <2>1, Zenon
  <2> QED BY <2>2
<1> DEFINE P == {k \in 0 .. g.size :
                   \A m \in D : g.size - (g.hi[m] - g.lo[m]) <= k => f[m] = g.at[g.hi[m] + 1]}
<1>8. 0 \in P
  <2>1. \A m \in D : ~(g.size - (g.hi[m] - g.lo[m]) <= 0)
    BY <1>1, <1>3
  <2> QED BY <1>1, <2>1
<1>9. ASSUME NEW k \in P, k < g.size PROVE k + 1 \in P
  <2>1. k + 1 \in 0 .. g.size /\ k \in Int
    BY <1>1, <1>9
  <2>2. ASSUME NEW m \in D, g.size - (g.hi[m] - g.lo[m]) <= k + 1 PROVE f[m] = g.at[g.hi[m] + 1]
    <3>0. PICK p : t.parent[m] = p
      OBVIOUS
    <3>1. CASE t.kid["left"][p] = m
      BY <1>2, <1>7, <3>0, <3>1
    <3>2. CASE t.kid["left"][p] # m
      <4>1. p \in D /\ g.hi[p] = g.hi[m] /\ g.hi[m] - g.lo[m] < g.hi[p] - g.lo[p]
        BY <1>2, <3>0, <3>2
      <4>2. /\ g.lo[m] \in Int /\ g.hi[m] \in Int /\ g.lo[p] \in Int /\ g.hi[p] \in Int
        BY <1>3, <4>1
      <4>3. g.size - (g.hi[p] - g.lo[p]) <= k
        BY <1>1, <2>1, <2>2, <4>1, <4>2
      <4>4. f[p] = g.at[g.hi[p] + 1]
        BY <1>9, <4>1, <4>3
      <4> QED BY <1>7, <3>0, <3>2, <4>1, <4>4
    <3> QED BY <3>1, <3>2
  <2> QED BY <2>1, <2>2
<1>10. g.size \in P
  <2>1. P \in SUBSET (0 .. g.size)
    OBVIOUS
  <2> HIDE DEF P
  <2> QED BY <1>1, <1>8, <1>9, <2>1, CountUp
<1>11. n \in D /\ f[n] = g.at[g.hi[n] + 1]
  <2>1. n \in D
    BY DEF D
  <2>2. g.size - (g.hi[n] - g.lo[n]) <= g.size
    BY <1>1, <1>3, <2>1
  <2> QED BY <1>10, <2>1, <2>2
<1> QED BY <1>5, <1>11 DEF Climb, D

\* js_rbtree_node_successor is the next position of the order.
LEMMA SuccessorIs ==
  ASSUME NEW t, NEW g, Sound(t, g)
  PROVE  /\ First(t) = g.at[1]
         /\ \A n \in InTree(t) : Successor(t, n) = g.at[g.pos[n] + 1]
<1>1. t \in Trees /\ Shape(t.kid, t.parent, g)
  BY DEF Sound
<1>2. First(t) = g.at[1]
  <2>1. Sentinel \in InCells(t.parent) /\ g.lo[Sentinel] = 1
    BY <1>1, CellFacts DEF Shape, Numbered
  <2> QED BY <2>1, BranchMinIs DEF First
<1>3. ASSUME NEW n \in InTree(t) PROVE Successor(t, n) = g.at[g.pos[n] + 1]
  <2>1. PICK k : t.kid["right"][n] = k
    OBVIOUS
  <2>2. /\ k \in InCells(t.parent)
        /\ k = Sentinel => g.hi[n] = g.pos[n]
        /\ k # Sentinel => g.lo[k] = g.pos[n] + 1
    BY <1>1, <2>1 DEF Shape, RightOf, InTree, InNodes
  <2>3. CASE k = Sentinel
    BY <2>1, <2>2, <2>3, ClimbIs DEF Successor
  <2>4. CASE k # Sentinel
    BY <2>1, <2>2, <2>4, BranchMinIs DEF Successor
  <2> QED BY <2>3, <2>4
<1> QED BY <1>2, <1>3

-----------------------------------------------------------------------------
(* js_rbtree_delete *)

\* What leaves the tree has no links.
LEMMA UnlinkIs ==
  ASSUME NEW t \in Trees, NEW n \in Nodes, NEW u, Unlink(t, n) = u
  PROVE  /\ u \in Trees /\ u.red = t.red \ {n}
         /\ \A q \in Sides, c \in Cells : u.kid[q][c] = IF c = n THEN Null ELSE t.kid[q][c]
         /\ \A c \in Cells : u.parent[c] = IF c = n THEN Null ELSE t.parent[c]
<1>1. /\ u = [kid    |-> [t.kid EXCEPT !["left"][n] = Null, !["right"][n] = Null],
              parent |-> [t.parent EXCEPT ![n] = Null],
              red    |-> t.red \ {n}]
  BY Zenon DEF Unlink, Trees
<1>2. n \in Cells /\ t.kid \in [Sides -> [Cells -> Cells \cup {Null}]]
      /\ t.parent \in [Cells -> Cells \cup {Null}] /\ t.red \subseteq Nodes
  BY CellFacts DEF Trees
<1>3. [t.kid EXCEPT !["left"][n] = Null, !["right"][n] = Null]
        = [q \in Sides |-> [t.kid[q] EXCEPT ![n] = Null]]
  BY <1>2, CellFacts
<1>4. u.kid = [q \in Sides |-> [t.kid[q] EXCEPT ![n] = Null]]
      /\ u.parent = [t.parent EXCEPT ![n] = Null] /\ u.red = t.red \ {n}
      /\ u = [kid |-> u.kid, parent |-> u.parent, red |-> u.red]
  BY <1>1, <1>3
<1>5. u.kid \in [Sides -> [Cells -> Cells \cup {Null}]]
      /\ u.parent \in [Cells -> Cells \cup {Null}] /\ u.red \in SUBSET Nodes
  BY <1>2, <1>4
<1>6. u \in Trees
  BY <1>4, <1>5, Zenon DEF Trees
<1> QED BY <1>2, <1>4, <1>6

\* js_rbtree_delete of a node with at most one child takes it out.
LEMMA SpliceIs ==
  ASSUME NEW t, NEW g, Sound(t, g), NEW n \in InTree(t), NEW side \in Sides,
         NEW x, t.kid[side][n] = x,
         NEW u, Relink(t, x, n) = u, NEW v, Unlink(u, n) = v
  PROVE  v \in Trees /\ Spliced(t, v, n, x) /\ v.red = t.red \ {n}
<1>1. t \in Trees /\ Shape(t.kid, t.parent, g)
  BY DEF Sound
<1>2. n \in Nodes /\ n \in Cells /\ t.parent[n] \in Cells /\ t.parent[n] # n
  BY <1>1, UpFacts
<1>3. x \in Cells /\ x # n
  <2>1. n # Sentinel
    BY <1>1, UpFacts
  <2> QED BY <1>1, <2>1, DownFacts
<1>4. /\ u \in Trees
      /\ u.red = t.red
      /\ \A q \in Sides, c \in Cells :
           u.kid[q][c] = IF c = t.parent[n] /\ q = SideOf(t, n) THEN x ELSE t.kid[q][c]
      /\ \A c \in Cells : u.parent[c] = IF c = x THEN t.parent[n] ELSE t.parent[c]
  BY <1>1, <1>2, <1>3, RelinkIs
<1>5. /\ v \in Trees /\ v.red = u.red \ {n}
      /\ \A q \in Sides, c \in Cells : v.kid[q][c] = IF c = n THEN Null ELSE u.kid[q][c]
      /\ \A c \in Cells : v.parent[c] = IF c = n THEN Null ELSE u.parent[c]
  BY <1>2, <1>4, UnlinkIs
<1>6. Spliced(t, v, n, x)
  BY <1>4, <1>5 DEF Spliced
<1> QED BY <1>4, <1>5, <1>6

\* The node after one with two children.
LEMMA SubstIs ==
  ASSUME NEW t, NEW g, Sound(t, g), NEW n \in InTree(t), NEW r, t.kid["right"][n] = r,
         r # Sentinel, NEW w, BranchMin(t, r) = w
  PROVE  /\ w \in InTree(t) /\ w # n /\ g.pos[w] = g.pos[n] + 1 /\ g.at[g.pos[w]] = w
         /\ t.kid["left"][w] = Sentinel /\ t.kid["right"][w] # n
         /\ t.kid["left"][n] # w
<1>1. t \in Trees /\ Shape(t.kid, t.parent, g) /\ n \in InNodes(t.parent) /\ n # Sentinel
      /\ n \in InCells(t.parent)
  <2>1. n \in InNodes(t.parent)
    BY DEF InTree, InNodes
  <2> QED BY <2>1, CellFacts DEF Sound
<1>2. r \in InCells(t.parent) /\ t.parent[r] = n /\ g.lo[r] = g.pos[n] + 1 /\ g.hi[r] = g.hi[n]
  BY <1>1 DEF Shape, RightOf
<1>3. w = g.at[g.lo[r]] /\ t.kid["left"][w] = Sentinel
  BY <1>2, BranchMinIs
<1>4. /\ g.lo[r] \in Int /\ g.pos[n] \in Int /\ g.size \in Nat
      /\ 1 <= g.lo[r] /\ g.lo[r] < g.size /\ g.lo[r] \in 1 .. g.size
  <2>1. r \in Cells /\ n \in Cells
    BY <1>1, <1>2, CellFacts
  <2>2. g.lo[r] \in Int /\ g.pos[r] \in Int /\ g.hi[r] \in Int /\ g.pos[n] \in Int /\ g.size \in Nat
    BY <1>1, <2>1 DEF Shape, Numbered, Orders
  <2>3. 1 <= g.lo[r] /\ g.lo[r] <= g.pos[r] /\ g.pos[r] <= g.hi[r] /\ g.hi[r] < g.size
    BY <1>1, <1>2 DEF Shape, Numbered
  <2> QED BY <2>2, <2>3
<1>5. w \in InCells(t.parent) /\ g.pos[w] = g.lo[r] /\ g.at[g.pos[w]] = w
  BY <1>1, <1>3, <1>4 DEF Shape, Numbered
<1>6. w # Sentinel
  <2>1. g.pos[Sentinel] = g.size
    BY <1>1 DEF Shape, Numbered
  <2> QED BY <1>4, <1>5, <2>1
<1>7. w \in InTree(t) /\ w \in InNodes(t.parent)
  BY <1>5, <1>6, CellFacts DEF InTree, InNodes
<1>8. \A c \in InCells(t.parent) : /\ g.lo[c] \in Int /\ g.pos[c] \in Int /\ g.hi[c] \in Int
                                   /\ g.lo[c] <= g.pos[c] /\ g.pos[c] <= g.hi[c]
  BY <1>1, CellFacts DEF Shape, Numbered, Orders
<1>9. t.kid["right"][w] # n
  <2> SUFFICES ASSUME t.kid["right"][w] = n PROVE FALSE
    OBVIOUS
  <2>1. g.lo[n] = g.pos[w] + 1
    BY <1>1, <1>7 DEF Shape, RightOf
  <2> QED BY <1>1, <1>2, <1>5, <1>8, <2>1
<1>10. t.kid["left"][n] # w
  <2> SUFFICES ASSUME t.kid["left"][n] = w PROVE FALSE
    OBVIOUS
  <2>1. g.hi[w] = g.pos[n] - 1
    BY <1>1, <1>6 DEF Shape, LeftOf
  <2> QED BY <1>1, <1>2, <1>5, <1>8, <2>1
<1> QED BY <1>2, <1>3, <1>4, <1>5, <1>7, <1>9, <1>10

\* What Replace does, link by link.
LEMMA ReplaceIs ==
  ASSUME NEW t \in Trees, NEW n \in Nodes, NEW w \in Nodes, n # w,
         NEW l \in Cells, t.kid["left"][n] = l, NEW r \in Cells, t.kid["right"][n] = r,
         NEW p \in Cells, t.parent[n] = p, l # n, r # n, p # w,
         NEW u, Replace(t, w, n) = u
  PROVE  /\ u \in Trees
         /\ u.red = IF n \in t.red THEN t.red \cup {w} ELSE t.red \ {w}
         /\ \A q \in Sides, c \in Cells :
              u.kid[q][c] = IF c = p /\ q = SideOf(t, n) THEN w
                            ELSE IF c = w THEN t.kid[q][n] ELSE t.kid[q][c]
         /\ \A c \in Cells : u.parent[c] = IF c = w THEN p
                                           ELSE IF c \in {l, r} THEN w ELSE t.parent[c]
<1>1. n \in Cells /\ w \in Cells /\ Sides = {"left", "right"} /\ "left" # "right"
      /\ t.kid \in [Sides -> [Cells -> Cells \cup {Null}]]
      /\ t.parent \in [Cells -> Cells \cup {Null}] /\ t.red \subseteq Nodes
  BY CellFacts DEF Trees
<1>2. PICK a : a = [t EXCEPT !.kid["left"][w] = l, !.kid["right"][w] = r,
                             !.parent[l] = w, !.parent[r] = w]
  OBVIOUS
<1>3. /\ a = [kid    |-> [t.kid EXCEPT !["left"][w] = l, !["right"][w] = r],
              parent |-> [t.parent EXCEPT ![l] = w, ![r] = w],
              red    |-> t.red]
  BY <1>2, Zenon DEF Trees
<1>4. [t.kid EXCEPT !["left"][w] = l, !["right"][w] = r]
        = [q \in Sides |-> [t.kid[q] EXCEPT ![w] = t.kid[q][n]]]
  BY <1>1
<1>5. /\ a.kid = [q \in Sides |-> [t.kid[q] EXCEPT ![w] = t.kid[q][n]]]
      /\ a.parent = [t.parent EXCEPT ![l] = w, ![r] = w]
      /\ a.red = t.red
      /\ a = [kid |-> a.kid, parent |-> a.parent, red |-> a.red]
  BY <1>3, <1>4
<1>6. /\ a.kid \in [Sides -> [Cells -> Cells \cup {Null}]]
      /\ a.parent \in [Cells -> Cells \cup {Null}] /\ a.red \in SUBSET Nodes
  <2>1. \A q \in Sides : t.kid[q] \in [Cells -> Cells \cup {Null}] /\ t.kid[q][n] \in Cells \cup {Null}
    BY <1>1, Zenon
  <2> QED BY <1>1, <1>5, <2>1
<1>7. a \in Trees
  BY <1>5, <1>6, Zenon DEF Trees
<1>8. /\ \A q \in Sides, c \in Cells : a.kid[q][c] = IF c = w THEN t.kid[q][n] ELSE t.kid[q][c]
      /\ \A c \in Cells : a.parent[c] = IF c \in {l, r} THEN w ELSE t.parent[c]
  BY <1>1, <1>5
<1>9. PICK b : ColourAs(a, w, n) = b
  OBVIOUS
<1>10. /\ b \in Trees /\ b.kid = a.kid /\ b.parent = a.parent
       /\ b.red = IF n \in t.red THEN t.red \cup {w} ELSE t.red \ {w}
  <2>1. CASE n \in t.red
    <3>1. Redden(a, w) = b
      BY <1>5, <1>9, <2>1 DEF ColourAs
    <3>2. Recoloured(a, b, a.red \cup {w})
      BY <1>7, <3>1, Paint, Zenon
    <3> QED BY <1>5, <2>1, <3>2 DEF Recoloured
  <2>2. CASE n \notin t.red
    <3>1. Blacken(a, {w}) = b
      BY <1>5, <1>9, <2>2 DEF ColourAs
    <3>2. Recoloured(a, b, a.red \ {w})
      BY <1>7, <3>1, Paint, Zenon
    <3> QED BY <1>5, <2>2, <3>2 DEF Recoloured
  <2> QED BY <2>1, <2>2
<1>11. b.parent[n] = p /\ SideOf(b, n) = SideOf(t, n)
  <2>1. b.parent[n] = p
    BY <1>1, <1>8, <1>10
  <2>2. b.kid["left"][p] = t.kid["left"][p]
    BY <1>1, <1>8, <1>10
  <2> QED BY <2>1, <2>2 DEF SideOf
<1>12. Relink(b, w, n) = u
  BY <1>2, <1>9 DEF Replace
<1>13. /\ u \in Trees
       /\ u.red = b.red
       /\ \A q \in Sides, c \in Cells :
            u.kid[q][c] = IF c = b.parent[n] /\ q = SideOf(b, n) THEN w ELSE b.kid[q][c]
       /\ \A c \in Cells : u.parent[c] = IF c = w THEN b.parent[n] ELSE b.parent[c]
  <2>1. b.parent[n] \in Cells
    BY <1>11
  <2>2. b \in Trees /\ n \in Cells /\ w \in Cells
    BY <1>1, <1>10
  <2> QED BY <1>12, <2>1, <2>2, RelinkIs
<1> QED BY <1>8, <1>10, <1>11, <1>13

\* The links once w, which has left its place, is where n was: w is taken off
\* the tree, and then takes the name of n.
LEMMA TakesPlace ==
  ASSUME NEW t, NEW g, Sound(t, g), NEW n \in InTree(t), NEW w \in InTree(t), w # n,
         t.kid["left"][w] = Sentinel, NEW x, t.kid["right"][w] = x, x # n,
         NEW l, t.kid["left"][n] = l, l # Sentinel, l # w,
         t.kid["right"][n] # Sentinel,
         NEW r0, Relink(t, x, w) = r0, NEW t1, Unlink(r0, w) = t1,
         NEW d, Replace(r0, w, n) = d, NEW v, Unlink(d, n) = v
  PROVE  /\ t1 \in Trees /\ Spliced(t, t1, w, x) /\ t1.red = t.red \ {w}
         /\ v \in Trees /\ Renamed(t1, v, n, w)
         /\ v.red = IF n \in t1.red THEN (t1.red \ {n}) \cup {w} ELSE t1.red
         /\ v.parent[x] = As(n, w, t.parent[w])
<1> DEFINE wp == t.parent[w]
           ws == SideOf(t, w)
           p  == t.parent[n]
           s  == SideOf(t, n)
           r  == t.kid["right"][n]
           rr == r0.kid["right"][n]
<1>1. t \in Trees /\ Shape(t.kid, t.parent, g)
  BY DEF Sound
<1>2. /\ n \in Nodes /\ n \in Cells /\ n # Sentinel /\ p \in InCells(t.parent) /\ p \in Cells /\ p # n
      /\ s \in Sides /\ t.kid[s][p] = n
  BY <1>1, UpFacts
<1>3. /\ w \in Nodes /\ w \in Cells /\ w # Sentinel /\ wp \in InCells(t.parent) /\ wp \in Cells /\ wp # w
      /\ ws \in Sides /\ t.kid[ws][wp] = w
  BY <1>1, UpFacts
<1>4. Sides = {"left", "right"} /\ "left" # "right"
  BY CellFacts
<1>5. \A m \in InTree(t), q \in Sides :
        /\ t.kid[q][m] \in Cells
        /\ t.kid[q][m] # Sentinel =>
             /\ t.kid[q][m] \in InTree(t) /\ t.parent[t.kid[q][m]] = m
             /\ SideOf(t, t.kid[q][m]) = q
             /\ t.kid[q][m] # m /\ t.kid[q][m] # t.parent[m]
  BY <1>1, KidFacts
<1>6. /\ x \in Cells /\ x # w
      /\ x # Sentinel => x \in InTree(t) /\ t.parent[x] = w
  BY <1>3, <1>4, <1>5
<1>7. l \in Cells /\ l \in InTree(t) /\ t.parent[l] = n /\ l # n /\ SideOf(t, l) = "left"
  BY <1>4, <1>5
<1>8. r \in Cells /\ r \in InTree(t) /\ t.parent[r] = n /\ r # n /\ SideOf(t, r) = "right" /\ r # Sentinel
  BY <1>4, <1>5
<1>9. p # w
  <2> SUFFICES ASSUME p = w PROVE FALSE
    OBVIOUS
  <2>1. t.kid["left"][w] # n /\ t.kid["right"][w] # n
    BY <1>2
  <2> QED BY <1>2, <1>4, <2>1
<1>10. l # x
  <2> SUFFICES ASSUME l = x PROVE FALSE
    OBVIOUS
  <2>1. t.parent[x] = w
    BY <1>6
  <2> QED BY <1>7, <2>1
<1>11. r # x
  <2> SUFFICES ASSUME r = x PROVE FALSE
    OBVIOUS
  <2>1. t.parent[x] = w
    BY <1>6, <1>8
  <2> QED BY <1>8, <2>1
<1>12. wp = n => ws = "right" /\ r = w
  <2> SUFFICES ASSUME wp = n PROVE ws = "right" /\ r = w
    OBVIOUS
  <2>1. ws # "left"
    BY <1>3
  <2> QED BY <1>3, <1>4, <2>1
<1>13. \A m \in InCells(t.parent), q \in Sides : t.kid[q][m] = n => m = p /\ q = s
  <2> SUFFICES ASSUME NEW m \in InCells(t.parent), NEW q \in Sides, t.kid[q][m] = n
               PROVE  m = p /\ q = s
    OBVIOUS
  <2>1. CASE m # Sentinel
    <3>1. m \in InTree(t)
      BY <2>1, CellFacts DEF InTree, InNodes
    <3> QED BY <1>1, <3>1, OneSlot
  <2>2. CASE m = Sentinel
    <3>1. q = "left"
      <4>1. t.kid["right"][Sentinel] = Null
        BY <1>1 DEF Shape
      <4> QED BY <1>2, <1>4, <2>2, <4>1, CellFacts
    <3>2. t.parent[n] = Sentinel
      BY <1>1, <1>2, <2>2, <3>1 DEF Shape, LeftOf
    <3> QED BY <2>2, <3>1, <3>2, CellFacts DEF SideOf
  <2> QED BY <2>1, <2>2
<1>14. t1 \in Trees /\ Spliced(t, t1, w, x) /\ t1.red = t.red \ {w}
  BY <1>4, SpliceIs
<1> HIDE DEF wp, ws, p, s, r
<1>15. /\ r0 \in Trees
       /\ r0.red = t.red
       /\ \A q \in Sides, c \in Cells :
            r0.kid[q][c] = IF c = wp /\ q = ws THEN x ELSE t.kid[q][c]
       /\ \A c \in Cells : r0.parent[c] = IF c = x THEN wp ELSE t.parent[c]
  <2>1. t.parent[w] \in Cells /\ x \in Cells /\ w \in Cells
    BY <1>3, <1>6 DEF wp
  <2> QED BY <1>1, <2>1, RelinkIs DEF wp, ws
<1>16. /\ r0.kid["left"][n] = l
       /\ rr \in Cells /\ rr # n
       /\ rr = IF wp = n THEN x ELSE r
  <2>1. r0.kid["left"][n] = l
    BY <1>2, <1>4, <1>12, <1>15
  <2>2. rr = IF wp = n THEN x ELSE r
    BY <1>2, <1>4, <1>12, <1>15 DEF r
  <2> QED BY <1>6, <1>8, <2>1, <2>2
<1>17. r0.parent[n] = p /\ SideOf(r0, n) = s
  <2>1. r0.parent[n] = p
    BY <1>2, <1>15 DEF p
  <2>2. t.kid["left"][p] = n <=> r0.kid["left"][p] = n
    <3>1. p = wp /\ ws = "left" => t.kid["left"][p] # n
      BY <1>3
    <3> QED BY <1>2, <1>4, <1>15, <3>1
  <2> QED BY <2>1, <2>2 DEF SideOf, s, p
<1>18. PICK k : rr = k
  OBVIOUS
<1>19. /\ d \in Trees
       /\ d.red = IF n \in r0.red THEN r0.red \cup {w} ELSE r0.red \ {w}
       /\ \A q \in Sides, c \in Cells :
            d.kid[q][c] = IF c = p /\ q = s THEN w
                          ELSE IF c = w THEN r0.kid[q][n] ELSE r0.kid[q][c]
       /\ \A c \in Cells : d.parent[c] = IF c = w THEN p
                                         ELSE IF c \in {l, k} THEN w ELSE r0.parent[c]
  <2>1. r0.kid["right"][n] = k /\ k \in Cells /\ k # n
    BY <1>16, <1>18
  <2>2. /\ r0 \in Trees /\ n \in Nodes /\ w \in Nodes /\ n # w /\ l \in Cells /\ l # n /\ p \in Cells /\ p # w
        /\ r0.kid["left"][n] = l /\ r0.parent[n] = p
    BY <1>2, <1>3, <1>7, <1>9, <1>15, <1>16, <1>17
  <2>3. SideOf(r0, n) = s
    BY <1>17
  <2>4. /\ d \in Trees
        /\ d.red = IF n \in r0.red THEN r0.red \cup {w} ELSE r0.red \ {w}
        /\ \A q \in Sides, c \in Cells :
             d.kid[q][c] = IF c = p /\ q = SideOf(r0, n) THEN w
                           ELSE IF c = w THEN r0.kid[q][n] ELSE r0.kid[q][c]
        /\ \A c \in Cells : d.parent[c] = IF c = w THEN p
                                          ELSE IF c \in {l, k} THEN w ELSE r0.parent[c]
    <3>1. Replace(r0, w, n) = d
      OBVIOUS
    <3> QED BY ONLY SMTT(30), <2>1, <2>2, <3>1, ReplaceIs
  <2> QED BY <2>3, <2>4
<1>20. /\ v \in Trees /\ v.red = d.red \ {n}
       /\ \A q \in Sides, c \in Cells : v.kid[q][c] = IF c = n THEN Null ELSE d.kid[q][c]
       /\ \A c \in Cells : v.parent[c] = IF c = n THEN Null ELSE d.parent[c]
  BY <1>2, <1>19, UnlinkIs
<1>21. /\ \A q \in Sides, c \in Cells : t1.kid[q][c] = IF c = w THEN Null ELSE r0.kid[q][c]
       /\ \A c \in Cells : t1.parent[c] = IF c = w THEN Null ELSE r0.parent[c]
  BY <1>3, <1>15, UnlinkIs
<1>22. k = IF wp = n THEN x ELSE r
  BY <1>16, <1>18
<1>23. v.red = IF n \in t1.red THEN (t1.red \ {n}) \cup {w} ELSE t1.red
  BY <1>14, <1>15, <1>19, <1>20
<1>24. InCells(t1.parent) = InCells(t.parent) \ {w}
  <2>1. \A c \in Nodes : t1.parent[c] # Null <=> c # w /\ t.parent[c] # Null
    <3>1. x \in Nodes => t.parent[x] # Null
      BY <1>6, CellFacts DEF InTree
    <3>2. wp # Null
      BY <1>3, CellFacts
    <3> QED BY <1>15, <1>21, <3>1, <3>2, CellFacts
  <2>2. w # Sentinel
    BY <1>3
  <2> QED BY <2>1, <2>2 DEF InCells, InNodes
<1>25. ASSUME NEW q \in Sides, NEW c \in InCells(t1.parent)
       PROVE  v.kid[q][As(n, w, c)] = As(n, w, t1.kid[q][c])
  <2>1. c \in InCells(t.parent) /\ c # w /\ c \in Cells
    BY <1>24, CellFacts
  <2>2. r0.kid[q][c] = n <=> c = p /\ q = s
    <3>1. c = wp /\ q = ws => t.kid[q][c] # n
      BY <1>3
    <3>2. t.kid[q][c] = n <=> c = p /\ q = s
      BY <1>2, <1>13, <2>1
    <3> QED BY <1>15, <2>1, <3>1, <3>2
  <2>3. t1.kid[q][c] = r0.kid[q][c]
    BY <1>21, <2>1
  <2>4. CASE c = n
    <3>1. As(n, w, c) = w /\ v.kid[q][w] = d.kid[q][w]
      BY <1>3, <1>20, <2>4 DEF As
    <3>2. d.kid[q][w] = r0.kid[q][n]
      BY <1>3, <1>9, <1>19
    <3>3. r0.kid[q][n] # n
      BY <1>2, <2>2, <2>4
    <3> QED BY <2>3, <2>4, <3>1, <3>2, <3>3 DEF As
  <2>5. CASE c # n
    <3>1. As(n, w, c) = c /\ v.kid[q][c] = d.kid[q][c]
      BY <1>20, <2>1, <2>5 DEF As
    <3>2. d.kid[q][c] = IF c = p /\ q = s THEN w ELSE r0.kid[q][c]
      BY <1>19, <2>1
    <3> QED BY <2>2, <2>3, <3>1, <3>2 DEF As
  <2> QED BY <2>4, <2>5
\* Below n, and below w in its place, are l and k.
<1>26. ASSUME NEW c \in Nodes, c # n, c # w
       PROVE  r0.parent[c] = n <=> c \in {l, k}
  <2>0. c \in Cells /\ c # Sentinel
    BY CellFacts
  <2>1. ASSUME c = x PROVE r0.parent[c] = n <=> c \in {l, k}
    <3>1. r0.parent[c] = wp
      BY <1>15, <2>0, <2>1
    <3>2. c \in {l, k} <=> wp = n
      BY <1>10, <1>11, <1>22, <2>1
    <3> QED BY <3>1, <3>2
  <2>2. ASSUME c # x PROVE r0.parent[c] = n <=> c \in {l, k}
    <3>1. r0.parent[c] = t.parent[c]
      BY <1>15, <2>0, <2>2
    <3>2. c \in {l, k} => t.parent[c] = n
      BY <1>7, <1>8, <1>22, <2>2
    <3>3. ASSUME t.parent[c] = n PROVE c \in {l, k}
      <4>1. c \in InTree(t)
        BY <1>2, <3>3, CellFacts DEF InTree
      <4>2. t.kid[SideOf(t, c)][n] = c /\ SideOf(t, c) \in Sides
        BY <1>1, <3>3, <4>1, UpFacts
      <4>3. c = l \/ c = r
        BY <1>4, <4>2 DEF r
      <4>4. c = r => wp # n
        BY <1>12, <1>26
      <4> QED BY <1>22, <4>3, <4>4
    <3> QED BY <3>1, <3>2, <3>3
  <2> QED BY <2>1, <2>2
<1>27. ASSUME NEW c \in Nodes
       PROVE  v.parent[c] = IF c = n THEN Null
                            ELSE IF c = w THEN As(n, w, t1.parent[n]) ELSE As(n, w, t1.parent[c])
  <2>0. c \in Cells
    BY CellFacts
  <2>1. CASE c = n
    BY <1>20, <2>0, <2>1
  <2>2. CASE c = w
    <3>1. v.parent[c] = p
      BY <1>19, <1>20, <2>0, <2>2
    <3>2. t1.parent[n] = p
      BY <1>2, <1>17, <1>21
    <3> QED BY <1>2, <2>2, <3>1, <3>2 DEF As
  <2>3. CASE c # n /\ c # w
    <3>1. v.parent[c] = IF c \in {l, k} THEN w ELSE r0.parent[c]
      BY <1>19, <1>20, <2>0, <2>3
    <3>2. t1.parent[c] = r0.parent[c]
      BY <1>21, <2>0, <2>3
    <3>3. r0.parent[c] = n <=> c \in {l, k}
      BY <1>26, <2>3
    <3> QED BY <2>3, <3>1, <3>2, <3>3 DEF As
  <2> QED BY <2>1, <2>2, <2>3
<1>28. v.parent[x] = As(n, w, wp)
  <2>1. v.parent[x] = IF x \in {l, k} THEN w ELSE r0.parent[x]
    BY <1>6, <1>19, <1>20
  <2>2. r0.parent[x] = wp
    BY <1>6, <1>15
  <2>3. x \in {l, k} <=> wp = n
    BY <1>10, <1>11, <1>22
  <2> QED BY <2>1, <2>2, <2>3 DEF As
<1>29. Renamed(t1, v, n, w)
  BY <1>25, <1>27 DEF Renamed
<1> QED BY <1>14, <1>20, <1>23, <1>28, <1>29 DEF wp

\* A list without the entry k is RemoveAt.
LEMMA RemovedIs ==
  ASSUME NEW s \in Seq(Nodes), NEW k \in 1 .. Len(s),
         NEW r \in Seq(Nodes), Len(r) = Len(s) - 1,
         \A i \in 1 .. Len(r) : r[i] = IF i < k THEN s[i] ELSE s[i + 1]
  PROVE  r = Sorted!RemoveAt(s, k)
<1>1. Len(s) \in Nat /\ k \in Int /\ 1 <= k /\ k <= Len(s)
  OBVIOUS
<1>2. PICK a : SubSeq(s, 1, k - 1) = a
  BY Zenon
<1>3. PICK c : SubSeq(s, k + 1, Len(s)) = c
  BY Zenon
<1>4. PICK e : a \o c = e
  BY Zenon
<1>5. Sorted!RemoveAt(s, k) = e
  BY <1>1, <1>2, <1>3, <1>4, Zenon DEF Sorted!RemoveAt
<1>6. a \in Seq(Nodes) /\ Len(a) = k - 1 /\ \A i \in 1 .. Len(a) : a[i] = s[i]
  <2>1. /\ a \in Seq(Nodes)
        /\ Len(a) = IF 1 <= k - 1 THEN (k - 1) - 1 + 1 ELSE 0
        /\ \A i \in 1 .. (k - 1) - 1 + 1 : a[i] = s[1 + i - 1]
    <3>2. 1 \in Int /\ k - 1 \in Int /\ 1 <= 1 /\ k - 1 <= Len(s)
      BY <1>1
    <3>3. /\ SubSeq(s, 1, k - 1) \in Seq(Nodes)
          /\ Len(SubSeq(s, 1, k - 1)) = IF 1 <= k - 1 THEN (k - 1) - 1 + 1 ELSE 0
          /\ \A i \in 1 .. (k - 1) - 1 + 1 : SubSeq(s, 1, k - 1)[i] = s[1 + i - 1]
      BY <3>2, SubSeqIs
    <3> QED BY <1>2, <3>3, Zenon
  <2>2. Len(a) = k - 1
    BY <1>1, <2>1
  <2> QED BY <1>1, <2>1, <2>2
<1>7. /\ c \in Seq(Nodes) /\ Len(c) = Len(s) - k
      /\ \A i \in 1 .. Len(c) : c[i] = s[k + i]
  <2>1. /\ c \in Seq(Nodes)
        /\ Len(c) = IF k + 1 <= Len(s) THEN Len(s) - (k + 1) + 1 ELSE 0
        /\ \A i \in 1 .. Len(s) - (k + 1) + 1 : c[i] = s[(k + 1) + i - 1]
    <3>2. k + 1 \in Int /\ Len(s) \in Int /\ 1 <= k + 1 /\ Len(s) <= Len(s)
      BY <1>1
    <3>3. /\ SubSeq(s, k + 1, Len(s)) \in Seq(Nodes)
          /\ Len(SubSeq(s, k + 1, Len(s))) = IF k + 1 <= Len(s) THEN Len(s) - (k + 1) + 1 ELSE 0
          /\ \A i \in 1 .. Len(s) - (k + 1) + 1 : SubSeq(s, k + 1, Len(s))[i] = s[(k + 1) + i - 1]
      BY <3>2, SubSeqIs
    <3> QED BY <1>3, <3>3, Zenon
  <2>2. Len(c) = Len(s) - k
    BY <1>1, <2>1
  <2>3. \A i \in 1 .. Len(s) - k : i \in 1 .. Len(s) - (k + 1) + 1 /\ (k + 1) + i - 1 = k + i
    BY <1>1
  <2> QED BY <2>1, <2>2, <2>3
<1>8. /\ e \in Seq(Nodes) /\ Len(e) = Len(s) - 1
      /\ \A i \in 1 .. Len(e) : e[i] = IF i <= k - 1 THEN a[i] ELSE c[i - (k - 1)]
  <2>1. /\ e \in Seq(Nodes) /\ Len(e) = Len(a) + Len(c)
        /\ \A i \in 1 .. Len(a) + Len(c) :
             e[i] = IF i <= Len(a) THEN a[i] ELSE c[i - Len(a)]
    BY <1>4, <1>6, <1>7, ConcatIs, Zenon
  <2> QED BY SMTT(30), <1>1, <1>6, <1>7, <2>1
<1>9. \A i \in 1 .. Len(s) - 1 : r[i] = e[i]
  <2> SUFFICES ASSUME NEW i \in 1 .. Len(s) - 1 PROVE r[i] = e[i]
    BY Zenon
  <2>1. i \in Int /\ 1 <= i /\ i <= Len(s) - 1
    BY <1>1
  <2>2. CASE i < k
    BY <1>1, <1>6, <1>8, <2>1, <2>2
  <2>3. CASE i >= k
    <3>1. i - (k - 1) \in 1 .. Len(c) /\ k + (i - (k - 1)) = i + 1
      BY <1>1, <1>7, <2>1, <2>3
    <3>2. e[i] = s[i + 1]
      BY SMTT(30), <1>1, <1>7, <1>8, <2>1, <2>3, <3>1
    <3> QED BY <1>1, <2>1, <2>3, <3>2
  <2> QED BY <1>1, <2>1, <2>2, <2>3
<1> QED BY <1>5, <1>8, <1>9, SeqEqual, Zenon

\* The order without the entry at k.
Removed(g, h, k) ==
  /\ k \in 1 .. g.size - 1 /\ h.size = g.size - 1
  /\ \A i \in 1 .. g.size - 1 : h.at[i] = IF i < k THEN g.at[i] ELSE g.at[i + 1]

\* A removal from the order is one from the list, and the keys still ascend.
LEMMA RemovedLists ==
  ASSUME NEW t, NEW g, Sound(t, g), Keyed(g), NEW u, NEW h, Sound(u, h),
         NEW k, Removed(g, h, k)
  PROVE  Keyed(h) /\ Listed(h) = Sorted!RemoveAt(Listed(g), k)
<1>1. g.size \in Nat /\ k \in 1 .. g.size - 1 /\ h.size = g.size - 1
  BY SizeBound DEF Removed
<1>2. \A i \in 1 .. g.size - 1 : h.at[i] = IF i < k THEN g.at[i] ELSE g.at[i + 1]
  BY DEF Removed
<1>3. Keyed(h)
  <2> SUFFICES ASSUME NEW x \in 1 .. h.size - 1, NEW y \in 1 .. h.size - 1, x <= y
               PROVE  Key[h.at[x]] <= Key[h.at[y]]
    BY DEF Keyed
  <2>1. /\ x \in 1 .. g.size - 1 /\ y \in 1 .. g.size - 1
        /\ x + 1 \in 1 .. g.size - 1 /\ y + 1 \in 1 .. g.size - 1
        /\ x \in Int /\ y \in Int /\ x + 1 <= y + 1 /\ x <= y + 1 /\ k \in Int
    BY <1>1
  <2>2. \A p, q \in 1 .. g.size - 1 : p <= q => Key[g.at[p]] <= Key[g.at[q]]
    BY DEF Keyed
  <2>3. CASE x < k /\ y < k
    BY <1>2, <2>1, <2>2, <2>3
  <2>4. CASE x < k /\ y >= k
    <3>1. h.at[x] = g.at[x] /\ h.at[y] = g.at[y + 1]
      BY <1>2, <2>1, <2>4
    <3> QED BY <2>1, <2>2, <3>1
  <2>5. CASE x >= k /\ y >= k
    <3>1. h.at[x] = g.at[x + 1] /\ h.at[y] = g.at[y + 1]
      BY <1>2, <2>1, <2>5
    <3> QED BY <2>1, <2>2, <3>1
  <2> QED BY <2>1, <2>3, <2>4, <2>5
<1>4. PICK l : Listed(g) = l
  OBVIOUS
<1>5. PICK r : Listed(h) = r
  OBVIOUS
<1>6. l \in Seq(Nodes) /\ Len(l) = g.size - 1 /\ \A i \in 1 .. g.size - 1 : l[i] = g.at[i]
  BY <1>4, ListedIs
<1>7. r \in Seq(Nodes) /\ Len(r) = h.size - 1 /\ \A i \in 1 .. h.size - 1 : r[i] = h.at[i]
  BY <1>5, ListedIs
<1>8. k \in 1 .. Len(l) /\ Len(r) = Len(l) - 1
  BY <1>1, <1>6, <1>7
<1>9. \A i \in 1 .. Len(r) : r[i] = IF i < k THEN l[i] ELSE l[i + 1]
  <2> SUFFICES ASSUME NEW i \in 1 .. Len(r) PROVE r[i] = IF i < k THEN l[i] ELSE l[i + 1]
    OBVIOUS
  <2>1. i \in 1 .. h.size - 1 /\ i \in 1 .. g.size - 1 /\ i + 1 \in 1 .. g.size - 1
    BY <1>1, <1>7
  <2> QED BY <1>2, <1>6, <1>7, <2>1
<1>10. r = Sorted!RemoveAt(l, k)
  BY <1>6, <1>7, <1>8, <1>9, RemovedIs
<1> QED BY <1>3, <1>4, <1>5, <1>10

\* js_rbtree_delete keeps the tree balanced and takes out the one node.
LEMMA DeleteOK ==
  ASSUME NEW t, NEW g, NEW b, Balanced(t, g, b), NEW n \in InTree(t),
         NEW u, DeleteFrom(t, n) = u
  PROVE  \E h, d : /\ Balanced(u, h, d) /\ InTree(u) = InTree(t) \ {n}
                   /\ Removed(g, h, g.pos[n])
                   /\ Listed(h) = Sorted!RemoveAt(Listed(g), g.pos[n])
<1> DEFINE l == t.kid["left"][n]
           r == t.kid["right"][n]
<1>1. /\ Sound(t, g) /\ Keyed(g) /\ Whole(t, g, b)
      /\ t \in Trees /\ Shape(t.kid, t.parent, g) /\ n # Sentinel
  <2>1. Sound(t, g) /\ Keyed(g) /\ Whole(t, g, b)
    BY DEF Balanced, Whole, NoRedRed
  <2> QED BY <2>1, UpFacts DEF Sound
<1>2. PICK k : g.pos[n] = k
  OBVIOUS
<1>3. Sides = {"left", "right"} /\ Other("left") = "right" /\ Other("right") = "left"
  BY CellFacts DEF Other
<1> HIDE DEF l, r
<1>4. \E h, d : /\ Whole(u, h, d) /\ InTree(u) = InTree(t) \ {n} /\ Removed(g, h, k)
  <2>1. CASE l = Sentinel \/ r = Sentinel
    <3>1. PICK side \in Sides : t.kid[Other(side)][n] = Sentinel
                                /\ side = IF l = Sentinel THEN "right" ELSE "left"
      BY <1>3, <2>1 DEF l, r
    <3>2. PICK x : t.kid[side][n] = x
      OBVIOUS
    <3>3. PICK r0 : Relink(t, x, n) = r0
      OBVIOUS
    <3>4. PICK v : Unlink(r0, n) = v
      OBVIOUS
    <3>5. v \in Trees /\ Spliced(t, v, n, x) /\ v.red = t.red \ {n}
      BY <1>1, <3>2, <3>3, <3>4, SpliceIs
    <3>6. PICK h : /\ Closed(g, h, k) /\ InTree(v) = InTree(t) \ {n} /\ k \in 1 .. g.size - 1
                   /\ n \in t.red => Whole(v, h, b)
                   /\ n \notin t.red => Short(v, h, b, x, t.parent[n], SideOf(t, n))
      BY <1>1, <1>2, <3>1, <3>2, <3>5, SplicedOK
    <3>7. Mend(v, x, n \in t.red) = u
      BY <1>3, <2>1, <3>1, <3>2, <3>3, <3>4 DEF DeleteFrom, l, r
    <3>8. \E j, d : /\ Whole(u, j, d) /\ j.at = h.at /\ j.size = h.size
                    /\ InTree(u) = InTree(v)
      <4>1. CASE n \in t.red
        <5>1. u = v
          BY <3>7, <4>1 DEF Mend
        <5> QED BY <3>6, <4>1, <5>1
      <4>2. CASE n \notin t.red
        <5>1. DeleteFixup(v, x) = u
          BY <3>7, <4>2 DEF Mend
        <5>2. PICK p : t.parent[n] = p
          OBVIOUS
        <5>3. PICK s : SideOf(t, n) = s
          OBVIOUS
        <5>4. Short(v, h, b, x, p, s)
          BY <3>6, <4>2, <5>2, <5>3
        <5> QED BY <5>1, <5>4, DeleteFixupOK
      <4> QED BY <4>1, <4>2
    <3>9. PICK j, d : /\ Whole(u, j, d) /\ j.at = h.at /\ j.size = h.size
                      /\ InTree(u) = InTree(v)
      BY <3>8
    <3>10. Removed(g, j, k)
      BY <3>6, <3>9 DEF Removed, Closed
    <3> QED BY <3>6, <3>9, <3>10
  <2>2. CASE l # Sentinel /\ r # Sentinel
    <3>1. PICK w : BranchMin(t, r) = w
      OBVIOUS
    <3>2. /\ w \in InTree(t) /\ w # n /\ g.pos[w] = k + 1 /\ g.at[g.pos[w]] = w
          /\ t.kid["left"][w] = Sentinel /\ t.kid["right"][w] # n /\ l # w
      BY <1>1, <1>2, <2>2, <3>1, SubstIs DEF l, r
    <3>3. PICK x : t.kid["right"][w] = x
      OBVIOUS
    <3>4. PICK r0 : Relink(t, x, w) = r0
      OBVIOUS
    <3>5. PICK t1 : Unlink(r0, w) = t1
      OBVIOUS
    <3>6. PICK d : Replace(r0, w, n) = d
      OBVIOUS
    <3>7. PICK v : Unlink(d, n) = v
      OBVIOUS
    <3>8. /\ t1 \in Trees /\ Spliced(t, t1, w, x) /\ t1.red = t.red \ {w}
          /\ v \in Trees /\ Renamed(t1, v, n, w)
          /\ v.red = IF n \in t1.red THEN (t1.red \ {n}) \cup {w} ELSE t1.red
          /\ v.parent[x] = As(n, w, t.parent[w])
      <4>1. t.kid["right"][n] # Sentinel /\ x # n /\ t.kid["left"][n] = l
        BY <2>2, <3>2, <3>3 DEF l, r
      <4> QED BY SMTT(30), <1>1, <2>2, <3>2, <3>3, <3>4, <3>5, <3>6, <3>7, <4>1, TakesPlace
    <3>9. PICK m : g.pos[w] = m
      OBVIOUS
    <3>10. PICK h : /\ Closed(g, h, m) /\ InTree(t1) = InTree(t) \ {w} /\ m \in 1 .. g.size - 1
                    /\ w \in t.red => Whole(t1, h, b)
                    /\ w \notin t.red => Short(t1, h, b, x, t.parent[w], SideOf(t, w))
      <4>1. "right" \in Sides /\ t.kid[Other("right")][w] = Sentinel
        BY <1>3, <3>2
      <4> QED BY <1>1, <3>2, <3>3, <3>8, <3>9, <4>1, SplicedOK
    <3>11. Sound(t1, h)
      BY <3>10 DEF Whole, Short
    <3>12. n \in InTree(t1) /\ w \in Nodes \ InTree(t1)
      BY <3>2, <3>10 DEF InTree
    <3>13. PICK j, c : /\ Swapped(h, j, n, w) /\ InTree(v) = (InTree(t1) \ {n}) \cup {w}
                       /\ Whole(t1, h, b) => Whole(v, j, c)
                       /\ \A y, p, s : /\ Short(t1, h, b, y, p, s) /\ y # n
                                       /\ v.parent[y] = As(n, w, p)
                                       => Short(v, j, c, y, As(n, w, p), s)
      BY <3>8, <3>11, <3>12, RenamedOK, Zenon
    <3>14. InTree(v) = InTree(t) \ {n}
      BY <3>2, <3>10, <3>13
    <3>15. w \notin t.red => Short(v, j, c, x, As(n, w, t.parent[w]), SideOf(t, w))
      BY <3>2, <3>3, <3>8, <3>10, <3>13
    <3>16. Mend(v, x, w \in t.red) = u
      BY <2>2, <3>1, <3>3, <3>4, <3>6, <3>7 DEF DeleteFrom, l, r
    <3>17. \E i, e : /\ Whole(u, i, e) /\ i.at = j.at /\ i.size = j.size
                     /\ InTree(u) = InTree(v)
      <4>1. CASE w \in t.red
        <5>1. u = v
          BY <3>16, <4>1 DEF Mend
        <5> QED BY <3>10, <3>13, <4>1, <5>1
      <4>2. CASE w \notin t.red
        <5>1. DeleteFixup(v, x) = u
          BY <3>16, <4>2 DEF Mend
        <5>2. PICK p : As(n, w, t.parent[w]) = p
          OBVIOUS
        <5>3. PICK s : SideOf(t, w) = s
          OBVIOUS
        <5>4. Short(v, j, c, x, p, s)
          BY <3>15, <4>2, <5>2, <5>3
        <5> QED BY <5>1, <5>4, DeleteFixupOK
      <4> QED BY <4>1, <4>2
    <3>18. PICK i, e : /\ Whole(u, i, e) /\ i.at = j.at /\ i.size = j.size
                       /\ InTree(u) = InTree(v)
      BY <3>17
    <3>19. Removed(g, i, k)
      <4>1. g.size \in Nat /\ n \in InCells(t.parent) /\ g.pos[n] \in Int /\ 1 <= g.pos[n]
            /\ g.at[g.pos[n]] = n /\ \A q \in 1 .. g.size : g.pos[g.at[q]] = q
        <5>1. n \in InCells(t.parent) /\ n \in Cells
          BY CellFacts DEF InTree, InCells, InNodes
        <5>2. g.pos[n] \in Int /\ g.lo[n] \in Int /\ g.size \in Nat
          BY <1>1, <5>1 DEF Shape, Numbered, Orders
        <5>3. 1 <= g.lo[n] /\ g.lo[n] <= g.pos[n] /\ g.at[g.pos[n]] = n
              /\ \A q \in 1 .. g.size : g.pos[g.at[q]] = q
          BY <1>1, <5>1 DEF Shape, Numbered
        <5> QED BY <5>1, <5>2, <5>3
      <4>2. k \in Int /\ 1 <= k /\ m = k + 1 /\ m <= g.size - 1 /\ k \in 1 .. g.size - 1
            /\ g.at[k] = n /\ g.at[k + 1] = w
        BY <1>2, <3>2, <3>9, <3>10, <4>1
      <4>3. /\ h.size = g.size - 1
            /\ \A q \in 1 .. g.size - 1 : h.at[q] = IF q < m THEN g.at[q] ELSE g.at[q + 1]
        BY <3>10 DEF Closed
      <4>4. i.size = h.size /\ \A q \in 1 .. h.size : i.at[q] = As(n, w, h.at[q])
        BY <3>13, <3>18 DEF Swapped
      <4>5. ASSUME NEW q \in 1 .. g.size - 1
            PROVE  i.at[q] = IF q < k THEN g.at[q] ELSE g.at[q + 1]
        <5>1. i.at[q] = As(n, w, h.at[q]) /\ h.at[q] = IF q < m THEN g.at[q] ELSE g.at[q + 1]
          BY <4>3, <4>4
        <5>2. q \in Int /\ q \in 1 .. g.size /\ q + 1 \in 1 .. g.size
          BY <4>1
        <5>3. g.at[q] = n => q = k
          BY <1>2, <4>1, <5>2
        <5>4. g.at[q + 1] = n => q + 1 = k
          BY <1>2, <4>1, <5>2
        <5>5. CASE q < k
          BY <4>2, <5>1, <5>2, <5>3, <5>5 DEF As
        <5>6. CASE q = k
          BY <4>2, <5>1, <5>2, <5>6 DEF As
        <5>7. CASE q > k
          <6>1. ~(q < m) /\ q + 1 # k
            BY <4>2, <5>2, <5>7
          <6>2. i.at[q] = g.at[q + 1]
            BY <5>1, <5>4, <6>1 DEF As
          <6> QED BY <4>2, <5>2, <5>7, <6>2
        <5> QED BY <4>2, <5>2, <5>5, <5>6, <5>7
      <4> QED BY <4>2, <4>3, <4>4, <4>5 DEF Removed
    <3> QED BY <3>14, <3>18, <3>19
  <2> QED BY <2>1, <2>2
<1>5. PICK h, d : Whole(u, h, d) /\ InTree(u) = InTree(t) \ {n} /\ Removed(g, h, k)
  BY <1>4
<1>6. Sound(u, h)
  BY <1>5 DEF Whole
<1>7. Keyed(h) /\ Listed(h) = Sorted!RemoveAt(Listed(g), k)
  BY <1>1, <1>5, <1>6, RemovedLists
<1>8. Balanced(u, h, d)
  BY <1>5, <1>7 DEF Balanced, Whole, NoRedRed
<1> QED BY <1>2, <1>5, <1>7, <1>8

\* Sequences are equal if they are entry by entry.
LEMMA SeqsApart ==
  ASSUME NEW a \in Seq(Nodes), NEW c \in Seq(Nodes), Len(a) = Len(c),
         \A i \in 1 .. Len(a) : a[i] = c[i]
  PROVE  a = c
BY SeqEqual

\* The state x of the walk that deletes, r nodes of the order g being gone.
Passed(g, k, r, x) ==
  \E h, d : /\ Balanced(x.tree, h, d) /\ r \in Nat /\ h.size = g.size - r
            /\ \A i \in 1 .. h.size : h.at[i] = g.at[i + r]
            /\ \A i \in 1 .. r : Key[g.at[i]] <= k
            /\ x.at = g.at[r + 1]

\* The sentinel is the last of the order, and only the last.
LEMMA OrderEnds ==
  ASSUME NEW t, NEW g, Sound(t, g)
  PROVE  /\ g.size \in Nat /\ g.size >= 1 /\ g.at[g.size] = Sentinel
         /\ \A i \in 1 .. g.size - 1 : g.at[i] \in InTree(t) /\ g.at[i] # Sentinel
                                       /\ g.pos[g.at[i]] = i
<1>1. g.size \in Nat /\ g.size >= 1
  BY SizeBound
<1>2. g.at[g.size] = Sentinel
  BY CellFacts DEF Sound, Shape, Numbered
<1>3. \A i \in 1 .. g.size - 1 : g.at[i] \in InTree(t) /\ g.at[i] # Sentinel
  BY KeysAt, CellFacts DEF InTree
<1>4. \A i \in 1 .. g.size - 1 : g.pos[g.at[i]] = i
  BY <1>1 DEF Sound, Shape, Numbered
<1> QED BY <1>1, <1>2, <1>3, <1>4

\* The walk is at the sentinel when all nodes are gone.
LEMMA PassedFacts ==
  ASSUME NEW t, NEW g, NEW b, Balanced(t, g, b), NEW k \in Int, NEW r, NEW x,
         Passed(g, k, r, x)
  PROVE  /\ r \in 0 .. g.size - 1 /\ x.at \in Cells /\ x.tree \in Trees
         /\ x.at = Sentinel <=> r = g.size - 1
<1>1. PICK h, d : /\ Balanced(x.tree, h, d) /\ r \in Nat /\ h.size = g.size - r
                  /\ x.at = g.at[r + 1]
  BY DEF Passed
<1>2. /\ g.size \in Nat /\ g.size >= 1 /\ g.at[g.size] = Sentinel
      /\ \A i \in 1 .. g.size - 1 : g.at[i] \in InTree(t) /\ g.at[i] # Sentinel
  BY OrderEnds DEF Balanced
<1>3. h.size \in Nat /\ h.size >= 1
  BY <1>1, OrderEnds DEF Balanced
<1>4. r \in 0 .. g.size - 1
  <2>1. r \in Nat /\ h.size = g.size - r /\ g.size \in Nat /\ h.size >= 1 /\ h.size \in Nat
    BY <1>1, <1>2, <1>3
  <2> QED BY ONLY <2>1
<1>5. x.at = Sentinel <=> r = g.size - 1
  <2>1. CASE r = g.size - 1
    <3>1. r + 1 = g.size
      BY <1>2, <2>1
    <3>2. x.at = Sentinel
      BY <1>1, <1>2, <3>1
    <3> QED BY <2>1, <3>2
  <2>2. CASE r # g.size - 1
    <3>1. r + 1 \in 1 .. g.size - 1
      BY <1>2, <1>4, <2>2
    <3> QED BY <1>1, <1>2, <2>2, <3>1
  <2> QED BY <2>1, <2>2
<1>6. x.at \in Cells
  <2>1. CASE r = g.size - 1
    BY <1>5, <2>1, CellFacts
  <2>2. CASE r # g.size - 1
    <3>1. r + 1 \in 1 .. g.size - 1
      BY <1>2, <1>4, <2>2
    <3> QED BY <1>1, <1>2, <3>1, CellFacts DEF InTree
  <2> QED BY <2>1, <2>2
<1> QED BY <1>1, <1>4, <1>5, <1>6 DEF Balanced, Sound

\* One pass of js_timer_expire deletes the first node and goes on to the next,
\* which the deletion leaves in the tree.
LEMMA PassMoves ==
  ASSUME NEW t, NEW g, NEW b, Balanced(t, g, b), NEW k \in Int, NEW r, NEW x,
         Passed(g, k, r, x), x.at # Sentinel, ~(Key[x.at] > k),
         NEW y, ExpirePass(x.tree, x.at, k) = y
  PROVE  Passed(g, k, r + 1, y) /\ y = [tree |-> y.tree, at |-> y.at]
<1>1. PICK h, d : /\ Balanced(x.tree, h, d) /\ r \in Nat /\ h.size = g.size - r
                  /\ \A i \in 1 .. h.size : h.at[i] = g.at[i + r]
                  /\ \A i \in 1 .. r : Key[g.at[i]] <= k
                  /\ x.at = g.at[r + 1]
  BY DEF Passed
<1>2. PICK n : x.at = n
  OBVIOUS
<1>3. PICK v : DeleteFrom(x.tree, n) = v
  OBVIOUS
<1>4. y.tree = v /\ y.at = Successor(x.tree, n) /\ y = [tree |-> y.tree, at |-> y.at]
  BY <1>2, <1>3 DEF ExpirePass
<1>5. /\ r \in 0 .. g.size - 1 /\ r # g.size - 1 /\ g.size \in Nat
      /\ r + 1 \in 1 .. g.size - 1
  <2>1. r \in 0 .. g.size - 1 /\ r # g.size - 1
    BY PassedFacts
  <2>2. g.size \in Nat
    BY OrderEnds DEF Balanced
  <2> QED BY <2>1, <2>2
<1>6. /\ h.size \in Nat /\ h.size >= 2 /\ 1 \in 1 .. h.size /\ 2 \in 1 .. h.size
      /\ 1 \in 1 .. h.size - 1 /\ h.at[1] = n
  <2>1. h.size \in Nat /\ h.size >= 2
    BY <1>1, <1>5
  <2>2. 1 \in 1 .. h.size /\ 2 \in 1 .. h.size /\ 1 \in 1 .. h.size - 1
    BY <2>1
  <2>3. h.at[1] = g.at[1 + r] /\ 1 + r = r + 1
    BY <1>1, <2>2
  <2> QED BY <1>1, <1>2, <2>1, <2>2, <2>3, Zenon
<1>7. n \in InTree(x.tree) /\ h.pos[n] = 1 /\ Sound(x.tree, h)
  BY <1>1, <1>6, OrderEnds DEF Balanced
<1>8. y.at = g.at[r + 1 + 1]
  <2>1. y.at = h.at[h.pos[n] + 1]
    BY <1>4, <1>7, SuccessorIs
  <2>2. h.at[2] = g.at[2 + r]
    BY <1>1, <1>6
  <2>3. 2 + r = r + 1 + 1 /\ h.pos[n] + 1 = 2
    BY <1>1, <1>7
  <2> QED BY <2>1, <2>2, <2>3
<1>9. PICK j, c : Balanced(v, j, c) /\ Removed(h, j, h.pos[n])
  BY <1>1, <1>3, <1>7, DeleteOK
<1>10. /\ j.size = g.size - (r + 1)
       /\ \A i \in 1 .. j.size : j.at[i] = g.at[i + (r + 1)]
  <2>1. j.size = h.size - 1 /\ \A i \in 1 .. h.size - 1 : ~(i < 1) => j.at[i] = h.at[i + 1]
    BY <1>7, <1>9 DEF Removed
  <2>2. ASSUME NEW i \in 1 .. j.size PROVE j.at[i] = g.at[i + (r + 1)]
    <3>1. i \in Int /\ ~(i < 1) /\ i \in 1 .. h.size - 1 /\ i + 1 \in 1 .. h.size
          /\ (i + 1) + r = i + (r + 1)
      BY <1>1, <1>6, <2>1
    <3>2. j.at[i] = h.at[i + 1]
      BY <2>1, <3>1
    <3>3. h.at[i + 1] = g.at[(i + 1) + r]
      BY <1>1, <3>1
    <3> QED BY <3>1, <3>2, <3>3
  <2> QED BY <1>1, <1>5, <2>1, <2>2
<1>11. \A i \in 1 .. r + 1 : Key[g.at[i]] <= k
  <2> SUFFICES ASSUME NEW i \in 1 .. r + 1 PROVE Key[g.at[i]] <= k
    OBVIOUS
  <2>1. CASE i = r + 1
    <3>1. g.at[r + 1] = n /\ ~(Key[n] > k)
      BY <1>1, <1>2
    <3>2. Key[n] \in Int
      BY <1>7, KeyAssumption DEF InTree
    <3> QED BY <2>1, <3>1, <3>2
  <2>2. CASE i # r + 1
    <3>1. i \in 1 .. r
      BY <1>1, <2>2
    <3> QED BY <1>1, <3>1
  <2> QED BY <2>1, <2>2
<1>12. r + 1 \in Nat
  BY <1>1
<1> QED BY <1>4, <1>8, <1>9, <1>10, <1>11, <1>12 DEF Passed

\* When the walk stops, the rest of the list is what is above the key.
LEMMA PassedEnds ==
  ASSUME NEW t, NEW g, NEW b, Balanced(t, g, b), NEW k \in Int, NEW r, NEW x,
         Passed(g, k, r, x), x.at = Sentinel \/ Key[x.at] > k,
         NEW u, x.tree = u
  PROVE  \E h, d : /\ Balanced(u, h, d)
                   /\ Listed(h) = SubSeq(Listed(g), Sorted!UpTo(Listed(g), k) + 1,
                                         Len(Listed(g)))
<1>1. PICK h, d : /\ Balanced(u, h, d) /\ r \in Nat /\ h.size = g.size - r
                  /\ \A i \in 1 .. h.size : h.at[i] = g.at[i + r]
                  /\ \A i \in 1 .. r : Key[g.at[i]] <= k
                  /\ x.at = g.at[r + 1]
  BY DEF Passed
<1>2. r \in 0 .. g.size - 1 /\ (x.at = Sentinel <=> r = g.size - 1)
  BY PassedFacts
<1>3. /\ Sound(t, g) /\ Sound(u, h) /\ Keyed(g)
      /\ g.size \in Nat /\ g.size >= 1
  BY <1>1, OrderEnds DEF Balanced
<1>4. PICK l : Listed(g) = l
  OBVIOUS
<1>5. PICK m : Listed(h) = m
  OBVIOUS
<1>6. l \in Seq(Nodes) /\ Len(l) = g.size - 1 /\ \A i \in 1 .. g.size - 1 : l[i] = g.at[i]
  BY <1>3, <1>4, ListedIs
<1>7. m \in Seq(Nodes) /\ Len(m) = h.size - 1 /\ \A i \in 1 .. h.size - 1 : m[i] = h.at[i]
  BY <1>3, <1>5, ListedIs
<1>8. Sorted!UpTo(l, k) = r
  <2>1. ASSUME NEW i \in 1 .. Len(l)
        PROVE  (i <= r => Key[l[i]] <= k) /\ (i > r => k < Key[l[i]])
    <3>1. i \in 1 .. g.size - 1 /\ l[i] = g.at[i] /\ i \in Int
      BY <1>6
    <3>2. i <= r => Key[l[i]] <= k
      <4> HAVE i <= r
      <4>1. i \in 1 .. r
        BY <1>2, <3>1
      <4> QED BY <1>1, <3>1, <4>1
    <3>3. i > r => k < Key[l[i]]
      <4> HAVE i > r
      <4>1. r # g.size - 1 /\ r + 1 \in 1 .. g.size - 1 /\ r + 1 <= i
        BY <1>2, <1>3, <3>1
      <4>2. Key[g.at[r + 1]] > k
        BY <1>1, <1>2, <4>1
      <4>3. Key[g.at[r + 1]] <= Key[g.at[i]]
        BY <1>3, <3>1, <4>1 DEF Keyed
      <4>4. Key[g.at[r + 1]] \in Int /\ Key[g.at[i]] \in Int
        BY <1>3, <3>1, <4>1, KeysAt
      <4> QED BY <3>1, <4>2, <4>3, <4>4
    <3> QED BY <3>2, <3>3
  <2>2. r \in 0 .. Len(l)
    BY <1>2, <1>6
  <2> QED BY <1>6, <2>1, <2>2, UpToIs
<1>9. PICK s : SubSeq(l, r + 1, Len(l)) = s
  BY Zenon
<1>10. /\ s \in Seq(Nodes) /\ Len(s) = IF r + 1 <= Len(l) THEN Len(l) - (r + 1) + 1 ELSE 0
       /\ \A i \in 1 .. Len(l) - (r + 1) + 1 : s[i] = l[(r + 1) + i - 1]
  <2>1. r + 1 \in Int /\ Len(l) \in Int /\ 1 <= r + 1 /\ Len(l) <= Len(l)
    BY <1>2, <1>3, <1>6
  <2>2. /\ SubSeq(l, r + 1, Len(l)) \in Seq(Nodes)
        /\ Len(SubSeq(l, r + 1, Len(l))) = IF r + 1 <= Len(l) THEN Len(l) - (r + 1) + 1 ELSE 0
        /\ \A i \in 1 .. Len(l) - (r + 1) + 1 :
             SubSeq(l, r + 1, Len(l))[i] = l[(r + 1) + i - 1]
    BY SMTT(30), <1>6, <2>1, SubSeqIs
  <2> QED BY <1>9, <2>2, Zenon
<1>11. Len(s) = g.size - 1 - r /\ Len(m) = g.size - 1 - r
  BY SMTT(30), <1>1, <1>2, <1>3, <1>6, <1>7, <1>10
<1>12. \A i \in 1 .. g.size - 1 - r : m[i] = s[i]
  <2> SUFFICES ASSUME NEW i \in 1 .. g.size - 1 - r PROVE m[i] = s[i]
    OBVIOUS
  <2>1. /\ i \in Int /\ i \in 1 .. Len(l) - (r + 1) + 1 /\ (r + 1) + i - 1 = i + r
        /\ i + r \in 1 .. g.size - 1 /\ i \in 1 .. h.size /\ i \in 1 .. h.size - 1
    <3>1. r \in Int /\ i \in Int /\ 0 <= r /\ 1 <= i /\ i <= g.size - 1 - r
          /\ h.size = g.size - r /\ Len(l) = g.size - 1
      BY <1>1, <1>2, <1>3, <1>6
    <3> QED BY ONLY <1>3, <3>1
  <2>2. s[i] = l[i + r]
    BY <1>10, <2>1
  <2>3. m[i] = h.at[i] /\ h.at[i] = g.at[i + r]
    BY <1>1, <1>7, <2>1
  <2>4. l[i + r] = g.at[i + r]
    BY <1>6, <2>1
  <2> QED BY <2>2, <2>3, <2>4
<1>13. m = s
  BY <1>7, <1>10, <1>11, <1>12, SeqsApart
<1>14. Listed(h) = SubSeq(Listed(g), Sorted!UpTo(Listed(g), k) + 1, Len(Listed(g)))
  BY <1>4, <1>5, <1>8, <1>9, <1>13, Zenon
<1> QED BY <1>1, <1>14, Zenon

\* The walk that deletes takes the front of the list, up to the key k.
LEMMA ExpireOK ==
  ASSUME NEW t, NEW g, NEW b, Balanced(t, g, b), NEW k0 \in Int,
         NEW u, ExpireTo(t, k0) = u
  PROVE  \E h, d : /\ Balanced(u, h, d)
                   /\ Listed(h) = SubSeq(Listed(g), Sorted!UpTo(Listed(g), k0) + 1,
                                         Len(Listed(g)))
<1> DEFINE N == Cardinality(Nodes)
           Pass(x) == ExpirePass(x.tree, x.at, k0)
           States == [tree : Trees, at : Cells]
           s0 == [tree |-> t, at |-> First(t)]
           Good(i) == {x \in States : \E r : r >= i /\ Passed(g, k0, r, x)}
           Done == {x \in Good(0) : x.at = Sentinel \/ Key[x.at] > k0}
           G == [i \in 0 .. N |-> Good(i)]
           F == [x \in Good(0) |-> Pass(x)]
<1>1. N \in Nat /\ g.size \in Nat /\ g.size >= 1 /\ g.size - 1 <= N /\ Sound(t, g)
  BY SizeBound DEF Balanced
<1>5. s0 \in Good(0)
  <2>1. First(t) = g.at[1]
    BY <1>1, SuccessorIs
  <2>2. s0.tree = t /\ s0.at = g.at[1] /\ s0 = [tree |-> s0.tree, at |-> s0.at]
    BY <2>1
  <2> HIDE DEF s0
  <2>3. Passed(g, k0, 0, s0)
    <3>1. 0 \in Nat /\ g.size = g.size - 0 /\ s0.at = g.at[0 + 1]
      BY <1>1, <2>2
    <3>2. \A i \in 1 .. g.size : g.at[i] = g.at[i + 0]
      OBVIOUS
    <3>3. \A i \in 1 .. 0 : Key[g.at[i]] <= k0
      OBVIOUS
    <3> QED BY <2>2, <3>1, <3>2, <3>3 DEF Passed
  <2>4. s0.at \in Cells /\ s0.tree \in Trees
    BY <2>3, PassedFacts
  <2>5. 0 >= 0
    OBVIOUS
  <2> QED BY <2>2, <2>3, <2>4, <2>5
<1>4. ASSUME NEW i \in 0 .. N, NEW x \in Good(i) PROVE x \in Good(0)
  <2>1. PICK r : r >= i /\ Passed(g, k0, r, x)
    BY <1>4
  <2>2. r \in 0 .. g.size - 1
    BY <2>1, PassedFacts
  <2>3. r >= 0
    BY <1>1, <2>2
  <2> QED BY <1>4, <2>1, <2>3
<1>6. ASSUME NEW i \in 0 .. N, NEW x \in Good(i), x \notin Done
      PROVE  i < N /\ Pass(x) \in Good(i + 1)
  <2>1. x.at # Sentinel /\ ~(Key[x.at] > k0)
    BY <1>4, <1>6
  <2>2. PICK r : r >= i /\ Passed(g, k0, r, x)
    BY <1>6
  <2>3. r \in 0 .. g.size - 1 /\ r # g.size - 1
    BY <2>1, <2>2, PassedFacts
  <2>4. i < N /\ r + 1 >= i + 1
    BY <1>1, <2>2, <2>3
  <2>5. PICK y : Pass(x) = y
    OBVIOUS
  <2>6. Passed(g, k0, r + 1, y) /\ y = [tree |-> y.tree, at |-> y.at]
    BY <2>1, <2>2, <2>5, PassMoves
  <2>7. y.at \in Cells /\ y.tree \in Trees
    BY <2>6, PassedFacts
  <2> QED BY <2>4, <2>5, <2>6, <2>7
<1>7. ASSUME NEW x \in Done PROVE Pass(x) = x
  <2>1. x = [tree |-> x.tree, at |-> x.at] /\ (x.at = Sentinel \/ Key[x.at] > k0)
    BY <1>7
  <2> QED BY <2>1 DEF ExpirePass
<1>8. \A i \in 0 .. N : Good(i) \subseteq Good(0)
  <2> HIDE DEF Good
  <2> QED BY <1>4
<1> HIDE DEF N, Good, Pass
<1>9. Advances(N, F, s0, Done, G)
  <2>1. 0 \in 0 .. N /\ N \in 0 .. N /\ \A i \in 0 .. N - 1 : i \in 0 .. N /\ i + 1 \in 0 .. N
    BY <1>1
  <2>2. ASSUME NEW i \in 0 .. N - 1, NEW x \in G[i] PROVE F[x] \in Done \/ F[x] \in G[i + 1]
    <3>1. x \in Good(i) /\ i \in 0 .. N
      BY <2>1, <2>2
    <3>2. x \in Good(0)
      BY <1>8, <3>1
    <3>3. F[x] = Pass(x)
      BY <3>2
    <3>4. CASE x \in Done
      BY <1>7, <3>3, <3>4
    <3>5. CASE x \notin Done
      <4>1. Pass(x) \in Good(i + 1)
        BY <1>6, <3>1, <3>5
      <4> QED BY <2>1, <3>3, <4>1
    <3> QED BY <3>4, <3>5
  <2>3. \A x \in Done : F[x] = x
    BY <1>7
  <2>4. ASSUME NEW x \in G[N] PROVE x \in Done
    <3>1. x \in Good(N)
      BY <2>1
    <3> QED BY <1>1, <1>6, <2>1, <3>1
  <2>5. s0 \in G[0]
    BY <1>5, <2>1
  <2> QED BY <2>2, <2>3, <2>4, <2>5, Zenon DEF Advances
<1>10. /\ \A i \in 0 .. N : G[i] \subseteq Good(0)
       /\ \A x \in Done : x \in Good(0)
  BY <1>8
<1> DEFINE Made(f) == f = [k \in 0 .. N |-> IF k = 0 THEN s0 ELSE Pass(f[k - 1])]
<1>11. \E f : Made(f)
  <2>1. PICK f : MadeBy(N, F, s0, f) /\ \A k \in 0 .. N : f[k] \in Done \/ f[k] \in G[k]
    <3> HIDE DEF F, s0, Done, G
    <3> QED BY <1>1, <1>9, LoopLeads
  <2>2. \A k \in 0 .. N : f[k] \in Good(0)
    BY <1>10, <2>1
  <2>3. \A k \in 1 .. N : F[f[k - 1]] = Pass(f[k - 1])
    BY <1>1, <2>2
  <2>4. [k \in 0 .. N |-> IF k = 0 THEN s0 ELSE F[f[k - 1]]]
        = [k \in 0 .. N |-> IF k = 0 THEN s0 ELSE Pass(f[k - 1])]
    <3> HIDE DEF F, s0
    <3>1. \A k \in 0 .. N : k # 0 => k \in 1 .. N
      BY <1>1
    <3> QED BY <2>3, <3>1
  <2> QED BY <2>1, <2>4, Zenon DEF MadeBy
<1>12. PICK f : f = CHOOSE x : Made(x)
  OBVIOUS
<1>13. Made(f)
  <2> HIDE DEF Made
  <2> QED BY <1>11, <1>12
<1>14. f[0] = s0 /\ \A k \in 1 .. N : f[k] = Pass(f[k - 1])
  <2> HIDE DEF s0
  <2> QED BY <1>1, <1>13
<1>15. f[N] \in Done
  <2>1. \A k \in 1 .. N : f[k - 1] \in Done \/ f[k - 1] \in G[k - 1] => f[k] = F[f[k - 1]]
    <3> SUFFICES ASSUME NEW k \in 1 .. N, f[k - 1] \in Done \/ f[k - 1] \in G[k - 1]
                 PROVE  f[k] = F[f[k - 1]]
      OBVIOUS
    <3>1. k - 1 \in 0 .. N
      BY <1>1
    <3>2. f[k - 1] \in Good(0)
      BY <1>10, <3>1
    <3> QED BY <1>14, <3>2
  <2> HIDE DEF F, s0, Done, G
  <2>2. Follows(N, F, s0, Done, G, f)
    BY <1>14, <2>1 DEF Follows
  <2> QED BY <1>1, <1>9, <2>2, LoopEnds
<1>16. PICK end : f[N] = end
  OBVIOUS
<1>17. end.tree = u
  BY <1>12, <1>16 DEF ExpireTo, Loop, N, Pass
<1>18. PICK r : Passed(g, k0, r, end)
  BY <1>15, <1>16 DEF Good
<1>19. end.at = Sentinel \/ Key[end.at] > k0
  BY <1>15, <1>16
<1> QED BY <1>17, <1>18, <1>19, PassedEnds

\* The rest of the list s from the k-th entry on.
From(s, k) == SubSeq(s, k, Len(s))

\* The rest of a list is its first entry and the rest behind it.
LEMMA FromIs ==
  ASSUME NEW s \in Seq(Nodes), NEW k \in 1 .. Len(s)
  PROVE  From(s, k) = <<s[k]>> \o From(s, k + 1)
<1>1. Len(s) \in Nat /\ k \in Int /\ 1 <= k /\ k <= Len(s) /\ k + 1 \in Int /\ Len(s) \in Int
      /\ 1 <= k + 1
  OBVIOUS
<1>2. PICK a : From(s, k) = a
  OBVIOUS
<1>3. PICK c : From(s, k + 1) = c
  OBVIOUS
<1>4. PICK o : <<s[k]>> = o
  BY Zenon
<1>5. /\ a \in Seq(Nodes) /\ Len(a) = Len(s) - k + 1
      /\ \A i \in 1 .. Len(s) - k + 1 : a[i] = s[k + i - 1]
  <2>1. /\ SubSeq(s, k, Len(s)) \in Seq(Nodes)
        /\ Len(SubSeq(s, k, Len(s))) = IF k <= Len(s) THEN Len(s) - k + 1 ELSE 0
        /\ \A i \in 1 .. Len(s) - k + 1 : SubSeq(s, k, Len(s))[i] = s[k + i - 1]
    BY <1>1, SubSeqIs
  <2>2. SubSeq(s, k, Len(s)) = a
    BY <1>2 DEF From
  <2>3. /\ a \in Seq(Nodes)
        /\ Len(a) = IF k <= Len(s) THEN Len(s) - k + 1 ELSE 0
        /\ \A i \in 1 .. Len(s) - k + 1 : a[i] = s[k + i - 1]
    BY <2>1, <2>2, Zenon
  <2> QED BY <1>1, <2>3
<1>6. /\ c \in Seq(Nodes) /\ Len(c) = Len(s) - k
      /\ \A i \in 1 .. Len(s) - k : c[i] = s[k + i]
  <2>1. /\ SubSeq(s, k + 1, Len(s)) \in Seq(Nodes)
        /\ Len(SubSeq(s, k + 1, Len(s))) = IF k + 1 <= Len(s) THEN Len(s) - (k + 1) + 1 ELSE 0
        /\ \A i \in 1 .. Len(s) - (k + 1) + 1 :
             SubSeq(s, k + 1, Len(s))[i] = s[(k + 1) + i - 1]
    BY <1>1, SubSeqIs
  <2>2. SubSeq(s, k + 1, Len(s)) = c
    BY <1>3 DEF From
  <2>3. /\ c \in Seq(Nodes)
        /\ Len(c) = IF k + 1 <= Len(s) THEN Len(s) - (k + 1) + 1 ELSE 0
        /\ \A i \in 1 .. Len(s) - (k + 1) + 1 : c[i] = s[(k + 1) + i - 1]
    BY <2>1, <2>2, Zenon
  <2>4. \A i \in 1 .. Len(s) - k : i \in 1 .. Len(s) - (k + 1) + 1 /\ (k + 1) + i - 1 = k + i
    BY <1>1
  <2> QED BY <1>1, <2>3, <2>4
<1>7. o \in Seq(Nodes) /\ Len(o) = 1 /\ o[1] = s[k]
  <2>1. s[k] \in Nodes
    OBVIOUS
  <2>2. \A x \in Nodes : <<x>> \in Seq(Nodes) /\ Len(<<x>>) = 1 /\ <<x>>[1] = x
    OBVIOUS
  <2> QED BY <1>4, <2>1, <2>2, Zenon
<1>8. PICK e : o \o c = e
  BY Zenon
<1>9. /\ e \in Seq(Nodes) /\ Len(e) = Len(o) + Len(c)
      /\ \A i \in 1 .. Len(o) + Len(c) : e[i] = IF i <= Len(o) THEN o[i] ELSE c[i - Len(o)]
  BY <1>6, <1>7, <1>8, ConcatIs, Zenon
<1>10. \A i \in 1 .. Len(a) : a[i] = e[i]
  <2> SUFFICES ASSUME NEW i \in 1 .. Len(a) PROVE a[i] = e[i]
    OBVIOUS
  <2>1. i \in Int /\ 1 <= i /\ i <= Len(s) - k + 1 /\ i \in 1 .. Len(o) + Len(c)
    BY <1>1, <1>5, <1>6, <1>7
  <2>2. CASE i = 1
    <3>1. 1 \in 1 .. Len(s) - k + 1 /\ k + 1 - 1 = k
      BY <1>1
    <3>2. a[1] = s[k]
      BY <1>5, <3>1
    <3>3. e[1] = o[1]
      BY <1>7, <1>9, <2>1, <2>2
    <3> QED BY <1>7, <2>2, <3>2, <3>3
  <2>3. CASE i > 1
    <3>1. i - 1 \in 1 .. Len(s) - k /\ k + (i - 1) = k + i - 1
      BY <1>1, <2>1, <2>3
    <3>2. e[i] = c[i - 1]
      BY <1>7, <1>9, <2>1, <2>3
    <3>3. a[i] = s[k + i - 1]
      BY <1>1, <1>5, <2>1
    <3> QED BY <1>6, <3>1, <3>2, <3>3, Zenon
  <2> QED BY <2>1, <2>2, <2>3
<1>11. Len(a) = Len(e)
  BY <1>1, <1>5, <1>6, <1>7, <1>9
<1>12. a = e
  BY <1>5, <1>9, <1>10, <1>11, SeqsApart
<1> QED BY <1>2, <1>3, <1>4, <1>8, <1>12, Zenon

\* The walk of the whole tree is its order.
LEMMA WalkIs ==
  ASSUME NEW t, NEW g, Sound(t, g)
  PROVE  Walk(t) = Listed(g)
<1> DEFINE D == InTree(t) \cup {Sentinel}
           Step(f, m) == IF m = Sentinel THEN <<>> ELSE <<m>> \o f[Successor(t, m)]
           Made(f) == f = [m \in D |-> Step(f, m)]
           w == [m \in D |-> From(Listed(g), g.pos[m])]
<1>1. t \in Trees /\ Shape(t.kid, t.parent, g) /\ D = InCells(t.parent) /\ g.size \in Nat
      /\ g.size >= 1 /\ D \subseteq Cells
  BY SizeBound, CellFacts DEF Sound, InTree, InCells, InNodes
<1>2. PICK l : Listed(g) = l
  OBVIOUS
<1>3. l \in Seq(Nodes) /\ Len(l) = g.size - 1 /\ \A i \in 1 .. g.size - 1 : l[i] = g.at[i]
  BY <1>2, ListedIs
<1>4. /\ g.pos[Sentinel] = g.size
      /\ \A m \in D : g.pos[m] \in 1 .. g.size /\ g.at[g.pos[m]] = m
      /\ \A i \in 1 .. g.size : g.at[i] \in D /\ g.pos[g.at[i]] = i
  <2>1. g.pos[Sentinel] = g.size /\ \A i \in 1 .. g.size : g.at[i] \in D /\ g.pos[g.at[i]] = i
    BY <1>1 DEF Shape, Numbered
  <2>2. ASSUME NEW m \in D PROVE g.pos[m] \in 1 .. g.size /\ g.at[g.pos[m]] = m
    <3>1. g.pos[m] \in Int /\ g.lo[m] \in Int /\ g.hi[m] \in Int
      BY <1>1 DEF Shape, Numbered, Orders
    <3>2. /\ 1 <= g.lo[m] /\ g.lo[m] <= g.pos[m] /\ g.pos[m] <= g.hi[m] /\ g.hi[m] <= g.size
          /\ g.at[g.pos[m]] = m
      BY <1>1 DEF Shape, Numbered
    <3> QED BY <1>1, <3>1, <3>2
  <2> QED BY <2>1, <2>2
<1>5. ASSUME NEW m \in D, m # Sentinel
      PROVE  /\ g.pos[m] \in 1 .. Len(l) /\ l[g.pos[m]] = m /\ g.pos[m] + 1 \in 1 .. g.size
             /\ Successor(t, m) \in D /\ g.pos[Successor(t, m)] = g.pos[m] + 1
  <2>1. g.pos[m] \in 1 .. g.size /\ g.pos[m] # g.size
    BY <1>1, <1>4, <1>5
  <2>2. g.pos[m] \in 1 .. Len(l) /\ g.pos[m] + 1 \in 1 .. g.size
    BY <1>1, <1>3, <2>1
  <2>3. Successor(t, m) = g.at[g.pos[m] + 1]
    BY <1>5, SuccessorIs
  <2> QED BY <1>3, <1>4, <2>2, <2>3, ZenonT(30)
<1> HIDE DEF D
<1>6. \A m \in D : From(l, g.pos[m]) = IF m = Sentinel THEN <<>>
                                       ELSE <<m>> \o From(l, g.pos[Successor(t, m)])
  <2> SUFFICES ASSUME NEW m \in D
               PROVE  From(l, g.pos[m]) = IF m = Sentinel THEN <<>>
                                          ELSE <<m>> \o From(l, g.pos[Successor(t, m)])
    BY Zenon
  <2>1. CASE m = Sentinel
    <3>1. From(l, g.pos[m]) = SubSeq(l, g.size, g.size - 1)
      BY <1>3, <1>4, <2>1 DEF From
    <3>2. SubSeq(l, g.size, g.size - 1) = <<>>
      BY <1>1, <1>3
    <3> QED BY <2>1, <3>1, <3>2, Zenon
  <2>2. CASE m # Sentinel
    <3>1. /\ g.pos[m] \in 1 .. Len(l) /\ l[g.pos[m]] = m
          /\ g.pos[Successor(t, m)] = g.pos[m] + 1
      BY <1>5, <2>2
    <3>2. From(l, g.pos[m]) = <<l[g.pos[m]]>> \o From(l, g.pos[m] + 1)
      BY <1>3, <3>1, FromIs
    <3> QED BY <2>2, <3>1, <3>2, Zenon
  <2> QED BY <2>1, <2>2
<1>7. \E f : Made(f)
  <2>1. \A m \in D : w[m] = From(l, g.pos[m])
    BY <1>2, Zenon
  <2>2. \A m \in D : m # Sentinel => Successor(t, m) \in D
    BY <1>5
  <2>3. \A m \in D : w[m] = Step(w, m)
    <3> HIDE DEF w
    <3> SUFFICES ASSUME NEW m \in D PROVE w[m] = Step(w, m)
      BY Zenon
    <3>1. CASE m = Sentinel
      BY <1>6, <2>1, <3>1, Zenon
    <3>2. CASE m # Sentinel
      <4>1. Successor(t, m) \in D
        BY <2>2, <3>2
      <4>2. w[Successor(t, m)] = From(l, g.pos[Successor(t, m)])
        BY <2>1, <4>1, Zenon
      <4>3. w[m] = <<m>> \o From(l, g.pos[Successor(t, m)])
        BY <1>6, <2>1, <3>2, Zenon
      <4> QED BY <3>2, <4>2, <4>3, Zenon
    <3> QED BY <3>1, <3>2
  <2>4. Made(w)
    <3> HIDE DEF Step
    <3>1. w = [m \in D |-> w[m]]
      OBVIOUS
    <3> HIDE DEF w
    <3> QED BY <2>3, <3>1
  <2> QED BY <2>4, Zenon
<1>8. PICK f : f = CHOOSE x : Made(x)
  OBVIOUS
<1>9. Made(f)
  <2> HIDE DEF Made
  <2> QED BY <1>7, <1>8
<1>10. \A m \in D : f[m] = Step(f, m)
  <2>1. \A m \in D : [x \in D |-> Step(f, x)][m] = Step(f, m)
    <3> HIDE DEF Step
    <3> QED BY Zenon
  <2> HIDE DEF Step
  <2> QED BY <1>9, <2>1, Zenon
<1> DEFINE Right(m) == f[m] = From(l, g.pos[m])
           P == {k \in 0 .. g.size : \A m \in D : g.pos[m] >= g.size - k => Right(m)}
<1>11. ASSUME NEW m \in D, m # Sentinel => Right(Successor(t, m)) PROVE Right(m)
  <2>1. CASE m = Sentinel
    BY <1>6, <1>10, <2>1, Zenon
  <2>2. CASE m # Sentinel
    BY <1>6, <1>10, <1>11, <2>2, Zenon
  <2> QED BY <2>1, <2>2
<1> HIDE DEF Right
<1>12. 0 \in P
  <2> SUFFICES ASSUME NEW m \in D, g.pos[m] >= g.size - 0 PROVE Right(m)
    BY <1>1
  <2>1. g.pos[m] = g.size
    BY <1>1, <1>4
  <2>2. m = Sentinel
    BY <1>1, <1>4, <1>5, <1>3, <2>1
  <2> QED BY <1>11, <2>2
<1>13. ASSUME NEW k \in P, k < g.size PROVE k + 1 \in P
  <2>1. k + 1 \in 0 .. g.size /\ k \in Int
    BY <1>1, <1>13
  <2>2. ASSUME NEW m \in D, g.pos[m] >= g.size - (k + 1) PROVE Right(m)
    <3>1. CASE m = Sentinel
      BY <1>11, <3>1
    <3>2. CASE m # Sentinel
      <4>1. PICK y \in D : Successor(t, m) = y
        BY <1>5, <3>2
      <4>2. g.pos[y] = g.pos[m] + 1 /\ g.pos[m] \in Int
        BY <1>4, <1>5, <3>2, <4>1
      <4>3. g.pos[y] >= g.size - k
        BY <1>1, <2>1, <2>2, <4>2
      <4>4. Right(y)
        BY <1>13, <4>3
      <4> QED BY <1>11, <4>1, <4>4
    <3> QED BY <3>1, <3>2
  <2> QED BY <2>1, <2>2
<1>14. g.size \in P
  <2>1. P \in SUBSET (0 .. g.size)
    OBVIOUS
  <2> HIDE DEF P
  <2> QED BY <1>1, <1>12, <1>13, <2>1, CountUp
<1>15. First(t) = g.at[1] /\ 1 \in 1 .. g.size
  BY <1>1, SuccessorIs
<1>16. g.at[1] \in D /\ g.pos[g.at[1]] = 1
  BY <1>4, <1>15
<1>17. Right(g.at[1])
  <2>1. g.pos[g.at[1]] >= g.size - g.size
    BY <1>1, <1>16
  <2> QED BY <1>14, <1>16, <2>1
<1>18. f[First(t)] = From(l, 1)
  BY <1>15, <1>16, <1>17, Zenon DEF Right
<1>19. From(l, 1) = l
  <2>1. SubSeq(l, 1, Len(l)) = l
    BY <1>3
  <2> QED BY <2>1 DEF From
<1> QED BY <1>2, <1>8, <1>18, <1>19 DEF Walk, D

\* The height of a node is the number of black nodes of the paths below it.
LEMMA HeightIs ==
  ASSUME NEW t, NEW g, Sound(t, g), NEW b, Even(t, b, Sentinel, "left"),
         NEW n \in InTree(t) \cup {Sentinel}
  PROVE  Height(t, n) = b[n]
<1> DEFINE D == InTree(t) \cup {Sentinel}
           Step(f, m) == IF m = Sentinel THEN 0
                         ELSE LET k == t.kid["left"][m]
                              IN  f[k] + (IF k \in t.red THEN 0 ELSE 1)
           Made(f) == f = [m \in D |-> Step(f, m)]
           w == [m \in D |-> b[m]]
<1>1. t \in Trees /\ Shape(t.kid, t.parent, g) /\ D = InCells(t.parent) /\ g.size \in Nat
  BY SizeBound DEF Sound, InTree, InCells, InNodes
<1>2. /\ b \in [Cells -> Nat] /\ b[Sentinel] = 0
      /\ \A m \in InTree(t), q \in Sides : b[m] = b[t.kid[q][m]] + Weight(t, t.kid[q][m])
  BY <1>1, EvenWhole
<1>3. ASSUME NEW m \in D, m # Sentinel
      PROVE  LET k == t.kid["left"][m]
             IN  /\ k \in D /\ (k # Sentinel => g.pos[k] < g.pos[m])
                 /\ b[m] = b[k] + (IF k \in t.red THEN 0 ELSE 1)
  <2>1. PICK k : t.kid["left"][m] = k
    OBVIOUS
  <2>2. /\ k \in D
        /\ k # Sentinel => g.hi[k] = g.pos[m] - 1
    BY <1>1, <2>1 DEF Shape, LeftOf
  <2>3. g.pos[k] <= g.hi[k] /\ g.pos[k] \in Int /\ g.hi[k] \in Int /\ g.pos[m] \in Int
    BY <1>1, <2>2, CellFacts DEF Shape, Numbered, Orders
  <2>4. b[m] = b[k] + Weight(t, k)
    BY <1>2, <1>3, <2>1, CellFacts
  <2> QED BY <2>1, <2>2, <2>3, <2>4 DEF Weight
<1>4. \A m \in D : g.pos[m] \in Int /\ 1 <= g.pos[m] /\ g.pos[m] <= g.size
  BY <1>1, CellFacts DEF Shape, Numbered, Orders
<1> HIDE DEF D
<1>5. \E f : Made(f)
  <2>1. \A m \in D : w[m] = Step(w, m)
    BY <1>2, <1>3
  <2>2. Made(w)
    <3> HIDE DEF Step
    <3>1. w = [m \in D |-> w[m]]
      OBVIOUS
    <3> HIDE DEF w
    <3> QED BY <2>1, <3>1
  <2> QED BY <2>2, Zenon
<1>6. PICK f : f = CHOOSE x : Made(x)
  OBVIOUS
<1>7. Made(f)
  <2> HIDE DEF Made
  <2> QED BY <1>5, <1>6
<1>8. \A m \in D : f[m] = Step(f, m)
  <2>1. \A m \in D : [x \in D |-> Step(f, x)][m] = Step(f, m)
    <3> HIDE DEF Step
    <3> QED BY Zenon
  <2> HIDE DEF Step
  <2> QED BY <1>7, <2>1, Zenon
<1> DEFINE P == {k \in 0 .. g.size : \A m \in D : g.pos[m] <= k => f[m] = b[m]}
<1>9. 0 \in P
  BY <1>1, <1>4
<1>10. f[Sentinel] = b[Sentinel]
  <2>1. Sentinel \in D
    BY DEF D
  <2> QED BY <1>2, <1>8, <2>1
<1>11. ASSUME NEW k \in P, k < g.size PROVE k + 1 \in P
  <2>1. k + 1 \in 0 .. g.size /\ k \in Int
    BY <1>1, <1>11
  <2>2. ASSUME NEW m \in D, g.pos[m] <= k + 1 PROVE f[m] = b[m]
    <3>1. CASE m = Sentinel
      BY <1>10, <3>1
    <3>2. CASE m # Sentinel
      <4>1. PICK y \in D : t.kid["left"][m] = y
        BY <1>3, <3>2
      <4>2. (y # Sentinel => g.pos[y] < g.pos[m]) /\ b[m] = b[y] + (IF y \in t.red THEN 0 ELSE 1)
        BY <1>3, <3>2, <4>1
      <4>3. f[m] = f[y] + (IF y \in t.red THEN 0 ELSE 1)
        BY <1>8, <3>2, <4>1
      <4>4. f[y] = b[y]
        <5>1. CASE y = Sentinel
          BY <1>10, <5>1
        <5>2. CASE y # Sentinel
          <6>1. g.pos[y] <= k
            BY <1>4, <2>1, <2>2, <4>2, <5>2
          <6> QED BY <1>11, <6>1
        <5> QED BY <5>1, <5>2
      <4> QED BY <4>2, <4>3, <4>4
    <3> QED BY <3>1, <3>2
  <2> QED BY <2>1, <2>2
<1>12. g.size \in P
  <2>1. P \in SUBSET (0 .. g.size)
    OBVIOUS
  <2> HIDE DEF P
  <2> QED BY <1>1, <1>9, <1>11, <2>1, CountUp
<1>13. f[n] = b[n]
  <2>1. n \in D
    BY DEF D
  <2> QED BY <1>4, <1>12, <2>1
<1> QED BY <1>6, <1>13 DEF Height, D

-----------------------------------------------------------------------------
(* The invariant *)

\* An order and heights fit the tree.
RbInv == \E g, b : Balanced(tree, g, b)

\* The empty tree is balanced.
LEMMA EmptyBalanced ==
  ASSUME Init PROVE \E g, b : Balanced(tree, g, b) /\ Listed(g) = <<>>
<1> DEFINE ones == [c \in Cells |-> 1]
           g == [at |-> [i \in 1 .. 1 |-> Sentinel], size |-> 1,
                 pos |-> ones, lo |-> ones, hi |-> ones]
           b == [c \in Cells |-> 0]
<1>1. /\ tree.kid = [side \in Sides |-> [c \in Cells |->
                      IF c = Sentinel /\ side = "left" THEN Sentinel ELSE Null]]
      /\ tree.parent = [c \in Cells |-> Null] /\ tree.red = {}
      /\ tree = [kid |-> tree.kid, parent |-> tree.parent, red |-> tree.red]
  BY DEF Init
<1>2. tree \in Trees
  <2>1. tree.kid \in [Sides -> [Cells -> Cells \cup {Null}]]
    BY <1>1, CellFacts
  <2>2. tree.parent \in [Cells -> Cells \cup {Null}] /\ tree.red \in SUBSET Nodes
    BY <1>1
  <2> QED BY <1>1, <2>1, <2>2 DEF Trees
<1>3. InTree(tree) = {} /\ InNodes(tree.parent) = {} /\ InCells(tree.parent) = {Sentinel}
  BY <1>1, CellFacts DEF InTree, InNodes, InCells
<1>4. /\ g \in Orders /\ g.size = 1 /\ g.at[1] = Sentinel
      /\ g.pos[Sentinel] = 1 /\ g.lo[Sentinel] = 1 /\ g.hi[Sentinel] = 1
  <2>1. Sentinel \in Cells
    BY CellFacts
  <2>2. ones \in [Cells -> Int] /\ ones[Sentinel] = 1
    BY <2>1
  <2>3. [i \in 1 .. 1 |-> Sentinel] \in UNION {[1 .. m -> Cells] : m \in Nat}
    <3>1. [i \in 1 .. 1 |-> Sentinel] \in [1 .. 1 -> Cells] /\ 1 \in Nat
      BY <2>1
    <3> QED BY <3>1
  <2> HIDE DEF ones
  <2> QED BY <2>2, <2>3 DEF Orders
<1> HIDE DEF g
<1>5. Numbered(tree.parent, g)
  BY <1>3, <1>4 DEF Numbered
<1>6. tree.kid["left"][Sentinel] = Sentinel /\ tree.kid["right"][Sentinel] = Null
  BY <1>1, CellFacts
<1>7. LeftOf(tree.kid, tree.parent, g, Sentinel)
  BY <1>3, <1>4, <1>6 DEF LeftOf
<1>8. Shape(tree.kid, tree.parent, g)
  BY <1>2, <1>3, <1>5, <1>6, <1>7 DEF Shape, Trees
<1>9. Sound(tree, g)
  BY <1>1, <1>2, <1>8 DEF Sound
<1>10. Keyed(g)
  BY <1>4 DEF Keyed
<1>11. Even(tree, b, Sentinel, "left")
  <2>1. b \in [Cells -> Nat] /\ b[Sentinel] = 0
    BY CellFacts
  <2> HIDE DEF b
  <2> QED BY <1>3, <2>1 DEF Even
<1>12. Balanced(tree, g, b)
  BY <1>1, <1>9, <1>10, <1>11 DEF Balanced
<1>13. Listed(g) = <<>>
  <2>1. Listed(g) \in Seq(Nodes) /\ Len(Listed(g)) = 0
    BY <1>4, <1>9, ListedIs
  <2> QED BY <2>1, EmptySeq
<1> QED BY <1>12, <1>13

\* What one operation does to a balanced tree and its list.
LEMMA StepOK ==
  ASSUME NEW g, NEW b, Balanced(tree, g, b), Next
  PROVE  \E h, d : Balanced(tree', h, d) /\ Sorted!Step(Listed(g), Listed(h))
<1>1. Sound(tree, g)
  BY DEF Balanced
<1>2. PICK l : Listed(g) = l
  OBVIOUS
<1>3. l \in Seq(Nodes) /\ Len(l) = g.size - 1 /\ \A i \in 1 .. g.size - 1 : l[i] = g.at[i]
  BY <1>1, <1>2, ListedIs
<1>4. DOMAIN l = 1 .. g.size - 1 /\ g.size \in Nat /\ g.size >= 1
  <2>1. DOMAIN l = 1 .. Len(l)
    BY <1>3
  <2> QED BY <1>1, <1>3, <2>1, OrderEnds
<1>5. \A i \in 1 .. g.size - 1 : g.at[i] \in InTree(tree)
  BY <1>1, OrderEnds
<1>6. CASE \E n \in Nodes : Insert(n)
  <2>1. PICK n \in Nodes : n \notin InTree(tree) /\ tree' = InsertInto(tree, n)
    BY <1>6 DEF Insert
  <2>2. PICK u : InsertInto(tree, n) = u
    OBVIOUS
  <2>3. PICK h, d : Balanced(u, h, d) /\ Listed(h) = Sorted!Inserted(Listed(g), n)
    BY <2>1, <2>2, InsertOK
  <2>4. n \in Nodes \ Sorted!ToSet(l)
    <3>1. Sorted!ToSet(l) = {l[i] : i \in DOMAIN l}
      BY DEF Sorted!ToSet
    <3> QED BY <1>3, <1>4, <1>5, <2>1, <3>1
  <2>5. Sorted!Step(Listed(g), Listed(h))
    BY <1>2, <2>3, <2>4, Zenon DEF Sorted!Step
  <2> QED BY <2>1, <2>2, <2>3, <2>5
<1>7. CASE \E n \in Nodes : Delete(n)
  <2>1. PICK n \in Nodes : n \in InTree(tree) /\ tree' = DeleteFrom(tree, n)
    BY <1>7 DEF Delete
  <2>2. PICK u : DeleteFrom(tree, n) = u
    OBVIOUS
  <2>3. PICK h, d : /\ Balanced(u, h, d) /\ Removed(g, h, g.pos[n])
                    /\ Listed(h) = Sorted!RemoveAt(Listed(g), g.pos[n])
    BY <2>1, <2>2, DeleteOK
  <2>4. g.pos[n] \in DOMAIN l
    BY <1>4, <2>3 DEF Removed
  <2>5. Sorted!Step(Listed(g), Listed(h))
    BY <1>2, <2>3, <2>4, Zenon DEF Sorted!Step
  <2> QED BY <2>1, <2>2, <2>3, <2>5
<1>8. CASE \E k \in {Key[n] : n \in Nodes} : Expire(k)
  <2>1. PICK k \in {Key[n] : n \in Nodes} : tree' = ExpireTo(tree, k)
    BY <1>8 DEF Expire
  <2>2. k \in Int
    BY <2>1, KeyAssumption
  <2>3. PICK u : ExpireTo(tree, k) = u
    OBVIOUS
  <2>4. PICK h, d : /\ Balanced(u, h, d)
                    /\ Listed(h) = SubSeq(Listed(g), Sorted!UpTo(Listed(g), k) + 1,
                                          Len(Listed(g)))
    BY <2>2, <2>3, ExpireOK
  <2>5. Sorted!Step(Listed(g), Listed(h))
    BY <2>1, <2>4, Zenon DEF Sorted!Step
  <2> QED BY <2>1, <2>3, <2>4, <2>5, Zenon
<1> QED BY <1>6, <1>7, <1>8 DEF Next

\* RbInv holds of every tree the operations make.
THEOREM AlwaysBalanced == Spec => []RbInv
<1>1. Init => RbInv
  BY EmptyBalanced DEF RbInv
<1>2. RbInv /\ [Next]_tree => RbInv'
  <2> SUFFICES ASSUME RbInv, [Next]_tree PROVE RbInv'
    OBVIOUS
  <2>1. PICK g, b : Balanced(tree, g, b)
    BY DEF RbInv
  <2>2. CASE Next
    <3>1. PICK h, d : Balanced(tree', h, d)
      BY <2>1, <2>2, StepOK
    <3> QED BY <3>1 DEF RbInv
  <2>3. CASE UNCHANGED tree
    <3>1. Balanced(tree', g, b)
      BY <2>1, <2>3
    <3> QED BY <3>1 DEF RbInv
  <2> QED BY <2>2, <2>3
<1> QED BY <1>1, <1>2, PTL DEF Spec

-----------------------------------------------------------------------------
(* The theorems *)

\* Type correctness of the tree.
THEOREM TypeCorrect == Spec => []TypeOK
<1>1. RbInv => TypeOK
  <2> SUFFICES ASSUME NEW g, NEW b, Balanced(tree, g, b) PROVE TypeOK
    BY DEF RbInv
  <2>1. tree \in Trees /\ tree.red \subseteq InTree(tree)
    BY DEF Balanced, Sound
  <2> QED BY <2>1 DEF TypeOK, Trees
<1> QED BY <1>1, AlwaysBalanced, PTL

\* Whatever is inserted, deleted and expired, parents and children agree and
\* no link of the tree leads to a node that was taken off it.
THEOREM TreeLinked == Spec => []Linked
<1>1. RbInv => Linked
  <2> SUFFICES ASSUME NEW g, NEW b, Balanced(tree, g, b) PROVE Linked
    BY DEF RbInv
  <2>1. tree \in Trees /\ Shape(tree.kid, tree.parent, g)
    BY DEF Balanced, Sound
  <2>2. Root(tree) # Sentinel => tree.parent[Root(tree)] = Sentinel
    BY <2>1, CellFacts DEF Root, Shape, LeftOf
  <2>3. InTree(tree) \cup {Sentinel} = InCells(tree.parent) /\ InTree(tree) = InNodes(tree.parent)
    BY DEF InTree, InNodes, InCells
  <2>4. ASSUME NEW n \in InTree(tree)
        PROVE  /\ tree.parent[n] \in InTree(tree) \cup {Sentinel}
               /\ n \in {tree.kid["left"][tree.parent[n]], tree.kid["right"][tree.parent[n]]}
    BY <2>1, <2>3, <2>4 DEF Shape, Below
  <2>5. ASSUME NEW n \in InTree(tree), NEW side \in Sides, NEW k, tree.kid[side][n] = k,
               k # Sentinel
        PROVE  k \in InTree(tree) /\ tree.parent[k] = n
    BY <2>1, <2>5, DownFacts
  <2> QED BY <2>2, <2>4, <2>5 DEF Linked
<1> QED BY <1>1, AlwaysBalanced, PTL

\* After every operation the tree is balanced, so a search is as short as the
\* colours promise.
THEOREM TreeBalanced == Spec => []RedBlack
<1>1. RbInv => RedBlack
  <2> SUFFICES ASSUME NEW g, NEW b, Balanced(tree, g, b) PROVE RedBlack
    BY DEF RbInv
  <2>1. /\ Sound(tree, g) /\ tree \in Trees /\ Shape(tree.kid, tree.parent, g)
        /\ Even(tree, b, Sentinel, "left")
        /\ Root(tree) \notin tree.red
        /\ \A m \in tree.red, q \in Sides : tree.kid[q][m] \notin tree.red
    BY DEF Balanced, Sound
  <2>2. \A n \in InTree(tree), q \in Sides :
          b[n] = b[tree.kid[q][n]] + Weight(tree, tree.kid[q][n])
    BY <2>1, EvenWhole
  <2>3. ASSUME NEW n \in InTree(tree), NEW side \in Sides, NEW k, tree.kid[side][n] = k
        PROVE  Height(tree, n) = Height(tree, k) + (IF k \in tree.red THEN 0 ELSE 1)
    <3>1. k \in InTree(tree) \cup {Sentinel}
      BY <2>1, <2>3, DownFacts
    <3>2. Height(tree, n) = b[n] /\ Height(tree, k) = b[k]
      BY <2>1, <3>1, HeightIs
    <3>3. b[n] = b[k] + Weight(tree, k)
      BY <2>2, <2>3
    <3> QED BY <3>2, <3>3 DEF Weight
  <2> QED BY <2>1, <2>3 DEF RedBlack
<1> QED BY <1>1, AlwaysBalanced, PTL

\* The walk by successors is the sorted list: no operation loses a timer, meets
\* one twice, swaps two of the same time, or expires one that is not due.
THEOREM WalkKeepsOrder == Spec => KeepsOrder
<1>1. Init => Sorted!Init
  <2> SUFFICES ASSUME Init PROVE Sorted!Init
    OBVIOUS
  <2>1. PICK g, b : Balanced(tree, g, b) /\ Listed(g) = <<>>
    BY EmptyBalanced
  <2>2. Walk(tree) = Listed(g)
    BY <2>1, WalkIs DEF Balanced
  <2> QED BY <2>1, <2>2 DEF Sorted!Init
<1>2. RbInv /\ [Next]_tree => [Sorted!Next]_(Walk(tree))
  <2> SUFFICES ASSUME RbInv, [Next]_tree PROVE [Sorted!Next]_(Walk(tree))
    OBVIOUS
  <2>1. PICK g, b : Balanced(tree, g, b)
    BY DEF RbInv
  <2>2. Walk(tree) = Listed(g)
    BY <2>1, WalkIs DEF Balanced
  <2>3. CASE Next
    <3>1. PICK h, d : Balanced(tree', h, d) /\ Sorted!Step(Listed(g), Listed(h))
      BY <2>1, <2>3, StepOK
    <3>2. Walk(tree') = Listed(h)
      BY <3>1, WalkIs DEF Balanced
    <3>3. Walk(tree)' = Listed(h)
      BY <3>2
    <3>4. Sorted!Step(Walk(tree), Walk(tree)')
      BY <2>2, <3>1, <3>3, Zenon
    <3> QED BY <3>4, Zenon DEF Sorted!Next
  <2>4. CASE UNCHANGED tree
    <3>1. Walk(tree)' = Walk(tree)
      BY <2>4
    <3> QED BY <3>1
  <2> QED BY <2>3, <2>4
<1> QED BY <1>1, <1>2, AlwaysBalanced, PTL DEF Spec, KeepsOrder, Sorted!Spec
===============================================================================
