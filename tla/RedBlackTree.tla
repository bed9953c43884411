---------------------------- MODULE RedBlackTree ----------------------------
(***************************************************************************)
(* The red-black tree of src/node_v0.6.19/local/include/node/uv-private/   *)
(* tree.h, in which the runtime keeps timers by their time where the       *)
(* system's event loop does not (deps/uv/src/win/timer.c). A node is its   *)
(* key. Each pass of a loop that restores the colours is an action: what   *)
(* the loop must have in between is what the end of it shows.              *)
(***************************************************************************)
EXTENDS Integers, FiniteSets

CONSTANT MaxNode       \* nodes are 1 .. MaxNode

Null == 0
Nodes == 1 .. MaxNode

VARIABLES tree,        \* rbh_root and the rbe_ fields of every node
          fixing,      \* the loop in progress: which, elm and parent
          members      \* nodes inserted and not removed (history)
rbVars == <<tree, fixing, members>>

NoLoop == [loop |-> "none", elm |-> Null, parent |-> Null]

RbInit ==
    /\ tree = [root   |-> Null,
               left   |-> [n \in Nodes |-> Null], right |-> [n \in Nodes |-> Null],
               parent |-> [n \in Nodes |-> Null], color |-> [n \in Nodes |-> "black"]]
    /\ fixing = NoLoop
    /\ members = {}

-----------------------------------------------------------------------------
(* Looking up *)

IsRed(t, n) == n # Null /\ t.color[n] = "red"

\* MINMAX, from node n down one side.
Outermost(t, n, side) ==
    LET walk[m \in Nodes] == IF t[side][m] = Null THEN m ELSE walk[t[side][m]]
    IN IF n = Null THEN Null ELSE walk[n]

RbMin(t) == Outermost(t, t.root, "left")
RbMax(t) == Outermost(t, t.root, "right")

\* The node at which the descent for key k ends: k, or the parent it would have.
Descent(t, k) ==
    LET walk[m \in Nodes] ==
          LET next == IF k < m THEN t.left[m] ELSE t.right[m]
          IN IF k = m \/ next = Null THEN m ELSE walk[next]
    IN IF t.root = Null THEN Null ELSE walk[t.root]

RbFind(t, k) == IF Descent(t, k) = k THEN k ELSE Null

\* NFIND: the first node at or above key k.
RbNFind(t, k) ==
    LET walk[m \in Nodes \cup {Null}] ==
          IF m = Null THEN Null
          ELSE IF k = m THEN m
          ELSE IF k > m THEN walk[t.right[m]]
          ELSE LET below == walk[t.left[m]] IN IF below = Null THEN m ELSE below
    IN walk[t.root]

\* NEXT and PREV: down the far side's near edge, or up until the way came from
\* the near side.
Neighbour(t, n, near, far) ==
    LET climb[m \in Nodes] ==
          LET up == t.parent[m]
          IN IF up # Null /\ m = t[far][up] THEN climb[up] ELSE up
    IN IF t[far][n] # Null THEN Outermost(t, t[far][n], near) ELSE climb[n]

RbNext(t, n) == Neighbour(t, n, "left", "right")
RbPrev(t, n) == Neighbour(t, n, "right", "left")

-----------------------------------------------------------------------------
(* Changing pointers *)

Point(t, field, n, to) == IF n = Null THEN t ELSE [t EXCEPT ![field][n] = to]

\* The pointer that held old, in its parent or in the head, holds new.
Hang(t, parent, old, new) ==
    IF parent = Null THEN [t EXCEPT !.root = new]
    ELSE Point(t, IF t.left[parent] = old THEN "left" ELSE "right", parent, new)

\* Mutant: the child that changes sides keeps its parent.
RotateLoose(t, n, near, far) ==
    LET up == t[far][n]
        moved == [t EXCEPT ![far][n] = t[near][up], !.parent[up] = t.parent[n]]
    IN [Hang(moved, t.parent[n], n, up) EXCEPT ![near][up] = n, !.parent[n] = up]

\* RB_ROTATE_LEFT for near = left, RB_ROTATE_RIGHT for near = right.
Rotate(t, n, near, far) ==
    LET up == t[far][n]
        moved == Point([t EXCEPT ![far][n] = t[near][up], !.parent[up] = t.parent[n]],
                       "parent", t[near][up], n)
    IN [Hang(moved, t.parent[n], n, up) EXCEPT ![near][up] = n, !.parent[n] = up]

BlackRed(t, black, red) == [t EXCEPT !.color[black] = "black", !.color[red] = "red"]

-----------------------------------------------------------------------------
(* Insertion *)

RbInsert(n) ==
    /\ fixing = NoLoop
    /\ RbFind(tree, n) = Null
    /\ LET parent == Descent(tree, n)
           set == [tree EXCEPT !.parent[n] = parent, !.left[n] = Null, !.right[n] = Null,
                               !.color[n] = "red"]
       IN tree' = IF parent = Null THEN [set EXCEPT !.root = n]
                  ELSE Point(set, IF n < parent THEN "left" ELSE "right", parent, n)
    /\ fixing' = [loop |-> "insert", elm |-> n, parent |-> Null]
    /\ members' = members \cup {n}

\* A red parent has a parent, and near is the side of it that it is on.
InsertPass(t, n, near, far) ==
    LET parent == t.parent[n]
        gparent == t.parent[parent]
        uncle == t[far][gparent]
        inner == t[far][parent] = n
        straight == IF inner THEN Rotate(t, parent, near, far) ELSE t
        top == IF inner THEN n ELSE parent
    IN IF IsRed(t, uncle)
       THEN [tree |-> BlackRed([t EXCEPT !.color[uncle] = "black"], parent, gparent),
             elm |-> gparent]
       ELSE [tree |-> Rotate(BlackRed(straight, top, gparent), gparent, far, near),
             elm |-> IF inner THEN parent ELSE n]

InsertColor ==
    /\ fixing.loop = "insert"
    /\ LET n == fixing.elm
           parent == tree.parent[n]
       IN IF IsRed(tree, parent)
          THEN LET left == tree.left[tree.parent[parent]] = parent
                   pass == IF left THEN InsertPass(tree, n, "left", "right")
                           ELSE InsertPass(tree, n, "right", "left")
               IN /\ tree' = pass.tree
                  /\ fixing' = [fixing EXCEPT !.elm = pass.elm]
          ELSE /\ tree' = [tree EXCEPT !.color[tree.root] = "black"]
               /\ fixing' = NoLoop
    /\ UNCHANGED members

-----------------------------------------------------------------------------
(* Removal *)

\* A node with at most one child: the child takes its place.
Spliced(t, n) ==
    LET child == IF t.left[n] = Null THEN t.right[n] ELSE t.left[n]
        parent == t.parent[n]
    IN [tree |-> Hang(Point(t, "parent", child, parent), parent, n, child),
        parent |-> parent, child |-> child, color |-> t.color[n]]

\* A node with two: the next node leaves its place for the place, the children
\* and the colour of the one that goes.
Exchanged(t, old) ==
    LET n == Outermost(t, t.right[old], "left")
        cut == Spliced(t, n)
        u == cut.tree
        copied == [u EXCEPT !.left[n] = u.left[old], !.right[n] = u.right[old],
                            !.parent[n] = u.parent[old], !.color[n] = u.color[old]]
        hung == Hang(copied, u.parent[old], old, n)
    IN [cut EXCEPT !.tree = Point(Point(hung, "parent", u.left[old], n), "parent", u.right[old], n),
                   !.parent = IF t.parent[n] = old THEN n ELSE @]

\* RB_SET clears the fields of a node before it is inserted, so what they hold
\* outside the tree is left out.
Forget(t, n) ==
    [t EXCEPT !.left[n] = Null, !.right[n] = Null, !.parent[n] = Null, !.color[n] = "black"]

RbRemove(old) ==
    /\ fixing = NoLoop
    /\ RbFind(tree, old) = old
    /\ LET cut == IF tree.left[old] = Null \/ tree.right[old] = Null
                  THEN Spliced(tree, old) ELSE Exchanged(tree, old)
       IN /\ tree' = Forget(cut.tree, old)
          /\ fixing' = IF cut.color = "black"
                       THEN [loop |-> "remove", elm |-> cut.child, parent |-> cut.parent]
                       ELSE NoLoop
    /\ members' = members \ {old}

\* The sibling has a red child: with a rotation or two the passes end.
RemovePass(t, parent, near, far) ==
    LET sibling == t[far][parent]
        inner == t[near][sibling]
        turned == IF IsRed(t, t[far][sibling]) THEN t
                  ELSE Rotate([Point(t, "color", inner, "black") EXCEPT !.color[sibling] = "red"],
                              sibling, far, near)
        brother == turned[far][parent]
        even == [turned EXCEPT !.color[brother] = turned.color[parent], !.color[parent] = "black"]
    IN Rotate(Point(even, "color", turned[far][brother], "black"), parent, near, far)

\* One pass of RB_REMOVE_COLOR where elm is on the near side of parent.
RemoveSide(near, far) ==
    LET parent == fixing.parent
        first == tree[far][parent]
        t == IF IsRed(tree, first) THEN Rotate(BlackRed(tree, first, parent), parent, near, far)
             ELSE tree
        sibling == t[far][parent]
    IN IF ~IsRed(t, t.left[sibling]) /\ ~IsRed(t, t.right[sibling])
       THEN /\ tree' = [t EXCEPT !.color[sibling] = "red"]
            /\ fixing' = [fixing EXCEPT !.elm = parent, !.parent = t.parent[parent]]
       ELSE LET done == RemovePass(t, parent, near, far)
            IN /\ tree' = done
               /\ fixing' = [fixing EXCEPT !.elm = done.root]

RemoveColor ==
    /\ fixing.loop = "remove"
    /\ IF ~IsRed(tree, fixing.elm) /\ fixing.elm # tree.root
       THEN IF tree.left[fixing.parent] = fixing.elm THEN RemoveSide("left", "right")
            ELSE RemoveSide("right", "left")
       ELSE /\ tree' = Point(tree, "color", fixing.elm, "black")
            /\ fixing' = NoLoop
    /\ UNCHANGED members

RbStep ==   \/ \E n \in Nodes : RbInsert(n) \/ RbRemove(n)
           \/ InsertColor \/ RemoveColor

RbSpec == RbInit /\ [][RbStep]_rbVars
-----------------------------------------------------------------------------
(* Properties *)

\* Types of the fields.
RbTypeOK ==
    /\ tree.root \in Nodes \cup {Null}
    /\ {tree.left, tree.right, tree.parent} \subseteq [Nodes -> Nodes \cup {Null}]
    /\ tree.color \in [Nodes -> {"red", "black"}]
    /\ fixing.loop \in {"none", "insert", "remove"}

\* What is in the tree is what has been inserted and not removed: each look-up
\* gives what it would give in the set of the members, in the middle of a
\* rebalancing too.
LookUpsRight ==
    /\ members = {} <=> tree.root = Null
    /\ \A k \in Nodes :
         LET above == {m \in members : m > k}
             below == {m \in members : m < k}
             from == {m \in members : m >= k}
         IN /\ RbFind(tree, k) = (IF k \in members THEN k ELSE Null)
            /\ IF from = {} THEN RbNFind(tree, k) = Null
               ELSE RbNFind(tree, k) \in from /\ \A m \in from : RbNFind(tree, k) =< m
            /\ k \in members =>
                 /\ IF above = {} THEN RbNext(tree, k) = Null
                    ELSE RbNext(tree, k) \in above /\ \A m \in above : RbNext(tree, k) =< m
                 /\ IF below = {} THEN RbPrev(tree, k) = Null
                    ELSE RbPrev(tree, k) \in below /\ \A m \in below : RbPrev(tree, k) >= m
                 /\ RbMin(tree) =< k /\ k =< RbMax(tree)

\* Black nodes on the way from a node to the end; -1 if two ways differ or red
\* follows red.
BlackHeight(t) ==
    LET height[n \in Nodes \cup {Null}] ==
          IF n = Null THEN 0
          ELSE LET l == height[t.left[n]]
                   r == height[t.right[n]]
               IN IF l # r \/ l = -1 \/ (IsRed(t, n) /\ (IsRed(t, t.left[n]) \/ IsRed(t, t.right[n])))
                  THEN -1
                  ELSE IF IsRed(t, n) THEN l ELSE l + 1
    IN height[t.root]

\* When no insertion or removal is going on, every way from the root to the
\* end has as many black nodes as any other, no red node has a red child and
\* the root is black: no way is more than twice as long as another.
Balanced == fixing = NoLoop => ~IsRed(tree, tree.root) /\ BlackHeight(tree) # -1
=============================================================================
