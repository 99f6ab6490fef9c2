---------------------------- MODULE RedBlackTree ----------------------------
(***************************************************************************)
(* zen::map (src/containers/associative/map.h): a red-black tree of nodes  *)
(* with parent pointers and one sentinel nil_, which stands for every leaf *)
(* and for the parent of the root, and whose own parent pointer is the     *)
(* root between two operations.                                            *)
(*                                                                         *)
(* A node is named by its key.  The code's mirrored branches are one       *)
(* branch here, with the side as a parameter.  A case of a fixup loop is a *)
(* step.                                                                   *)
(***************************************************************************)
EXTENDS Integers, FiniteSets

CONSTANTS
    Keys,  \* the keys that may be inserted
    Nil    \* nil_

ASSUME KeysAssumption == Keys \subseteq Int /\ IsFiniteSet(Keys)
ASSUME NilAssumption == Nil \notin Keys

VARIABLES
    node,     \* the fields of each node, and of nil_
    root,     \* root_
    op,       \* the fixup loop that is running, if any
    cur,      \* its z or x
    size,     \* size_
    content   \* the keys in the map (history)

treeVars == <<node, root, op, cur, size, content>>

Nodes == Keys \cup {Nil}
Sides == {"left", "right"}
Other(side) == IF side = "left" THEN "right" ELSE "left"

\* init_nil(); what a node that is not allocated looks like, too.
Blank == [left |-> Nil, right |-> Nil, parent |-> Nil, red |-> FALSE]
\* make_node().
NewNode == [Blank EXCEPT !.red = TRUE]

Init ==
    /\ node = [n \in Nodes |-> Blank]
    /\ root = Nil
    /\ op = "idle"
    /\ cur = Nil
    /\ size = 0
    /\ content = {}

TypeOK ==
    /\ node \in [Nodes -> [left : Nodes, right : Nodes, parent : Nodes, red : BOOLEAN]]
    /\ root \in Nodes
    /\ op \in {"idle", "insert", "erase"}
    /\ cur \in Nodes
    /\ size \in Nat
    /\ content \subseteq Keys
-----------------------------------------------------------------------------
Tree == [node |-> node, root |-> root]

\* The side of its parent on which n hangs; the code asks for the left first.
SideOf(t, n) == IF n = t.node[t.node[n].parent].left THEN "left" ELSE "right"

\* The first lines of transplant() and the middle ones of the rotations: v
\* takes the place of u below u's parent.
Replace(t, u, v) ==
    LET p == t.node[u].parent
    IN IF p = Nil THEN [t EXCEPT !.root = v]
       ELSE [t EXCEPT !.node[p][SideOf(t, u)] = v]

\* transplant(u, v): nil_ gets a parent as well.
Transplant(t, u, v) == [Replace(t, u, v) EXCEPT !.node[v].parent = t.node[u].parent]

\* Fault: the child that changes sides keeps its parent pointer.
RotateForgetsParent(t, side, x) ==
    LET y == t.node[x][Other(side)]
    IN [Replace(t, x, y) EXCEPT
          !.node[x][Other(side)] = t.node[y][side],
          !.node[y].parent = t.node[x].parent,
          !.node[y][side] = x,
          !.node[x].parent = y]

\* left_rotate(x) and right_rotate(x): x goes down to the given side.
Rotate(t, side, x) ==
    LET y == t.node[x][Other(side)]
        inner == t.node[y][side]
        u == IF inner = Nil THEN t ELSE [t EXCEPT !.node[inner].parent = x]
    IN [Replace(u, x, y) EXCEPT
          !.node[x][Other(side)] = inner,
          !.node[y].parent = t.node[x].parent,
          !.node[y][side] = x,
          !.node[x].parent = y]

Paint(t, n, red) == [t EXCEPT !.node[n].red = red]
Red(n) == node[n].red

Become(t) == node' = t.node /\ root' = t.root
-----------------------------------------------------------------------------
\* find_node(): the node with that key, or nil_.
Find(key) ==
    LET from[n \in Nodes] ==
          IF n = Nil \/ n = key THEN n
          ELSE from[IF key < n THEN node[n].left ELSE node[n].right]
    IN from[root]

\* insert_node(): the node below which a new key goes.
Place(key) ==
    LET from[n \in Nodes] ==
          LET next == IF key < n THEN node[n].left ELSE node[n].right
          IN IF next = Nil THEN n ELSE from[next]
    IN IF root = Nil THEN Nil ELSE from[root]

\* insert_node() of a key that is not there: a red leaf, and the fixup begins.
InsertNode(key) ==
    /\ LET y == Place(key)
           t == [Tree EXCEPT !.node[key] = [NewNode EXCEPT !.parent = y]]
       IN Become(IF y = Nil THEN [t EXCEPT !.root = key]
                 ELSE [t EXCEPT !.node[y][IF key < y THEN "left" ELSE "right"] = key])
    /\ op' = "insert"
    /\ cur' = key
    /\ size' = size + 1
    /\ content' = content \cup {key}

\* find(), contains(), count().
Contains(key) == Find(key) # Nil

\* operator[], insert() and emplace(), which change nothing when the key is there.
Insert(key) == op = "idle" /\ ~Contains(key) /\ InsertNode(key)

\* The loop of insert_fixup() goes on while the parent is red.
Parent == node[cur].parent
Grand == node[Parent].parent
RedParent == op = "insert" /\ Red(Parent)
ParentSide == SideOf(Tree, Parent)
Uncle == node[Grand][Other(ParentSide)]

\* Case 1: the uncle is red, the colours change and the problem moves up.
InsertRecolor ==
    /\ RedParent
    /\ Red(Uncle)
    /\ Become(Paint(Paint(Paint(Tree, Parent, FALSE), Uncle, FALSE), Grand, TRUE))
    /\ cur' = Grand
    /\ UNCHANGED <<op, size, content>>

\* Case 2: an inner grandchild is rotated outwards.
InsertInner ==
    /\ RedParent
    /\ ~Red(Uncle)
    /\ cur = node[Parent][Other(ParentSide)]
    /\ cur' = Parent
    /\ Become(Rotate(Tree, ParentSide, Parent))
    /\ UNCHANGED <<op, size, content>>

\* Case 3: an outer one; the grandparent goes down on the other side.
InsertOuter ==
    /\ RedParent
    /\ ~Red(Uncle)
    /\ cur # node[Parent][Other(ParentSide)]
    /\ Become(Rotate(Paint(Paint(Tree, Parent, FALSE), Grand, TRUE), Other(ParentSide), Grand))
    /\ UNCHANGED <<op, cur, size, content>>

\* The root is painted black, and nil_->parent set for --end().
InsertEnds ==
    /\ op = "insert"
    /\ ~Red(Parent)
    /\ Become([Paint(Tree, root, FALSE) EXCEPT !.node[Nil].parent = root])
    /\ op' = "idle"
    /\ cur' = Nil
    /\ UNCHANGED <<size, content>>
-----------------------------------------------------------------------------
\* tree_minimum(), and the maximum that --end() looks for.
Utmost(side, n) ==
    LET from[m \in Nodes] == IF node[m][side] = Nil THEN m ELSE from[node[m][side]]
    IN from[n]

\* erase_node(z) up to the fixup: the tree, the node x that moved up, and
\* whether the colour that left the tree was red.
WithoutNode(z) ==
    LET l == node[z].left
        r == node[z].right
        y == Utmost("left", r)
        x == node[y].right
        t == IF node[y].parent = z THEN [Tree EXCEPT !.node[x].parent = y]
             ELSE [Transplant(Tree, y, x) EXCEPT !.node[y].right = r, !.node[r].parent = y]
        u == [Transplant(t, z, y) EXCEPT
                !.node[y].left = l, !.node[l].parent = y, !.node[y].red = node[z].red]
    IN IF l = Nil THEN [tree |-> Transplant(Tree, z, r), x |-> r, red |-> node[z].red]
       ELSE IF r = Nil THEN [tree |-> Transplant(Tree, z, l), x |-> l, red |-> node[z].red]
       ELSE [tree |-> u, x |-> x, red |-> node[y].red]

\* erase(key), erase(iterator): the node is freed, and the fixup begins if a
\* black node is gone.
Erase(key) ==
    /\ op = "idle"
    /\ Contains(key)
    /\ LET gone == WithoutNode(key)
           t == [gone.tree EXCEPT !.node[key] = Blank]
       IN IF gone.red
          THEN /\ Become([t EXCEPT !.node[Nil].parent = t.root])
               /\ UNCHANGED <<op, cur>>
          ELSE /\ Become(t)
               /\ op' = "erase"
               /\ cur' = gone.x
    /\ size' = size - 1
    /\ content' = content \ {key}

\* The loop of erase_fixup().
Lacking == op = "erase" /\ cur # root /\ ~Red(cur)
Side == SideOf(Tree, cur)
Sibling == node[Parent][Other(Side)]
Near == node[Sibling][Side]
Far == node[Sibling][Other(Side)]

\* Case 1: a red sibling is rotated away; the next case follows.
EraseRedSibling ==
    /\ Lacking
    /\ Red(Sibling)
    /\ Become(Rotate(Paint(Paint(Tree, Sibling, FALSE), Parent, TRUE), Side, Parent))
    /\ UNCHANGED <<op, cur, size, content>>

\* Case 2: no nephew is red, the sibling becomes red, the problem moves up.
EraseRecolor ==
    /\ Lacking
    /\ ~Red(Sibling) /\ ~Red(Near) /\ ~Red(Far)
    /\ Become(Paint(Tree, Sibling, TRUE))
    /\ cur' = Parent
    /\ UNCHANGED <<op, size, content>>

\* Case 3: only the near nephew is red; the last case follows.
EraseNearNephew ==
    /\ Lacking
    /\ ~Red(Sibling) /\ Red(Near) /\ ~Red(Far)
    /\ Become(Rotate(Paint(Paint(Tree, Near, FALSE), Sibling, TRUE), Other(Side), Sibling))
    /\ UNCHANGED <<op, cur, size, content>>

\* Fault: the sibling does not take over the parent's colour.
EraseFarKeepsColor ==
    /\ Lacking
    /\ ~Red(Sibling) /\ Red(Far)
    /\ Become(Rotate(Paint(Paint(Tree, Parent, FALSE), Far, FALSE), Side, Parent))
    /\ cur' = root'
    /\ UNCHANGED <<op, size, content>>

\* Case 4: the far nephew is red, one rotation ends the loop.
EraseFarNephew ==
    /\ Lacking
    /\ ~Red(Sibling) /\ Red(Far)
    /\ Become(Rotate(Paint(Paint(Paint(Tree, Sibling, Red(Parent)), Parent, FALSE), Far, FALSE),
                     Side, Parent))
    /\ cur' = root'
    /\ UNCHANGED <<op, size, content>>

\* x is painted black, and nil_->parent set for --end().
EraseEnds ==
    /\ op = "erase"
    /\ cur = root \/ Red(cur)
    /\ Become([Paint(Tree, cur, FALSE) EXCEPT !.node[Nil].parent = root])
    /\ op' = "idle"
    /\ cur' = Nil
    /\ UNCHANGED <<size, content>>

\* free_subtree() has freed every node, or another map has them all.
Emptied ==
    /\ op = "idle"
    /\ node' = [n \in Nodes |-> Blank]
    /\ root' = Nil
    /\ size' = 0
    /\ content' = {}
    /\ UNCHANGED <<op, cur>>

Clear == Emptied

\* map(map&&), operator=(map&&): the map that is left behind gets a nil_ of its
\* own and starts anew.
MoveAway == Emptied

\* What class set lets through to its map; the copies and moves are the map's.
SetOperation == (\E key \in Keys : Insert(key) \/ Erase(key)) \/ Clear

Next ==
    \/ SetOperation
    \/ InsertRecolor \/ InsertInner \/ InsertOuter \/ InsertEnds
    \/ EraseRedSibling \/ EraseRecolor \/ EraseNearNephew \/ EraseFarNephew \/ EraseEnds
    \/ MoveAway

Spec == Init /\ [][Next]_treeVars
-----------------------------------------------------------------------------
\* operator++ (side "right") and operator-- (side "left") of an iterator that
\* is not at the end.
Step(side, n) ==
    LET climb[m \in Nodes] ==
          LET p == node[m].parent
          IN IF p # Nil /\ m = node[p][side] THEN climb[p] ELSE p
    IN IF node[n][side] # Nil THEN Utmost(Other(side), node[n][side]) ELSE climb[n]

\* begin(), and where --end() goes.
Begin == IF root = Nil THEN Nil ELSE Utmost("left", root)
BeforeEnd == IF node[Nil].parent = Nil THEN Nil ELSE Utmost("right", node[Nil].parent)

\* lower_bound() and upper_bound(): the first key from k on, or past k.
Bound(k, strict) ==
    LET from[n \in Nodes] ==
          IF n = Nil THEN Nil
          ELSE IF n < k \/ (strict /\ n = k) THEN from[node[n].right]
          ELSE LET below == from[node[n].left] IN IF below = Nil THEN n ELSE below
    IN from[root]

\* copy_subtree(): the copy t of the nodes below n, made from the leaves up.
CopySubtree(n) ==
    LET attach(t, m, side) ==
          LET child == node[m][side]
              u == [t EXCEPT !.node[m][side] = child]
          IN  IF child = Nil THEN u ELSE [u EXCEPT !.node[child].parent = m]
        below[m \in Nodes] ==
          IF m = Nil THEN [k \in Nodes |-> Blank]
          ELSE LET l == below[node[m].left]
                   r == below[node[m].right]
                   both == [k \in Nodes |-> IF l[k] # Blank THEN l[k] ELSE r[k]]
                   t == [node |-> [both EXCEPT ![m] = [NewNode EXCEPT !.red = node[m].red]]]
               IN  attach(attach(t, m, "left"), m, "right").node
    IN  below[n]

\* Fault: the sentinel of the copy does not know the root.
CopiedWithoutEnd == [node |-> CopySubtree(root), root |-> root]

\* map(const map&), and operator=, which swaps with such a copy.
Copied == [node |-> [CopySubtree(root) EXCEPT ![Nil].parent = root], root |-> root]

\* Where an iterator is after i steps from its start.
Walk(side, start) ==
    LET at[i \in 0 .. Cardinality(content)] ==
          IF i = 0 THEN start ELSE IF at[i - 1] = Nil THEN Nil ELSE Step(side, at[i - 1])
    IN at

BlackHeights(n) ==
    LET from[m \in Nodes] ==
          IF m = Nil THEN {0}
          ELSE LET below == from[node[m].left] \cup from[node[m].right]
               IN IF Red(m) THEN below ELSE {h + 1 : h \in below}
    IN from[n]

\* Between two operations the tree is red-black, as the class comment says:
\* a black root, no red node below a red one, as many black nodes on every
\* path.
RedBlack ==
    op = "idle" =>
        /\ ~Red(root) /\ ~Red(Nil)
        /\ \A k \in content : Red(k) => ~Red(node[k].left) /\ ~Red(node[k].right)
        /\ Cardinality(BlackHeights(root)) = 1

\* Whatever rotations insertions and removals have made, a copy has the same
\* links, those of its sentinel included, and an iterator passes through
\* exactly the keys in the map, size() of them, in order, forwards from begin()
\* and backwards from end(), and find(), lower_bound() and upper_bound() answer from
\* those keys.
IterationMatches ==
    op = "idle" =>
        LET n == Cardinality(content)
            up == Walk("right", Begin)
            down == Walk("left", BeforeEnd)
        IN /\ Copied = Tree /\ size = n
           /\ up[n] = Nil /\ down[n] = Nil
           /\ {up[i] : i \in 0 .. n - 1} = content /\ {down[i] : i \in 0 .. n - 1} = content
           /\ \A i \in 1 .. n - 1 : up[i - 1] < up[i] /\ down[i] < down[i - 1]
           /\ \A k \in Keys :
                LET above == {c \in content : k < c}
                    next == IF above = {} THEN Nil ELSE CHOOSE c \in above : \A d \in above : c <= d
                IN /\ Contains(k) <=> k \in content
                   /\ Bound(k, TRUE) = next
                   /\ Bound(k, FALSE) = IF k \in content THEN k ELSE next
=============================================================================
