------------------------------- MODULE RBTree -------------------------------
(***************************************************************************)
(* ocoms_rb_tree_t (ocoms/util/ocoms_rb_tree.c): a red-black tree whose    *)
(* nodes come from a free list.  root_ptr is a node above the root, which  *)
(* is its left child; nill stands for every missing child.                 *)
(*                                                                         *)
(* An insertion and a deletion are several actions, one for each turn of   *)
(* the loop that restores the colours.  left_rotate and right_rotate, and  *)
(* the two halves of both loops, mirror each other: they are written once, *)
(* with the side as a parameter.                                           *)
(***************************************************************************)
EXTENDS Integers, Sequences, FiniteSets, FiniteSetsExt

CONSTANTS TreeKeys, TreeValues,
          MaxNodes        \* bound on the nodes of the tree

Root == 0                 \* root_ptr
Nill == -1
TreeNodes == 1..MaxNodes

VARIABLES
    tree,      \* node -> [left, right, parent, color, key, value]
    tree_size,
    spare,     \* nodes on the free list
    phase,     \* "idle", or the loop that runs: "insert", "delete"
    at,        \* its node, or x
    top,       \* the root when a deletion's loop began
    entries    \* history: the pairs that were inserted and not deleted

treeVars == <<tree, tree_size, spare, phase, at, top, entries>>

Blank == [left |-> Nill, right |-> Nill, parent |-> Nill, color |-> "BLACK",
          key |-> 0, value |-> 0]

\* ocoms_rb_tree_construct and ocoms_rb_tree_init
TreeInit ==
    /\ tree = [n \in TreeNodes \cup {Root, Nill} |-> Blank]
    /\ tree_size = 0 /\ spare = TreeNodes
    /\ phase = "idle" /\ at = Nill /\ top = Nill
    /\ entries = {}

Other(side) == IF side = "left" THEN "right" ELSE "left"
SideOf(t, n) == IF n = t[t[n].parent].left THEN "left" ELSE "right"

\* Mutant: the subtree that changes hands keeps its parent.
RotateOrphan(t, x, side) ==
    LET y == t[x][Other(side)]
        p == t[x].parent IN
    [t EXCEPT ![p][SideOf(t, x)] = y, ![y].parent = p, ![x].parent = y,
              ![x][Other(side)] = t[y][side], ![y][side] = x]

\* left_rotate and right_rotate
Rotate(t, x, side) ==
    LET y == t[x][Other(side)]
        p == t[x].parent
        inner == t[y][side]
        moved == IF inner # Nill THEN [t EXCEPT ![inner].parent = x] ELSE t IN
    [moved EXCEPT ![p][SideOf(t, x)] = y, ![y].parent = p, ![x].parent = y,
                  ![x][Other(side)] = inner, ![y][side] = x]

Painted(t, n, c) == [t EXCEPT ![n].color = c]

\* ocoms_rb_tree_find_node: the first node with the key on the way down
FindNode(t, k) ==
    LET down[n \in DOMAIN t] ==
          IF n = Nill \/ t[n].key = k THEN n
          ELSE down[IF k < t[n].key THEN t[n].left ELSE t[n].right]
    IN down[t[Root].left]

\* btree_insert: the leaf below which a node is placed.  A key goes left of its
\* equals.
LeafFor(t, k) ==
    LET child(n) == IF n = Root \/ k <= t[n].key THEN t[n].left ELSE t[n].right
        down[n \in DOMAIN t] == IF child(n) = Nill THEN n ELSE down[child(n)]
    IN down[Root]

\* ocoms_rb_tree_insert up to its loop, with btree_insert
Insert(k, v) ==
    LET n == Min(spare)
        p == LeafFor(tree, k)
        side == IF p = Root \/ k <= tree[p].key THEN "left" ELSE "right" IN
    /\ phase = "idle" /\ spare # {} /\ <<k, v>> \notin entries
    /\ tree' = [tree EXCEPT ![p][side] = n,
                  ![n] = [Blank EXCEPT !.color = "RED", !.parent = p, !.key = k, !.value = v]]
    /\ spare' = spare \ {n}
    /\ tree_size' = tree_size + 1
    /\ phase' = "insert" /\ at' = n
    /\ entries' = entries \cup {<<k, v>>}
    /\ UNCHANGED top

\* Mutant: an inner grandchild is turned outside, and the other turn is left out.
InsertTurnedHalf(t, n) ==
    LET p == t[n].parent
        side == SideOf(t, p) IN
    IF n = t[p][Other(side)] THEN Rotate(t, p, side) ELSE t

\* The turn of the loop with a black uncle: n or its parent ends on top.
InsertTurned(t, n) ==
    LET p == t[n].parent
        g == t[p].parent
        side == SideOf(t, p)
        inner == n = t[p][Other(side)]
        up == IF inner THEN n ELSE p
        t1 == IF inner THEN Rotate(t, p, side) ELSE t IN
    Rotate(Painted(Painted(t1, up, "BLACK"), g, "RED"), g, Other(side))

\* A turn of the loop of ocoms_rb_tree_insert, and its end
InsertFixup ==
    LET p == tree[at].parent
        g == tree[p].parent
        uncle == tree[g][Other(SideOf(tree, p))]
        side == SideOf(tree, p) IN
    /\ phase = "insert"
    /\ \/ /\ tree[p].color # "RED"
          /\ tree' = Painted(tree, tree[Root].left, "BLACK")
          /\ phase' = "idle" /\ at' = Nill
       \/ /\ tree[p].color = "RED" /\ tree[uncle].color = "RED"
          /\ tree' = Painted(Painted(Painted(tree, p, "BLACK"), uncle, "BLACK"), g, "RED")
          /\ at' = g /\ UNCHANGED phase
       \/ /\ tree[p].color = "RED" /\ tree[uncle].color # "RED"
          /\ tree' = InsertTurned(tree, at)
          /\ at' = IF at = tree[p][Other(side)] THEN p ELSE at
          /\ UNCHANGED phase
    /\ UNCHANGED <<tree_size, spare, top, entries>>

-----------------------------------------------------------------------------
\* btree_successor of a node that has a right child
Successor(t, n) ==
    LET down[m \in DOMAIN t] == IF t[m].left = Nill THEN m ELSE down[t[m].left]
    IN down[t[n].right]

\* ocoms_rb_tree_delete up to btree_delete_fixup.  The node that is taken out
\* goes back to the free list; nothing reads it before it is filled in again.
Delete(k) ==
    LET p == FindNode(tree, k)
        out == IF Nill \in {tree[p].left, tree[p].right} THEN p ELSE Successor(tree, p)
        y == IF tree[out].left = Nill THEN tree[out].right ELSE tree[out].left
        q == tree[out].parent
        side == IF q = Root THEN "left" ELSE SideOf(tree, out)
        cut == [tree EXCEPT ![y].parent = q, ![q][side] = y,
                            ![p].key = tree[out].key, ![p].value = tree[out].value,
                            ![out] = Blank] IN
    /\ phase = "idle" /\ p # Nill
    /\ tree' = cut
    /\ spare' = spare \cup {out}
    /\ tree_size' = tree_size - 1
    /\ entries' = entries \ {<<k, tree[p].value>>}
    /\ IF tree[out].color = "BLACK"
       THEN phase' = "delete" /\ at' = y /\ top' = cut[Root].left
       ELSE UNCHANGED <<phase, at, top>>

\* The sibling of x is black, after a rotation if it was red.
BlackSibling(t, x) ==
    LET side == SideOf(t, x)
        p == t[x].parent
        w == t[p][Other(side)] IN
    IF t[w].color = "RED"
    THEN Rotate(Painted(Painted(t, w, "BLACK"), p, "RED"), p, side)
    ELSE t

\* Mutant: the sibling keeps its colour.
DeleteTurnedPlain(t, x, side) ==
    LET p == t[x].parent
        w == t[p][Other(side)] IN
    Rotate(Painted(Painted(t, p, "BLACK"), t[w][Other(side)], "BLACK"), p, side)

\* The last turn: the sibling has a red child, which is turned outside first.
DeleteTurned(t, x, side) ==
    LET p == t[x].parent
        w == t[p][Other(side)]
        t1 == IF t[t[w][Other(side)]].color = "BLACK"
              THEN Rotate(Painted(Painted(t, t[w][side], "BLACK"), w, "RED"), w, Other(side))
              ELSE t
        w1 == t1[p][Other(side)]
        t2 == Painted(Painted(t1, w1, t1[p].color), p, "BLACK") IN
    Rotate(Painted(t2, t2[w1][Other(side)], "BLACK"), p, side)

\* A turn of the loop of btree_delete_fixup, and its end
DeleteFixup ==
    LET side == SideOf(tree, at)
        t == BlackSibling(tree, at)
        w == t[t[at].parent][Other(side)]
        blackChildren == t[t[w].left].color = "BLACK" /\ t[t[w].right].color = "BLACK" IN
    /\ phase = "delete"
    /\ IF at # top /\ tree[at].color = "BLACK"
       THEN /\ tree' = IF blackChildren THEN Painted(t, w, "RED")
                       ELSE DeleteTurned(t, at, side)
            /\ at' = IF blackChildren THEN t[at].parent ELSE top
            /\ UNCHANGED <<phase, top>>
       ELSE /\ tree' = Painted(tree, at, "BLACK")
            /\ phase' = "idle" /\ at' = Nill /\ top' = Nill
    /\ UNCHANGED <<tree_size, spare, entries>>

\* ocoms_rb_tree_destroy with inorder_destroy, and ocoms_rb_tree_init again
Destroy ==
    /\ phase = "idle"
    /\ tree' = [n \in DOMAIN tree |-> Blank]
    /\ spare' = TreeNodes
    /\ tree_size' = 0
    /\ entries' = {}
    /\ UNCHANGED <<phase, at, top>>

TreeNext ==
    \/ \E k \in TreeKeys : Delete(k) \/ \E v \in TreeValues : Insert(k, v)
    \/ InsertFixup \/ DeleteFixup \/ Destroy

TreeSpec == TreeInit /\ [][TreeNext]_treeVars /\ WF_treeVars(InsertFixup \/ DeleteFixup)

-----------------------------------------------------------------------------
\* inorder_traversal: the nodes below n, from left to right
Inorder(t) ==
    LET walk[n \in DOMAIN t] ==
          IF n = Nill THEN <<>> ELSE walk[t[n].left] \o <<n>> \o walk[t[n].right]
    IN walk[t[Root].left]

\* The black nodes on the ways from n down to nill, -1 when they differ.
BlackHeight(t) ==
    LET height[n \in DOMAIN t] ==
          IF n = Nill THEN 0
          ELSE LET l == height[t[n].left]
                   r == height[t[n].right] IN
               IF l = -1 \/ l # r THEN -1
               ELSE l + (IF t[n].color = "BLACK" THEN 1 ELSE 0)
    IN height[t[Root].left]

\* Between calls the tree holds the pairs that were inserted and not deleted,
\* each once, in the order of their keys, and finds every key; it is balanced:
\* no red node has a red child, and all ways down have as many black nodes.
\* Parents and children agree, and the nodes are those not on the free list.
TreeIsOrderedAndBalanced ==
    phase = "idle" =>
       LET nodes == Inorder(tree) IN
       /\ \A i, j \in DOMAIN nodes : i < j =>
             nodes[i] # nodes[j] /\ tree[nodes[i]].key <= tree[nodes[j]].key
       /\ {nodes[i] : i \in DOMAIN nodes} = TreeNodes \ spare
       /\ entries = {<<tree[n].key, tree[n].value>> : n \in TreeNodes \ spare}
       /\ Cardinality(entries) = tree_size /\ Len(nodes) = tree_size
       /\ BlackHeight(tree) # -1
       /\ tree[Nill].color = "BLACK" /\ tree[tree[Root].left].color = "BLACK"
       /\ \A n \in TreeNodes \ spare :
             /\ \A side \in {"left", "right"} :
                   LET c == tree[n][side] IN
                   c # Nill => /\ tree[c].parent = n
                               /\ tree[n].color = "RED" => tree[c].color = "BLACK"
             /\ tree[FindNode(tree, tree[n].key)].key = tree[n].key

\* The loops that restore the colours end.
TreeSettles == []<>(phase = "idle")
=============================================================================
