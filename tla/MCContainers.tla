---- MODULE MCContainers ----
(***************************************************************************)
(* The containers for model checking: the pointer array, the hash table,   *)
(* the linked list, the bitmap, the value array, the red-black tree and    *)
(* the graph.  They share no state, so one run checks them side by side:   *)
(* `which' is the part that moves, chosen at first.  There is no symmetry  *)
(* set: some properties are liveness properties.                           *)
(***************************************************************************)
EXTENDS PointerArray, HashTable, List

CONSTANTS Bitmaps, CharBits, BitsMax, BitBound
CONSTANTS ItemValues, Junk, ArrayBound
CONSTANTS TreeKeys, TreeValues, MaxNodes
CONSTANTS Vertices, Edges, Infinity, Uint32, UncountedBound

VARIABLES which
VARIABLES bytes, bitmap_size, bitmap_max, members
VARIABLES items, item_size, item_alloc, written, failed, hung
VARIABLES tree, tree_size, spare, phase, at, top, entries
VARIABLES vertices, edges, number_of_vertices, number_of_edges, uncounted,
          loose

bitmapVars == <<bytes, bitmap_size, bitmap_max, members>>
arrayVars == <<items, item_size, item_alloc, written, failed, hung>>
treeVars == <<tree, tree_size, spare, phase, at, top, entries>>
graphVars == <<vertices, edges, number_of_vertices, number_of_edges, uncounted,
               loose>>
allVars == <<which, vars, tableVars, listVars, bitmapVars, arrayVars, treeVars,
             graphVars>>

Bitmap == INSTANCE Bitmap WITH INT_MAX <- BitsMax, array_size <- bitmap_size,
                                 max_size <- bitmap_max
ValueArray == INSTANCE ValueArray WITH size <- item_size, alloc <- item_alloc
RBTree == INSTANCE RBTree
Graph == INSTANCE Graph

-----------------------------------------------------------------------------
(* Keys that collide, at the end of the table and through it.              *)
MCKeysUint32 == {0, 1, 10, 11, 21}
MCKeysUint64 == {2, 7}
MCKeysPtr == {<<1>>, <<0, 1>>, <<1, 1>>}

MCRank ==
  [i \in ListItems |-> IF i = "i1" THEN 2 ELSE 1]

(* A short way with more edges than a long one, and a cycle.               *)
MCEdge(i, a, b, w) == [id |-> i, start |-> a, end |-> b, weight |-> w]
MCEdges == {MCEdge(1, "u", "v", 1), MCEdge(2, "v", "w", 1),
            MCEdge(3, "u", "w", 3), MCEdge(4, "w", "x", 1),
            MCEdge(5, "v", "x", 4), MCEdge(6, "w", "u", 2)}

-----------------------------------------------------------------------------
MCInit ==
  /\ which \in {"pointer array", "hash table", "list", "bitmap", "value array",
                "tree", "graph"}
  /\ Init /\ HashInit /\ ListInit /\ Bitmap!BitmapInit
  /\ ValueArray!ArrayInit /\ RBTree!TreeInit /\ Graph!GraphInit

PointersNext ==
  which = "pointer array" /\ Next
    /\ UNCHANGED <<which, tableVars, listVars, bitmapVars, arrayVars, treeVars,
                   graphVars>>
TableNext ==
  which = "hash table" /\ HashNext
    /\ UNCHANGED <<which, vars, listVars, bitmapVars, arrayVars, treeVars,
                   graphVars>>
ListMoves ==
  which = "list" /\ ListNext
    /\ UNCHANGED <<which, vars, tableVars, bitmapVars, arrayVars, treeVars,
                   graphVars>>
BitmapNext ==
  which = "bitmap" /\ Bitmap!BitmapNext
    /\ UNCHANGED <<which, vars, tableVars, listVars, arrayVars, treeVars,
                   graphVars>>
ArrayNext ==
  which = "value array" /\ ValueArray!ArrayNext
    /\ UNCHANGED <<which, vars, tableVars, listVars, bitmapVars, treeVars,
                   graphVars>>
TreeNext ==
  which = "tree" /\ RBTree!TreeNext
    /\ UNCHANGED <<which, vars, tableVars, listVars, bitmapVars, arrayVars,
                   graphVars>>
GraphNext ==
  which = "graph" /\ Graph!GraphNext
    /\ UNCHANGED <<which, vars, tableVars, listVars, bitmapVars, arrayVars,
                   treeVars>>

MCNext == \/ PointersNext \/ TableNext \/ ListMoves \/ BitmapNext
          \/ ArrayNext \/ TreeNext \/ GraphNext

(* A removal and a loop that restores colours are code that runs on; what  *)
(* starts an operation needs a caller, which may never come.               *)
MCSpec ==
  /\ MCInit /\ [][MCNext]_allVars
  /\ WF_tableVars(which = "hash table" /\
                    (RemoveNext \/ RemoveEnd))
  /\ WF_treeVars(which = "tree" /\ (RBTree!InsertFixup \/ RBTree!DeleteFixup))

-----------------------------------------------------------------------------
(* Bitmap and value array keep what was put there when they grow.          *)
ArraysHoldTheirContents ==
  /\ which = "bitmap" => Bitmap!BitmapHoldsMembers
  /\ which = "value array" => ValueArray!ArrayKeepsItems

(* Outside its loops a tree is ordered, complete and balanced.             *)
TreeIsOrderedAndBalanced == which = "tree" => RBTree!TreeIsOrderedAndBalanced

(* The loops that restore the colours of a tree end.                       *)
TreeSettles == []<>(phase = "idle")

(* The distances are those of the shortest ways, and edges end in          *)
(* vertices of the graph.                                                  *)
GraphIsSound ==
  which = "graph" => Graph!SpfIsShortest /\ Graph!EdgesStayInGraph
====
