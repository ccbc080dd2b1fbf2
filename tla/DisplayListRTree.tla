-------------------------- MODULE DisplayListRTree --------------------------
(***************************************************************************)
(* DisplayListRTree (src/src/recorder/display_list_rtree.cc): the tree a   *)
(* display list searches for the draws that meet a rectangle.  It is built *)
(* bottom-up: a generation of nodes is dealt out to as many parents as its *)
(* size needs, evenly, until one is left.                                  *)
(*                                                                         *)
(* An empty rectangle of the row of pixels is an empty set.  The machine   *)
(* adds items to a list and builds the tree of each list anew.             *)
(***************************************************************************)
EXTENDS PictureRow, Sequences, SequencesExt

CONSTANTS BranchFactor,  \* kDisplayListRTreeBranchFactor (8 in the code)
          MaxItems       \* bound: the draws of a list

ASSUME RTreeAssumption ==
    /\ Width \in Nat \ {0}
    /\ BranchFactor \in Nat \ {0, 1, 2}
    /\ MaxItems \in Nat

VARIABLES items,   \* spatial_ops_
          nodes,   \* rtree_nodes_, with their rtree_children_
          root     \* rtree_root_

treeVars == <<items, nodes, root>>

(***************************************************************************)
(* BuildRTree                                                              *)
(***************************************************************************)

(* remove_if: a draw without an extent is not searched for.  An item keeps *)
(* its place in the list of operations.                                    *)
Kept(list) ==
    LET kept[i \in 0 .. Len(list)] ==
            IF i = 0 THEN <<>>
            ELSE IF list[i].rect = {} THEN kept[i - 1] ELSE Append(kept[i - 1], list[i])
    IN  kept[Len(list)]

Families(count) == (count + BranchFactor - 1) \div BranchFactor

(* Seeded fault: the child that ends a family is lost.                     *)
OpenedWithout(families, child) == Append(families, <<>>)

Opened(families, child) == Append(families, <<child>>)

(* A child goes to the family that is open.  It adds the number of parents *)
(* to d; when d turns positive it is set back by the number of children    *)
(* and the family ends, unless it has no child.  The child that ends a     *)
(* family adds again as the first of the next one, so that there can be    *)
(* more families than Families counts; with a branch factor of two, three  *)
(* children would keep three parents forever.                              *)
Deal(r, child, count) ==
    LET due == r.d + Families(count) > 0
        d == r.d + Families(count) - (IF due THEN count ELSE 0)
    IN  IF due /\ Last(r.families) /= <<>>
        THEN \* the next family starts, and its first child adds again
             LET again == d + Families(count)
             IN  [d |-> again - (IF again > 0 THEN count ELSE 0),
                  families |-> Opened(r.families, child)]
        ELSE [d |-> d, families |-> [r.families EXCEPT ![Len(r.families)] = Append(@, child)]]

(* append_generation: the children go to the parents in order.             *)
Dealt(generation) ==
    LET dealt[i \in 0 .. Len(generation)] ==
            IF i = 0 THEN [d |-> 0, families |-> << <<>> >>]
            ELSE Deal(dealt[i - 1], generation[i], Len(generation))
    IN  dealt[Len(generation)].families

(* Seeded fault: a node has the bounds of its last child.                  *)
NodeOfTheLast(leaf, children, rects) ==
    [leaf |-> leaf, children |-> children, bounds |-> rects[Last(children)]]

(* RTreeNode, whose bounds its children are joined to.                     *)
Node(leaf, children, rects) ==
    [leaf |-> leaf, children |-> children,
     bounds |-> Hull(UNION {rects[child] : child \in ToSet(children)})]

(* The parents of a generation are the next one.                           *)
AppendGeneration(list, tree) ==
    LET leaf == tree.nodes = <<>>
        rects == IF leaf THEN [i \in DOMAIN list |-> list[i].rect]
                 ELSE [i \in DOMAIN tree.nodes |-> tree.nodes[i].bounds]
        families == Dealt(tree.generation)
        parents == [i \in DOMAIN families |-> Node(leaf, families[i], rects)]
    IN  [nodes |-> tree.nodes \o parents,
         generation |-> [i \in DOMAIN families |-> Len(tree.nodes) + i]]

IsDone(tree) == Len(tree.generation) <= 1 /\ tree.nodes /= <<>>

(* The loop of BuildRTree.  There are fewer parents than children, so that *)
(* it is done after as many rounds as there are items.                     *)
Grown(list) ==
    LET Round(tree) == IF IsDone(tree) THEN tree ELSE AppendGeneration(list, tree)
        grown[k \in 0 .. Len(list)] ==
            IF k = 0 THEN [nodes |-> <<>>, generation |-> [i \in DOMAIN list |-> i]]
            ELSE Round(grown[k - 1])
    IN  grown[Len(list)]

BuiltTree(list) ==
    IF list = <<>> THEN [nodes |-> <<>>, root |-> 0]
    ELSE [nodes |-> Grown(list).nodes, root |-> Head(Grown(list).generation)]

TreeInit == items = <<>> /\ nodes = <<>> /\ root = 0

(* One more draw in the list the tree is built from.                       *)
Add(rect) ==
    LET list == Kept(Append(items, [rect |-> rect, at |-> Len(items) + 1]))
    IN  /\ Len(items) < MaxItems
        /\ items' = list
        /\ nodes' = BuiltTree(list).nodes
        /\ root' = BuiltTree(list).root

(* A draw with a rectangle or with an empty one.                           *)
TreeNext == \E rect \in Rects \cup {{}} : Add(rect)

TreeSpec == TreeInit /\ [][TreeNext]_treeVars

(***************************************************************************)
(* Search                                                                  *)
(***************************************************************************)

SearchRTreeItems(start, rect) ==
    LET found[n \in DOMAIN nodes] ==
            IF nodes[n].bounds \cap rect = {} THEN {}
            ELSE IF nodes[n].leaf
                 THEN {item \in ToSet(nodes[n].children) : items[item].rect \cap rect /= {}}
                 ELSE UNION {found[child] : child \in ToSet(nodes[n].children)}
    IN  found[start]

SearchTree(rect) ==
    IF rect = {} \/ nodes = <<>> THEN {}
    ELSE {items[item].at : item \in SearchRTreeItems(root, rect)}

(***************************************************************************)
(* Properties                                                              *)
(***************************************************************************)

(* A search through the tree finds the draws that a look at every draw     *)
(* would find: no subtree that holds one is skipped or left out.           *)
SearchFindsTheDraws ==
    \A rect \in Rects \cup {{}} :
        SearchTree(rect) = {items[i].at : i \in {i \in DOMAIN items :
                                               items[i].rect \cap rect /= {}}}

=============================================================================
