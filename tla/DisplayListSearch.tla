------------------------- MODULE DisplayListSearch -------------------------
(***************************************************************************)
(* What a display list answers questions about its draws with: the tree    *)
(* that finds the draws a rectangle meets (DisplayListRTree), and the      *)
(* region that makes disjoint rectangles of what was found                 *)
(* (DisplayListRegion).  The two share no state, so a behaviour is of one  *)
(* of them: the tree grows while the region is the empty one.              *)
(***************************************************************************)
EXTENDS DisplayListRegion, DisplayListRTree

SearchInit == AreaInit /\ TreeInit

RegionStep == items = <<>> /\ AreaNext /\ UNCHANGED treeVars
TreeStep   == IsEmpty(area) /\ TreeNext /\ UNCHANGED areaVars

SearchSpec == SearchInit /\ [][RegionStep \/ TreeStep]_<<areaVars, treeVars>>
=============================================================================
