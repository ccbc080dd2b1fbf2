------------------------------- MODULE Skyline -------------------------------
(***************************************************************************)
(* What packing a glyph bitmap promises, whatever data structure does it:  *)
(* every region lies inside the one-pixel border and no two share a pixel. *)
(* The state is the skyline: for each column, the first row that is still  *)
(* free all the way down.  A region may be placed on the skyline anywhere  *)
(* it fits.  AtlasBitmap, the list of nodes the code keeps, implements     *)
(* this module.                                                            *)
(***************************************************************************)
EXTENDS GlyphBitmap

VARIABLE skyline    \* the first free row of every column

vars == <<skyline, regions>>

Init == /\ skyline = [c \in Columns |-> 1]
        /\ regions = {}

\* A region may lie anywhere inside the border and on or below the skyline.
Fits(r) == /\ ColumnsOf(r) \subseteq Columns
           /\ r.y >= 1
           /\ r.y + r.h <= Height - 1
           /\ \A c \in ColumnsOf(r) : skyline[c] <= r.y

\* The skyline of the covered columns sinks to the bottom of the region.
Place(r) == /\ Fits(r)
            /\ skyline' = [c \in Columns |-> IF c \in ColumnsOf(r)
                                               THEN r.y + r.h ELSE skyline[c]]
            /\ regions' = regions \cup {r}

\* A region of any size is added.
Next == \E r \in regions' : r \in Region /\ Place(r)

Spec == Init /\ [][Next]_vars

\* A row for every column, and regions of positive size.
TypeOK == /\ skyline \in [Columns -> Rows]
          /\ regions \subseteq Region

\* Every region lies below the skyline of each of its columns: the part of
\* the invariant that tells why a new region is disjoint from the old ones.
RegionsAreBelowSkyline ==
    \A r \in regions : \A c \in ColumnsOf(r) : c \in Columns /\ r.y + r.h <= skyline[c]
=============================================================================
