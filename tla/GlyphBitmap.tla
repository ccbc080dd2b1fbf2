----------------------------- MODULE GlyphBitmap -----------------------------
(***************************************************************************)
(* A bitmap of the text atlas and the regions of glyphs in it, whatever    *)
(* chooses their places: what Skyline and AtlasBitmap have in common.      *)
(***************************************************************************)
EXTENDS Integers

CONSTANTS Width, Height     \* size of the bitmap in pixels

ASSUME BitmapAssumption == Width \in Nat \ {0, 1} /\ Height \in Nat \ {0, 1}

VARIABLE regions            \* the regions handed out, with their padding

\* The border of one pixel is never given to a glyph.
Columns == 1 .. Width - 2
Rows == 1 .. Height - 1

Region == [x : Nat, y : Nat, w : Nat \ {0}, h : Nat \ {0}]

ColumnsOf(r) == r.x .. r.x + r.w - 1
RowsOf(r) == r.y .. r.y + r.h - 1

Disjoint(r, s) == \/ ColumnsOf(r) \cap ColumnsOf(s) = {}
                  \/ RowsOf(r) \cap RowsOf(s) = {}

\* No two glyphs share a pixel of the bitmap.
RegionsAreDisjoint == \A r, s \in regions : r # s => Disjoint(r, s)

\* No glyph touches the border that keeps texture filtering from reading
\* outside of the bitmap.
RegionsAreInside == \A r \in regions : /\ ColumnsOf(r) \subseteq Columns
                                       /\ RowsOf(r) \subseteq 1 .. Height - 2
=============================================================================
