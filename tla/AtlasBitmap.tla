----------------------------- MODULE AtlasBitmap -----------------------------
(***************************************************************************)
(* One bitmap of the text atlas: AtlasAllocator packs glyph images into    *)
(* it with a list of skyline nodes, AtlasBitmap remembers the rectangle    *)
(* that still has to be copied to the texture.                             *)
(*   src/render/text/atlas/atlas_allocator.cc, atlas_bitmap.cc             *)
(* Glyph keys are left out: a key is looked up before it is generated, so  *)
(* each region here is that of one key.  Pixels are abstracted to the      *)
(* regions whose rows are on the texture.                                  *)
(***************************************************************************)
EXTENDS GlyphBitmap, SequencesExt

CONSTANTS
    GlyphWidths,        \* widths of the glyph images, in pixels
    GlyphHeights,       \* heights of the glyph images, in pixels
    MaxGlyphs           \* bound on the glyphs of one bitmap (TLC only)

\* The bitmaps are hundreds of pixels wide.
ASSUME AtlasAssumption == /\ MaxGlyphs \in Nat
                          /\ Width > 2
                          /\ GlyphWidths \subseteq Nat \ {0}
                          /\ GlyphHeights \subseteq Nat \ {0}

\* regions is glyph_regions_.
VARIABLES
    nodes,      \* nodes_: the skyline from left to right, as [x, y, w]
    dirty,      \* dirty_rect_: the rows [from, to) and columns to upload
    uploaded    \* the regions whose content is on the texture of this bitmap

vars == <<nodes, regions, dirty, uploaded>>

AtlasPadding == 2
Clean == [left |-> 0, top |-> 0, right |-> 0, bottom |-> 0]
FirstNode == [x |-> 1, y |-> 1, w |-> Width - 2]

Init == /\ nodes = <<FirstNode>>
        /\ regions = {}
        /\ dirty = Clean
        /\ uploaded = {}

-----------------------------------------------------------------------------
(* AtlasAllocator *)

\* The largest y, that is the lowest row.
LowestOf(S) == CHOOSE n \in S : \A m \in S : n >= m

\* The nodes a region of width w that starts at node i stands on: those before
\* which something is left of the width.
Spanned(i, w) ==
    LET left[j \in i .. Len(nodes)] == IF j = i THEN w ELSE left[j - 1] - nodes[j - 1].w
    IN  {j \in i .. Len(nodes) : left[j] > 0}

(* Seeded fault: only the first node is looked at.                          *)
QueryFitFirstNode(i, w, h) ==
    IF nodes[i].x + w > Width - 1 \/ nodes[i].y + h > Height - 1 THEN -1 ELSE nodes[i].y
(* Seeded fault: the last column is never used.                            *)
QueryFitYShort(i, w, h) ==
    LET y == LowestOf({nodes[j].y : j \in Spanned(i, w)})
    IN  IF nodes[i].x + w >= Width - 1 \/ y + h > Height - 1 THEN -1 ELSE y

\* QueryFitY: the row at which the region lands, or -1.
QueryFitY(i, w, h) ==
    LET y == LowestOf({nodes[j].y : j \in Spanned(i, w)})
    IN  IF nodes[i].x + w > Width - 1 \/ y + h > Height - 1 THEN -1 ELSE y

Candidates(w, h) == {i \in DOMAIN nodes : QueryFitY(i, w, h) > 0}

\* The lowest bottom edge wins, then the narrowest node, then the first.
Best(w, h) ==
    LET bottom == [i \in Candidates(w, h) |-> QueryFitY(i, w, h) + h]
        beats(i, j) == \/ bottom[i] < bottom[j]
                       \/ bottom[i] = bottom[j] /\ nodes[i].w < nodes[j].w
                       \/ bottom[i] = bottom[j] /\ nodes[i].w = nodes[j].w /\ i <= j
    IN  CHOOSE i \in DOMAIN bottom : \A j \in DOMAIN bottom : beats(i, j)

(* Seeded fault: a covered node moves without getting narrower.            *)
ShrinkKeepingWidth(n, edge) == IF n.x < edge THEN [n EXCEPT !.x = edge] ELSE n

\* A node to the right of a new one gives up what that covers.
Shrink(n, edge) ==
    IF n.x < edge THEN [x |-> edge, y |-> n.y, w |-> n.x + n.w - edge] ELSE n

\* Nodes of which nothing is left are erased, up to the first that keeps some
\* of its width; the ones after that are left alone.
ShrinkFollowing(s, edge) ==
    LET kept == {k \in DOMAIN s : Shrink(s[k], edge).w > 0}
        k == CHOOSE k \in kept : \A l \in kept : k <= l
    IN  IF kept = {} THEN <<>>
        ELSE <<Shrink(s[k], edge)>> \o SubSeq(s, k + 1, Len(s))

\* MergeNodes joins a node with its right neighbour at the same height; a
\* node that was just joined is not compared again.
Join(acc, n) ==
    LET last == Len(acc.nodes)
    IN  IF last > 0 /\ ~acc.joined /\ acc.nodes[last].y = n.y
        THEN [nodes |-> [acc.nodes EXCEPT ![last].w = @ + n.w], joined |-> TRUE]
        ELSE [nodes |-> Append(acc.nodes, n), joined |-> FALSE]

MergeNodes(s) ==
    LET merged[k \in 0 .. Len(s)] == IF k = 0 THEN [nodes |-> <<>>, joined |-> FALSE]
                                     ELSE Join(merged[k - 1], s[k])
    IN  merged[Len(s)].nodes

RegionAt(i, w, h) == [x |-> nodes[i].x, y |-> QueryFitY(i, w, h), w |-> w, h |-> h]

\* AllocateRegion, when some node can carry the region.
NodesAfter(i, r) ==
    MergeNodes(SubSeq(nodes, 1, i - 1)
               \o <<[x |-> r.x, y |-> r.y + r.h, w |-> r.w]>>
               \o ShrinkFollowing(SubSeq(nodes, i, Len(nodes)), r.x + r.w))

-----------------------------------------------------------------------------
(* AtlasBitmap *)

Lesser(a, b) == IF a < b THEN a ELSE b
Greater(a, b) == IF a > b THEN a ELSE b

(* Seeded fault: the rectangle is replaced instead of extended.            *)
GrownToLast(d, r) ==
    [left |-> r.x, top |-> r.y, right |-> r.x + r.w, bottom |-> r.y + r.h]

\* The dirty rectangle grows to hold a new region.
Grown(d, r) ==
    IF d = Clean
    THEN [left |-> r.x, top |-> r.y, right |-> r.x + r.w, bottom |-> r.y + r.h]
    ELSE [left |-> Lesser(d.left, r.x), top |-> Lesser(d.top, r.y),
          right |-> Greater(d.right, r.x + r.w),
          bottom |-> Greater(d.bottom, r.y + r.h)]

\* A glyph that no bitmap could hold is given an empty region: it is not
\* drawn and takes no room.
CanEverFit(w, h) == w <= Width - 2 /\ h <= Height - 2

\* GenerateGlyphRegion for a glyph image of gw x gh pixels.  When it does not
\* fit (INVALID_LOC) the bitmap is left alone and the atlas turns to a new one.
GenerateGlyphRegion(gw, gh) ==
    LET w == gw + AtlasPadding
        h == gh + AtlasPadding
        i == Best(w, h)
    IN  /\ Cardinality(regions) < MaxGlyphs
        /\ CanEverFit(w, h)
        /\ Candidates(w, h) # {}
        /\ regions' = regions \cup {RegionAt(i, w, h)}
        /\ nodes' = NodesAfter(i, RegionAt(i, w, h))
        /\ dirty' = Grown(dirty, RegionAt(i, w, h))
        /\ UNCHANGED uploaded

\* UploadAtlas copies whole rows, from the first dirty one to the last.
InDirtyRows(r) == dirty.top <= r.y /\ r.y + r.h <= dirty.bottom

Upload == /\ dirty # Clean
          /\ uploaded' = uploaded \cup {r \in regions : InDirtyRows(r)}
          /\ dirty' = Clean
          /\ UNCHANGED <<nodes, regions>>

\* ClearExtraRes moves the bitmap to a slot of the texture that another one
\* used, and marks all of it.
SetAllDirty == /\ dirty' = [left |-> 0, top |-> 0, right |-> Width, bottom |-> Height]
               /\ uploaded' = {}
               /\ UNCHANGED <<nodes, regions>>

Generate == \E gw \in GlyphWidths, gh \in GlyphHeights : GenerateGlyphRegion(gw, gh)

Next == Generate \/ Upload \/ SetAllDirty

Spec == Init /\ [][Next]_vars

-----------------------------------------------------------------------------
(* Properties *)

Node == [x : 1 .. Width - 2, y : 1 .. Height - 1, w : 1 .. Width - 2]

\* The lists, rectangles and sets have the values the code's types allow.
TypeOK == /\ nodes \in Seq(Node)
          /\ \A r \in regions : DOMAIN r = {"x", "y", "w", "h"}
          /\ uploaded \subseteq regions

SkylineOf(c) == LET i == CHOOSE i \in DOMAIN nodes : /\ nodes[i].x <= c
                                                     /\ c < nodes[i].x + nodes[i].w
                IN  nodes[i].y

\* The row at which a region that starts in column c lands.
LandsAt(c, w) == LowestOf({SkylineOf(k) : k \in c .. c + w - 1})

\* Although only the first column of each node is tried, no column at all
\* would carry a glyph that AllocateRegion refuses: a bitmap given up for a
\* new one really had no room, and a fresh bitmap takes any glyph that passed
\* the size test (else GenerateGlyphRegionInternal would recurse for ever).
RefusesOnlyWhatFitsNowhere ==
    \A gw \in GlyphWidths, gh \in GlyphHeights :
        LET w == gw + AtlasPadding
            h == gh + AtlasPadding
        IN  (CanEverFit(w, h) /\ Candidates(w, h) = {}) =>
                \A c \in 1 .. Width - 1 - w : LandsAt(c, w) + h > Height - 1

\* A glyph that is not in the rows still to be copied is on the texture: no
\* draw samples a region that was never uploaded.
CleanRegionsAreUploaded ==
    \A r \in regions : r \in uploaded \/ (dirty # Clean /\ InDirtyRows(r))

\* The allocator never gives out a pixel twice nor the border: it implements
\* the skyline.
Packing == INSTANCE Skyline WITH skyline <- [c \in Columns |-> SkylineOf(c)]
ImplementsSkyline == Packing!Spec
=============================================================================
