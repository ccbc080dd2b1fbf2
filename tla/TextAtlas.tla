------------------------------ MODULE TextAtlas ------------------------------
(***************************************************************************)
(* The text atlas of a context for one glyph format: a list of bitmaps in  *)
(* memory, grouped, each group mirrored on an array of textures.           *)
(*   src/render/text/atlas/atlas_manager.cc, src/render/text/glyph_run.cc  *)
(* Drawing text puts the missing glyphs into the newest bitmap and uploads *)
(* the groups the draw samples at once, while the draw itself runs on the  *)
(* GPU when the frame is flushed.  At the end of the frame all groups but  *)
(* the first go: the newest bitmaps survive, moved into the slots of the   *)
(* first group, which have to be uploaded again.                           *)
(*                                                                         *)
(* One surface is recorded at a time.  Where a glyph is in a bitmap and    *)
(* which rows are dirty is the matter of AtlasBitmap: here a bitmap that   *)
(* holds nothing takes any glyph, one that holds something may refuse.     *)
(* Indices count from 0 as in the code.                                    *)
(***************************************************************************)
EXTENDS Integers, SequencesExt

CONSTANTS
    Keys,                   \* glyph keys: a glyph of a font at a size
    Oversized,              \* keys of glyphs larger than a bitmap
    BitmapsPerTexture,      \* max_num_bitmap_per_texture
    TexturesPerAtlas,       \* MAX_NUM_TEXTURE_PER_ATLAS
    BitmapCapacity,         \* bound on the glyphs of one bitmap (TLC only)
    MaxRun                  \* bound on the glyphs of one draw (TLC only)

ASSUME TextAtlasAssumption ==
    /\ Oversized \subseteq Keys
    /\ BitmapsPerTexture \in Nat \ {0} /\ TexturesPerAtlas \in Nat \ {0}
    /\ BitmapCapacity \in Nat \ {0} /\ MaxRun \in Nat \ {0}

VARIABLES
    bitmaps,    \* atlas_bitmap_
    current,    \* current_bitmap_index_
    leastUsed,  \* least_used_index_
    textures,   \* atlas_texture_array_, by group
    draws,      \* the glyphs sampled by the draws recorded for this frame
    groups      \* the groups those draws take textures and samplers from

atlasVars == <<bitmaps, current, leastUsed, textures, draws, groups>>

PerAtlas == BitmapsPerTexture * TexturesPerAtlas
Slots == 0 .. PerAtlas - 1
GroupOf(index) == index \div PerAtlas
SlotOf(index) == index % PerAtlas
TextureOf(slot) == slot \div BitmapsPerTexture

\* `dirty` holds the glyphs in the dirty rows, `all` tells that the whole
\* bitmap is dirty.
Bitmap == [glyphs : SUBSET Keys, dirty : SUBSET Keys, all : BOOLEAN]

Size(b) == Cardinality(DOMAIN b)
NewBitmap == [glyphs |-> {}, dirty |-> {}, all |-> FALSE]

AtlasInit == /\ bitmaps = [i \in {} |-> NewBitmap]
        /\ current = 0
        /\ leastUsed = 0
        /\ textures = [g \in {} |-> {}]
        /\ draws = {}
        /\ groups = {}

-----------------------------------------------------------------------------
(* Placing glyphs: Atlas::GetGlyphRegion *)

\* An atlas under work: its bitmaps and the index of the current one.
Here == [b |-> bitmaps, cur |-> current]

Holders(a, key) == {i \in DOMAIN a.b : key \in a.b[i].glyphs}

Add(bm, key) == [bm EXCEPT !.glyphs = @ \cup {key}, !.dirty = @ \cup {key}]

Put(a, key) == [b |-> [a.b EXCEPT ![a.cur] = Add(@, key)], cur |-> a.cur]

WithCurrent(a) ==
    [b |-> [i \in DOMAIN a.b \cup {a.cur} |-> IF i \in DOMAIN a.b THEN a.b[i] ELSE NewBitmap],
     cur |-> a.cur]

\* The refusing bitmap is full for good: the next one goes to the end.
NextBitmap(a) == WithCurrent([b |-> a.b, cur |-> Size(a.b)])

\* GetGlyphRegion looks a glyph up in all bitmaps before it is generated.
Found(a, key) == Holders(a, key) # {}

\* The atlases that can result from asking for one glyph.  A glyph too large
\* for any bitmap leaves no trace but the bitmap.
AfterGlyph(a, key) ==
    LET c == WithCurrent(a)
        holds == Cardinality(c.b[c.cur].glyphs)
    IN  IF Found(a, key) THEN {a}
        ELSE IF key \in Oversized THEN {c}
        ELSE (IF holds < BitmapCapacity THEN {Put(c, key)} ELSE {})
             \cup (IF holds > 0 THEN {Put(NextBitmap(c), key)} ELSE {})

\* SubRunListByTexture asks for the glyphs of the text one after the other.
AfterText(text) ==
    LET after[k \in 0 .. Len(text)] ==
            IF k = 0 THEN {Here} ELSE UNION {AfterGlyph(a, text[k]) : a \in after[k - 1]}
    IN  after[Len(text)]

-----------------------------------------------------------------------------
(* Uploading: Atlas::UploadAtlas *)

NoTextures == [slots |-> [s \in Slots |-> {}], made |-> {}]

InGroup(b, g) == {i \in DOMAIN b : GroupOf(i) = g}
DirtyIn(b, g) == {i \in InGroup(b, g) : b[i].all \/ b[i].dirty # {}}

(* Seeded fault: only the new rows of a moved bitmap are copied.           *)
UploadedNewRows(old, bm) == old \cup bm.dirty

\* What the slot of a bitmap shows after its dirty rows were copied.
UploadedOver(old, bm) == IF bm.all THEN bm.glyphs ELSE old \cup bm.dirty

(* Seeded fault: only the first texture of a group is ever created.        *)
MadeFirstOnly(b, g) == {0}

\* AtlasTextureArray::UploadAtlas creates the textures it writes to.
MadeBy(b, g) == {TextureOf(SlotOf(i)) : i \in DirtyIn(b, g)}

\* The bitmaps of a group are copied side by side.
UploadGroup(old, b, g) ==
    LET at(s) == g * PerAtlas + s
    IN  [slots |-> [s \in Slots |-> IF at(s) \in DirtyIn(b, g)
                                    THEN UploadedOver(old.slots[s], b[at(s)])
                                    ELSE old.slots[s]],
         made |-> old.made \cup MadeBy(b, g)]

\* Each run uploads the group it samples, if something in it is dirty.
UploadGroups(b, gs) ==
    LET due == {g \in gs : DirtyIn(b, g) # {}}
        old(g) == IF g \in DOMAIN textures THEN textures[g] ELSE NoTextures
    IN  [g \in DOMAIN textures \cup due |-> IF g \in due THEN UploadGroup(old(g), b, g)
                                                        ELSE textures[g]]

Cleaned(b, gs) == [i \in DOMAIN b |-> IF GroupOf(i) \in gs
                                      THEN [b[i] EXCEPT !.dirty = {}, !.all = FALSE]
                                      ELSE b[i]]

-----------------------------------------------------------------------------
(* Drawing: DirectGlyphRun, SDFGlyphRun *)

IndexOf(b, key) == CHOOSE i \in DOMAIN b : key \in b[i].glyphs
DrawOf(i, key) == [group |-> GroupOf(i), slot |-> SlotOf(i), key |-> key]

(* Seeded fault: draw_count is one short.                                  *)
GroupsShort(indices) == UNION {0 .. GroupOf(i) - 1 : i \in indices}

\* A text makes one run for every group up to the last one it needs.
GroupsOf(indices) == UNION {0 .. GroupOf(i) : i \in indices}

DrawText(text) ==
    \E a \in AfterText(text) :
        LET drawn == ToSet(text) \ Oversized
            indices == {IndexOf(a.b, key) : key \in drawn}
            gs == GroupsOf(indices)
        IN  /\ current' = a.cur
            /\ bitmaps' = Cleaned(a.b, gs)
            /\ textures' = UploadGroups(a.b, gs)
            /\ draws' = draws \cup {DrawOf(IndexOf(a.b, key), key) : key \in drawn}
            /\ groups' = groups \cup gs
            /\ UNCHANGED leastUsed

-----------------------------------------------------------------------------
(* The end of a frame: GPUSurfaceImpl::Flush, Atlas::ClearExtraRes *)

Swap(b, i, j) == [b EXCEPT ![i] = b[j], ![j] = b[i]]
Dirtied(b, i) == [b EXCEPT ![i].all = TRUE]

Keep(b) == [i \in {i \in DOMAIN b : i < PerAtlas} |-> b[i]]

\* At least two groups: the last PerAtlas bitmaps replace the first.
MoveLastToFront ==
    [b |-> [i \in Slots |-> [bitmaps[Size(bitmaps) - PerAtlas + i] EXCEPT !.all = TRUE]],
     cur |-> PerAtlas - 1, least |-> 0]

\* Less than two groups: each bitmap beyond the first group takes the slot
\* of the least used one.
ReplaceLeastUsed(s, i) ==
    [b |-> Swap(Dirtied(s.b, i), s.least, i),
     cur |-> IF i = s.cur THEN s.least ELSE s.cur,
     least |-> (s.least + 1) % PerAtlas]

ReplaceOldest ==
    LET last == Size(bitmaps) - 1
        s[i \in PerAtlas - 1 .. last] ==
            IF i = PerAtlas - 1 THEN [b |-> bitmaps, cur |-> current, least |-> leastUsed]
            ELSE ReplaceLeastUsed(s[i - 1], i)
    IN  [b |-> Keep(s[last].b), cur |-> s[last].cur, least |-> s[last].least]

ClearExtraRes ==
    LET s == IF Size(bitmaps) <= PerAtlas
             THEN [b |-> bitmaps, cur |-> current, least |-> leastUsed]
             ELSE IF Size(bitmaps) >= 2 * PerAtlas THEN MoveLastToFront ELSE ReplaceOldest
    IN  /\ bitmaps' = s.b
        /\ current' = s.cur
        /\ leastUsed' = s.least
        /\ textures' = [g \in DOMAIN textures \cap {0} |-> textures[g]]

\* The recorded draws run on the GPU, then the extra bitmaps go.
Flush == /\ draws' = {}
         /\ groups' = {}
         /\ ClearExtraRes

Texts == UNION {[1 .. n -> Keys] : n \in 1 .. MaxRun}

AtlasNext == (\E text \in Texts : DrawText(text)) \/ Flush

AtlasSpec == AtlasInit /\ [][AtlasNext]_atlasVars

-----------------------------------------------------------------------------
(* Properties *)

\* The values the code's types allow; atlas_bitmap_ has no hole, which
\* ClearExtraRes relies on when it dereferences every entry.
AtlasTypeOK ==
    /\ bitmaps \in [0 .. Size(bitmaps) - 1 -> Bitmap]
    /\ current \in 0 .. Size(bitmaps)
    /\ leastUsed \in Slots
    /\ \A g \in DOMAIN textures : /\ textures[g].slots \in [Slots -> SUBSET Keys]
                                  /\ textures[g].made \subseteq 0 .. TexturesPerAtlas - 1
    /\ groups \subseteq Nat

\* GetGPUTexture and GetGPUSampler dereference the array of the group and
\* its first texture, whether or not the text has a glyph there.
DrawnGroupsHaveTextures ==
    \A g \in groups : /\ g \in DOMAIN textures
                      /\ 0 \in textures[g].made
                      /\ \A d \in draws : d.group = g => TextureOf(d.slot) \in textures[g].made

\* Until the frame is flushed, the slot that a recorded draw samples is on a
\* texture that was made and shows the glyph: no later text of the frame,
\* upload or new bitmap takes it away.
DrawsFindTheirGlyphs ==
    /\ DrawnGroupsHaveTextures
    /\ \A d \in draws : /\ d.group \in DOMAIN textures
                        /\ d.key \in textures[d.group].slots[d.slot]
=============================================================================
