----------------------------- MODULE GlyphAtlas -----------------------------
(***************************************************************************)
(* The two halves of the text atlas: where the glyphs of one bitmap are    *)
(* and which of its rows are dirty (AtlasBitmap), and how the bitmaps are  *)
(* grouped, uploaded, moved and dropped (TextAtlas).  Each half leaves out *)
(* what the other is about and they share no state here, so a behaviour is *)
(* of one of them.                                                         *)
(***************************************************************************)
EXTENDS AtlasBitmap, TextAtlas

GlyphAtlasInit == Init /\ AtlasInit

BitmapStep == Size(bitmaps) = 0 /\ Next /\ UNCHANGED atlasVars
TextStep   == regions = {} /\ dirty = Clean /\ AtlasNext /\ UNCHANGED vars

GlyphAtlasSpec == GlyphAtlasInit /\ [][BitmapStep \/ TextStep]_<<vars, atlasVars>>
=============================================================================
