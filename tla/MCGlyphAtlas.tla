---------------------------- MODULE MCGlyphAtlas ----------------------------
(* A bitmap of 12 by 11 pixels holding at most five glyphs.  With their    *)
(* padding the glyphs are three, four or seven pixels wide and three, four *)
(* or six high: some leave gaps under them, some fill the width, and a     *)
(* full bitmap is reached.  And an atlas of six keys that differ in        *)
(* nothing, and one too large.                                             *)
EXTENDS GlyphAtlas

KeySymmetry == Permutations(Keys \ Oversized)
=============================================================================
