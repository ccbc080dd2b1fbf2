--------------------------- MODULE MCVulkanImages ---------------------------
(* Drawings with sibling layers, nested ones that share the textures of    *)
(* the cache, and passes split by a draw that reads what is below it; and  *)
(* drawings of the snapshots that are used.                                *)
EXTENDS VulkanImages

P == DrawOf("texture", CHOOSE t \in Mipmapped : TRUE)
G == DrawOf("glyph", CHOOSE t \in Glyphs : TRUE)
L(passes) == DrawOf("layer", passes)

Siblings == << <<L(<< <<L(<< <<P>> >>), G>> >>), L(<< <<P>> >>)>> >>
Split == << <<L(<< <<G>>, <<P>> >>)>>, <<L(<< <<P>> >>)>> >>

MCDrawings(s) == IF s \in Multisampled THEN {Siblings}
                 ELSE IF s \in Targets THEN {<< <<G>> >>}
                 ELSE {Siblings, Split}
                      \cup {<< <<DrawOf("texture", t)>> >> : t \in UsedSnapshots}
=============================================================================
