------------------------- MODULE MCDisplayListSearch ------------------------
EXTENDS DisplayListSearch

(* Every rectangle of pixels of a grid, and some between the pixels: one   *)
(* upside down, one thinner than a pixel, and an empty one.                *)
Pixels(width, height) ==
    {MakeRect(2 * l, 2 * t, 2 * r, 2 * b) :
       l \in 0 .. width - 1, t \in 0 .. height - 1, r \in 1 .. width, b \in 1 .. height}

MCInputs ==
    {r \in Pixels(3, 4) : ~IsEmptyRect(r)}
      \cup {MakeRect(3, 5, 1, 2), MakeRect(1, 3, 1, 5), MakeRect(2, 2, 2, 4)}
=============================================================================
