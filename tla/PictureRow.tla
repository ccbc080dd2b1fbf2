----------------------------- MODULE PictureRow -----------------------------
(***************************************************************************)
(* A picture is a row of pixels, a region is a set of pixels, and a        *)
(* rectangle is an interval of them.                                       *)
(***************************************************************************)
EXTENDS Integers, FiniteSetsExt

CONSTANT Width    \* the picture is the pixels 0 .. Width - 1

Picture == 0 .. Width - 1

(* Rect::Join, Path::GetBounds: the smallest rectangle around a region.    *)
Hull(region) == IF region = {} THEN {} ELSE Min(region) .. Max(region)

(* The rectangles of a picture that are not empty.                         *)
Rects == {from .. to : from \in Picture, to \in Picture} \ {{}}
=============================================================================
