--------------------------- MODULE MCCanvasLayers ---------------------------
EXTENDS CanvasLayers

Shape == [type |-> "shape", dst |-> FALSE]
ReadingPath == [type |-> "path", dst |-> TRUE]

MC_DrawKinds == {Shape, ReadingPath}
MC_DrawShapes == {{1, 2}, {2, 3}}
MC_ClipShapes == {{1, 3}}

\* Every call, over two frames; and more calls with nothing but saves and
\* clips by path, whose depths are the hard part.
AllCalls == [rects |-> {1 .. 2}, layers |-> {2 .. 3}, moves |-> {1},
             ops |-> 5, frames |-> 2]
PathClips == [rects |-> {}, layers |-> {}, moves |-> {}, ops |-> 6, frames |-> 1]
MC_Scenes == {AllCalls, PathClips}
=============================================================================
