--------------------------- MODULE MCDisplayList ---------------------------
EXTENDS DisplayList

MCShapes == {{0}, {0, 2}}
MCRecorded == {{0, 1, 2}}
=============================================================================
