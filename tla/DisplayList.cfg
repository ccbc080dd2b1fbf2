SPECIFICATION Spec

CONSTANTS
    Width = 3
    Shapes <- MCShapes
    Recorded <- MCRecorded
    DrawTypes = {"shape", "paint"}
    LayerPaints = {"plain", "filter", "blend"}
    Deltas = {1}
    MaxOps = 5
    MaxRecordings = 1

CHECK_DEADLOCK FALSE

INVARIANTS
    CulledReplayShowsTheRect
    DrawingIsInBounds
    CulledReplayIsBalanced
