SPECIFICATION Spec

CONSTANTS
    Width = 3
    Shapes <- MCShapes
    Recorded <- MCRecorded
    DrawTypes = {"glyphs"}
    LayerPaints = {"plain"}
    Deltas = {1}
    MaxOps = 3
    MaxRecordings = 1

CHECK_DEADLOCK FALSE

INVARIANTS
    EveryDrawIsInItsRect
