SPECIFICATION Spec
CONSTANTS
    Width = 3
    DrawShapes <- MC_DrawShapes
    DrawKinds <- MC_DrawKinds
    ClipShapes <- MC_ClipShapes
    Scenes <- MC_Scenes
    MaxTextureSize = 3
    BalancedFrames = TRUE
    MaxOps = 6
INVARIANT FrameIsRight
PROPERTY RestoreUndoesSave
CHECK_DEADLOCK FALSE
