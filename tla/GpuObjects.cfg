SPECIFICATION GpuObjectsSpec
CONSTANTS
    Commands = {c1, c2}
    Resources = {r1, r2}
    SurfaceFences = {f1}
    Semaphores = {s1}
    Textures = {t1, t2}
    Pixmaps = {p1, p2}
    None = None
    Pictures = {p}
    Mipmapped = {p}
    Atlas = {a}
    Glyphs = {g}
    Offscreen = {o}
    Swapchain = {s}
    CopySources = {o}
    Multisampled = {s}
    Targets = {r}
    UsedSnapshots = {}
    Layers = {l1, l2, l3, l4, l5, l6}
    Attachments = {m1, m2, m3, m4, m5, m6, m7, m8}
    Copies = {d1, d2, d3, d4}
    Drawings <- MCDrawings
    MaxQueued = 2
INVARIANTS
    TypeOK
    InFlightWorkIsHeld
    FencesAreUsedOnce
    NothingLeaks
    WaitAllHangsOnlyOnArmedFences
    EntriesFollowTextures
    GPUTexturesDieOnTheGPUThread
    PixmapsAreDrawnRight
    ImagesAreUsedRight
    FramesShowWhatWasDrawn
PROPERTIES
    WaitAllReturns
    ImplementsGpuWork
    DroppedTexturesAreFreed
CHECK_DEADLOCK FALSE
