SPECIFICATION ImagesSpec
CONSTANTS
    Pictures = {p}
    Mipmapped = {p}
    Atlas = {a}
    Glyphs = {g}
    Offscreen = {o}
    Swapchain = {s}
    CopySources = {o}
    Multisampled = {s}
    Targets = {r}
    UsedSnapshots = {r}
    Layers = {l1, l2, l3, l4, l5, l6}
    Attachments = {m1, m2, m3, m4, m5, m6, m7, m8}
    Copies = {d1, d2, d3, d4}
    Drawings <- MCDrawings
    MaxQueued = 2
INVARIANT SnapshotsShowTheirTarget
CHECK_DEADLOCK FALSE
