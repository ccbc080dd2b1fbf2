SPECIFICATION GlyphAtlasSpec
CONSTANTS
    Width = 12
    Height = 11
    GlyphWidths = {1, 2, 5}
    GlyphHeights = {1, 2, 4}
    MaxGlyphs = 5
    Keys = {a, b, c, d, e, f, tooLarge}
    Oversized = {tooLarge}
    BitmapsPerTexture = 1
    TexturesPerAtlas = 3
    BitmapCapacity = 2
    MaxRun = 3
SYMMETRY KeySymmetry
INVARIANTS
    RefusesOnlyWhatFitsNowhere
    CleanRegionsAreUploaded
    DrawsFindTheirGlyphs
PROPERTIES ImplementsSkyline
