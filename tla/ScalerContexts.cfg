SPECIFICATION FairScalerSpec
CONSTANTS
    Threads = {t1, t2}
    Renderers = {t1}
    Typefaces = {lending, owning}
    Borrowing = {lending}
    StrokeWidths = {1}
    Glyphs = {g}
    Capacity = 2

\* The application may have dropped all of its fonts.
CHECK_DEADLOCK FALSE

INVARIANTS
    TypefacesOutliveTheirScalers
    GlyphsAreReadRight
PROPERTIES CallsReturn
