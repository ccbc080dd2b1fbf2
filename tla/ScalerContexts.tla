--------------------------- MODULE ScalerContexts ---------------------------
(***************************************************************************)
(* The global cache of scaler contexts, the glyphs in them and their users *)
(*   src/text/scaler_context_cache.cc, src/base/lru_cache.hpp,             *)
(*   src/text/scaler_context_container.cc, src/text/font.cc                *)
(* A thread that measures or draws text looks up the container of a        *)
(* descriptor, has glyphs prepared in it under its lock, and reads them by *)
(* pointer when it has neither the lock nor the container any more.        *)
(* Meanwhile other threads make the cache evict containers and drop their  *)
(* typefaces, whose destructor purges the cache.                           *)
(*                                                                         *)
(* A descriptor is a typeface, the look of the text and the stroke width   *)
(* of the paint: of everything that goes into one, what calls for the same *)
(* glyph may differ in.                                                    *)
(* The locks of the containers and of FreeType are taken inside the one of *)
(* the cache or alone, so what is done under them is one step.             *)
(***************************************************************************)
EXTENDS Integers, SequencesExt

CONSTANTS
    Threads,
    Renderers,          \* the threads that draw text
    Typefaces,
    Borrowing,          \* typefaces whose scaler contexts lend their own pixels
    StrokeWidths,       \* stroke widths of the paints that draw outlines
    Glyphs,
    Capacity            \* kMaxCacheSize

ASSUME ScalerAssumption == /\ IsFiniteSet(Threads) /\ Threads # {}
                           /\ Renderers \subseteq Threads
                           /\ Borrowing \subseteq Typefaces
                           /\ StrokeWidths \subseteq Nat
                           /\ Capacity \in Nat \ {0}

\* A typeface that is alive or dead is not being destroyed by a thread.
ASSUME ThreadsAssumption == Threads \cap {"alive", "dead", "nobody"} = {}

VARIABLES
    fonts,      \* the typefaces that the fonts of a thread refer to
    life,       \* of a typeface: "alive", the thread destroying it, or "dead"
    lock,       \* mutex_ of the cache: its holder across steps, or Nobody
    cache,      \* cache_: the containers, the last used first
    containers, \* the scaler contexts with the glyphs prepared in them
    heap,       \* the allocated bitmaps, with the glyph each shows
    calls       \* what each thread is doing

scalerVars == <<fonts, life, lock, cache, containers, heap, calls>>

Nobody == "nobody"
Nowhere == <<>>

Widths == {0} \cup StrokeWidths

\* MakeCanonicalized and MakeTransformed: without the transform, scale and
\* colour of the drawing and with them.  A paint that fills gives the width
\* 0 and the default stroke options, which are those of most paints.
Canonical(typeface, width) == <<typeface, "plain", width>>
Transformed(typeface, width) == <<typeface, "drawn", width>>

\* The pixels of an image are in a bitmap of the heap, lent or not there.
Lent == -1
Nothing == 0
NoImage == [at |-> Nothing, needFree |-> FALSE]

Resting == [at |-> "idle", user |-> "none", plan |-> <<>>, held |-> Nowhere,
            got |-> <<>>, asked |-> {}]

ScalerInit ==
    /\ fonts = [t \in Threads |-> Typefaces]
    /\ life = [f \in Typefaces |-> "alive"]
    /\ lock = Nobody
    /\ cache = <<>>
    /\ containers = [c \in {} |-> <<>>]
    /\ heap = [b \in {} |-> <<>>]
    /\ calls = [t \in Threads |-> Resting]

\* A number that is not taken; pointers to what is given back are cleared, so
\* a number may be used again.
Unused(taken) == CHOOSE n \in 1 .. Cardinality(taken) + 1 : n \notin taken

With(f, x, y) == [z \in DOMAIN f \cup {x} |-> IF z = x THEN y ELSE f[z]]

\* Where containers are: several may have one descriptor, one of them cached.
DescOf(c) == c[1]
TypefaceOf(c) == DescOf(c)[1]
UnusedFor(desc) == <<desc, Unused({c[2] : c \in {c \in DOMAIN containers : DescOf(c) = desc}})>>

Destroying(t) == \E f \in Typefaces : life[f] = t
At(t, pc) == calls[t].at = pc /\ ~Destroying(t)
Active == {t \in Threads : calls[t].at # "idle"}

-----------------------------------------------------------------------------
(* Lifetimes *)

(* Seeded fault: a scaler context shares the ownership of its typeface.    *)
KeepsTypefaceAlive == TRUE

\* A scaler context has a weak_ptr to its typeface.
KeepsTypeface == FALSE

Owned(f, users, scalers) ==
    \/ \E t \in Threads : f \in users[t]
    \/ KeepsTypeface /\ \E c \in DOMAIN scalers : TypefaceOf(c) = f

\* The typefaces whose last owner goes away: t runs their destructors.
AfterRelease(t, users, scalers) ==
    [f \in Typefaces |-> IF life[f] = "alive" /\ ~Owned(f, users, scalers)
                         THEN t ELSE life[f]]

\* The containers that neither the cache nor a call refers to are destroyed.
Referenced(list, now) == ToSet(list) \cup {now[t].held : t \in Threads}
Living(all, list, now) == Restrict(all, DOMAIN all \cap Referenced(list, now))

\* Their glyphs go with them: pointers to those lead nowhere.
Forget(now, living) ==
    [t \in Threads |->
        [now[t] EXCEPT !.got = [i \in DOMAIN @ |->
            IF @[i].from \in DOMAIN living THEN @[i]
            ELSE [@[i] EXCEPT !.from = Nowhere]]]]

-----------------------------------------------------------------------------
(* Starting: Font::LoadGlyphMetrics, Atlas::GenerateGlyphRegion,           *)
(* SWCanvas::FillGlyphs                                                    *)

Request(desc, kind, glyph) == [desc |-> desc, kind |-> kind, glyph |-> glyph]

DescsOf(plan) == {plan[i].desc : i \in DOMAIN plan}

\* The requests of one call of each kind.
Measurings(f) ==
    {<<Request(d, "metrics", g)>> :
        d \in {Canonical(f, w) : w \in Widths} \cup {Transformed(f, w) : w \in Widths},
        g \in Glyphs}

\* An outline whose paint asks for it is adjusted: the filled glyph is cut out
\* of it, and both images are there at once.
AtlasPlans(f) ==
    {<<Request(Transformed(f, w), "image", g)>> : w \in Widths, g \in Glyphs}
    \cup {<<Request(Transformed(f, w), "image", g), Request(Transformed(f, 0), "image", g)>> :
              w \in StrokeWidths, g \in Glyphs}

\* The software canvas loads the paths of all glyphs first, then the image of
\* one after the other.
CanvasPlans(f) ==
    {<<Request(Canonical(f, 0), "metrics", g)>>
       \o [i \in 1 .. n |-> Request(Transformed(f, 0), "image", g)] :
         g \in Glyphs, n \in 1 .. 2}

\* From the first lookup of a call to its last read, all threads together
\* ask for no more descriptors than the cache has room for.
CacheIsLarge(t, plan) ==
    LET others == UNION {DescsOf(calls[u].plan) : u \in Active}
    IN  /\ Cardinality(DescsOf(plan) \cup others) <= Capacity
        /\ \A u \in Active : Cardinality(calls[u].asked \cup DescsOf(plan)) <= Capacity

Start(t, user, plan) ==
    /\ At(t, "idle")
    /\ CacheIsLarge(t, plan)
    /\ calls' = [u \in Threads |->
          IF u = t THEN [Resting EXCEPT !.at = "lookup", !.user = user, !.plan = plan,
                                        !.asked = DescsOf(plan)
                                            \cup UNION {DescsOf(calls[v].plan) : v \in Active}]
          ELSE IF u \in Active THEN [calls[u] EXCEPT !.asked = @ \cup DescsOf(plan)]
          ELSE calls[u]]
    /\ UNCHANGED <<fonts, life, lock, cache, containers, heap>>

Measure(t) ==
    \E f \in fonts[t] : \E plan \in Measurings(f) : Start(t, "measure", plan)

DrawToAtlas(t) ==
    /\ t \in Renderers
    /\ \E f \in fonts[t] : \E plan \in AtlasPlans(f) : Start(t, "atlas", plan)

DrawInSoftware(t) ==
    /\ t \in Renderers
    /\ \E f \in fonts[t] : \E plan \in CanvasPlans(f) : Start(t, "canvas", plan)

-----------------------------------------------------------------------------
(* ScalerContextCache, LRUCache *)

Cached(desc) == {c \in ToSet(cache) : DescOf(c) = desc}

(* Seeded fault: what is found stays where it is in the list.              *)
FindInPlace(list, c) == list

\* What list::remove leaves of a list.
Without(list, gone) ==
    LET left[i \in 0 .. Len(list)] ==
            IF i = 0 THEN <<>>
            ELSE IF list[i] \in gone THEN left[i - 1]
            ELSE Append(left[i - 1], list[i])
    IN  left[Len(list)]

\* LRUCache::Find moves what it finds to the front.
Find(list, c) == <<c>> \o Without(list, {c})

\* LRUCache::Insert: the least recently used entries make room.
Insert(list, c) == SubSeq(<<c>> \o list, 1, IF Len(list) < Capacity THEN Len(list) + 1 ELSE Capacity)

NewContainer == [images |-> [g \in Glyphs |-> NoImage], drawn |-> {}]

\* Nothing is done after the lock is released, so that the step ends with it
\* unless a typeface is destroyed on the way, whose destructor wants the lock.
FindOrCreateScalerContext(t) ==
    LET desc  == Head(calls[t].plan).desc
        found == Cached(desc) # {}
        c     == IF found THEN CHOOSE e \in Cached(desc) : TRUE
                 ELSE UnusedFor(desc)
        list  == IF found THEN Find(cache, c) ELSE Insert(cache, c)
        all   == IF found THEN containers ELSE With(containers, c, NewContainer)
        now   == [calls EXCEPT ![t].at = "use", ![t].held = c]
        rest  == Living(all, list, now)
    IN  /\ At(t, "lookup")
        /\ lock = Nobody
        /\ cache' = list
        /\ containers' = rest
        /\ calls' = Forget(now, rest)
        /\ life' = AfterRelease(t, fonts, rest)
        /\ lock' = IF t \in {life'[f] : f \in Typefaces} THEN t ELSE Nobody
        /\ UNCHANGED <<fonts, heap>>

\* The application drops a font, perhaps the last of the typeface.
DropFont(t) ==
    /\ At(t, "idle")
    /\ \E f \in fonts[t] : fonts' = [fonts EXCEPT ![t] = @ \ {f}]
    /\ life' = AfterRelease(t, fonts', containers)
    /\ UNCHANGED <<lock, cache, containers, heap, calls>>

(* Seeded fault: the search ends with the first entry of the typeface.     *)
FirstEntryOf(f) == LET all == {c \in ToSet(cache) : TypefaceOf(c) = f}
                   IN  IF all = {} THEN {} ELSE {CHOOSE c \in all : TRUE}

EntriesOf(f) == {c \in ToSet(cache) : TypefaceOf(c) = f}

\* The destructor of a typeface.
PurgeByTypeface(t) ==
    \E f \in Typefaces :
        LET list == Without(cache, EntriesOf(f))
            rest == Living(containers, list, calls)
        IN  /\ life[f] = t
            /\ lock = Nobody
            /\ cache' = list
            /\ containers' = rest
            /\ calls' = Forget(calls, rest)
            /\ life' = [life EXCEPT ![f] = "dead"]
            /\ UNCHANGED <<fonts, lock, heap>>

-----------------------------------------------------------------------------
(* ScalerContextContainer, ScalerContext *)

IsImage(request) == request.kind = "image"

\* GenerateImage: pixels that the caller has to free, or lent ones, which
\* show the last glyph that was drawn.
GenerateImage(c, glyph) ==
    LET b == Unused(DOMAIN heap)
    IN  IF TypefaceOf(c) \in Borrowing
        THEN [heap |-> heap,
              glyphs |-> [containers[c] EXCEPT
                             !.images[glyph] = [at |-> Lent, needFree |-> FALSE],
                             !.drawn = {glyph}]]
        ELSE [heap |-> With(heap, b, [desc |-> DescOf(c), glyph |-> glyph]),
              glyphs |-> [containers[c] EXCEPT
                             !.images[glyph] = [at |-> b, needFree |-> TRUE]]]

\* The software canvas copies an image before it asks for the next one; the
\* atlas asks for both images of an outline first.
AfterUse(call, request) ==
    IF Tail(call.plan) = <<>> \/ (call.user = "canvas" /\ IsImage(request))
    THEN "read" ELSE "lookup"

\* Metrics, PreparePaths, PrepareImageInfos and PrepareImages under the lock
\* of the container, and the end of the call that had looked it up.
Prepare(t) ==
    LET call    == calls[t]
        request == Head(call.plan)
        c       == call.held
        made    == IF IsImage(request) THEN GenerateImage(c, request.glyph)
                   ELSE [heap |-> heap, glyphs |-> containers[c]]
        all     == [containers EXCEPT ![c] = made.glyphs]
        now     == [calls EXCEPT ![t] = [call EXCEPT
                       !.at = AfterUse(call, request),
                       !.plan = Tail(@),
                       !.held = Nowhere,
                       !.got = Append(@, [from |-> c, desc |-> request.desc,
                                          kind |-> request.kind, glyph |-> request.glyph])]]
        rest    == Living(all, cache, now)
    IN  /\ At(t, "use")
        /\ heap' = made.heap
        /\ containers' = rest
        /\ calls' = Forget(now, rest)
        /\ life' = AfterRelease(t, fonts, rest)
        /\ UNCHANGED <<fonts, lock, cache>>

-----------------------------------------------------------------------------
(* Reading *)

ImageOf(glyph) == containers[glyph.from].images[glyph.glyph]

(* Seeded fault: the image of the filled glyph is not released.            *)
ReleasesOutlineOnly(t) ==
    /\ IsImage(Last(calls[t].got)) /\ ImageOf(Last(calls[t].got)).needFree
    /\ calls[t].user = "atlas" => Len(calls[t].got) = 1

\* The atlas and the software canvas free the image they have read last if it
\* is theirs.
Releases(t) == IsImage(Last(calls[t].got)) /\ ImageOf(Last(calls[t].got)).needFree

\* The flag is cleared by the atlas; the canvas clears that of its own copy.
Freed(image, user) ==
    [at |-> Nothing, needFree |-> IF user = "atlas" THEN FALSE ELSE image.needFree]

\* All that was got is read, then the last image is released.  The paths of
\* the software canvas are kept for its next glyph.
AfterRead(call) ==
    LET left == Front(call.got)
    IN  IF call.plan # <<>> THEN [call EXCEPT !.at = "lookup", !.got = left]
        ELSE IF \E i \in DOMAIN left : IsImage(left[i]) THEN [call EXCEPT !.got = left]
        ELSE Resting

Read(t) ==
    LET last  == Last(calls[t].got)
        image == ImageOf(last)
    IN  /\ At(t, "read")
        /\ IF Releases(t)
           THEN /\ heap' = Restrict(heap, DOMAIN heap \ {image.at})
                /\ containers' = [containers EXCEPT
                      ![last.from].images[last.glyph] = Freed(image, calls[t].user)]
           ELSE UNCHANGED <<heap, containers>>
        /\ calls' = [calls EXCEPT ![t] = AfterRead(@)]
        /\ UNCHANGED <<fonts, life, lock, cache>>

-----------------------------------------------------------------------------
(* Everything *)

Go(t) == \/ FindOrCreateScalerContext(t)
         \/ Prepare(t)
         \/ Read(t)
         \/ PurgeByTypeface(t)

ScalerNext == \E t \in Threads : Measure(t) \/ DrawToAtlas(t) \/ DrawInSoftware(t)
                             \/ DropFont(t) \/ Go(t)

ScalerSpec == ScalerInit /\ [][ScalerNext]_scalerVars

\* A thread inside of a call is not stopped for ever.
FairScalerSpec == ScalerSpec /\ \A t \in Threads : WF_scalerVars(Go(t))

-----------------------------------------------------------------------------
(* Properties *)

\* The values the code's types allow.
ScalerTypeOK ==
    /\ fonts \in [Threads -> SUBSET Typefaces]
    /\ life \in [Typefaces -> {"alive", "dead"} \cup Threads]
    /\ lock \in {Nobody} \cup Threads
    /\ ToSet(cache) \subseteq DOMAIN containers /\ Len(cache) <= Capacity

\* "If a ScalerContext is used, the typeface is guaranteed to exist": nothing
\* of the cache or of a call outlives the face it was made from, although no
\* scaler context keeps its typeface alive.
TypefacesOutliveTheirScalers ==
    /\ \A c \in DOMAIN containers : life[TypefaceOf(c)] # "dead"
    /\ \A t \in Threads : calls[t].held # Nowhere =>
           life[TypefaceOf(calls[t].held)] = "alive"

\* The image of a glyph shows it.
Shows(glyph) ==
    LET image == ImageOf(glyph)
    IN  IF image.at = Lent
        THEN containers[glyph.from].drawn = {glyph.glyph} /\ ~image.needFree
        ELSE /\ image.at \in DOMAIN heap
             /\ heap[image.at] = [desc |-> glyph.desc, glyph |-> glyph.glyph]

\* The glyphs a call was given live until it has read them, although it has
\* dropped their container: whatever other threads look up meanwhile (fewer
\* descriptors than the cache has room for), the least recently used are not
\* those in use, and a purge is of typefaces that nobody uses.  "The caller
\* must consume or copy the returned bitmap before the next request": an image
\* that is read is that of the glyph and was not freed, and when nobody is
\* drawing every image has been freed.
GlyphsAreReadRight ==
    /\ \A t \in Threads : \A i \in DOMAIN calls[t].got :
           LET glyph == calls[t].got[i]
           IN  /\ glyph.from # Nowhere
               /\ (calls[t].at = "read" /\ IsImage(glyph)) => Shows(glyph)
    /\ Active = {} => DOMAIN heap = {}

\* No call waits for ever for the lock of the cache, which is held while
\* scaler contexts are made and destroyed, and no typeface for its purge.
CallsReturn ==
    /\ \A t \in Threads : calls[t].at # "idle" ~> calls[t].at = "idle"
    /\ \A f \in Typefaces : life[f] \in Threads ~> life[f] = "dead"
=============================================================================
