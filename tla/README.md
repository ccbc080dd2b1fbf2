# Formal models of skity

skity is a 2D graphics library in C++. A canvas records draws into layers; a frame is
flushed into command buffers of a GPU backend; textures, glyph atlases and fences outlive
the frames that use them. This directory holds TLA+ models of the parts whose correctness
depends on the order of things: who owns what while the GPU runs, which texture holds which
glyph, which clip applies to which draw, what a culled replay of a recording may leave out, what
the shader compiler makes of a statement or an expression.
TLC checks the models on small instances; TLAPS proves the central invariants for every
value of the constants.

Paths below are relative to the repository. `PROJECT.json` maps each definition to the
lines it models and lists runs, hazards, findings, seeded faults and theorems.

## 1. Inventory

One `GPUContext` serves one render thread (`include/skity/gpu/gpu_context.hpp:65`);
uploading a texture must happen on the thread that made the context (lines 100-103).
Other threads may create and drop textures and share typefaces.

| Component | State | Operations | Talks to | What is hard |
|---|---|---|---|---|
| Vulkan submission (`gpu/vk/gpu_command_buffer_vk.cc`, `vulkan_context_state.cc`) | command buffers and their pools, `pending_submissions_`, fences, clean-up actions | record, submit, drop, reclaim by fence, wait for all | the graphics queue, which runs on its own; surfaces and presenters lend it fences | objects must outlive the GPU's use of them; fences used by two parties |
| Vulkan presenter and window (`gpu_presenter_vk.cc`, `gpu_native_window_vk.cc`) | frame slots with a fence and a semaphore, a fence per image, `broken_`, `has_outstanding_surface_` | acquire, present, discard, reset, recreate | submission, presentation engine | frames in flight, failures in the middle of acquire, tear-down |
| Vulkan images and recording (`gpu_texture_vk.cc`, `gpu_render_pass_vk.cc`, `gpu_blit_pass_vk.cc`, `gpu_context_impl_vk.cc`) | per texture the layout it believes its image to be in; per command buffer barriers, copies, passes | upload, generate mipmaps, draw passes and layers, copy what is below, make a render target, read back | submission, hardware canvas | the belief runs ahead of the queue; one image under two textures; layers that share nothing but the order |
| Vulkan buffers, surfaces (`gpu/vk`, rest) | buffers, render pass cache, external semaphores | create, upload, wait | submission | partial failures, semaphores of others |
| GPU context and surfaces (`gpu/gpu_context_impl.cc`, `gpu_surface_impl.cc`) | the parts above | create, flush, snapshot, read pixels | everything | sequential set-up; its operations are actions of the modules that have the state |
| Text atlas packing (`render/text/atlas/atlas_allocator.*`, `atlas_bitmap.*`) | skyline nodes, pixels, dirty rectangle | allocate, merge nodes, upload | text atlas | geometry of the skyline, what is dirty |
| Text atlas (`atlas_manager.*`, `atlas_texture.*`) | list of bitmaps, current index, textures per group | find or rasterise glyphs, upload, end of frame | glyph runs, textures | bitmaps move between texture slots while recorded draws refer to them |
| Texture manager (`gpu/texture_manager.*`, `texture_impl.*`) | handlers, GPU textures, pixmap cache, release queue | create, deferred and direct upload, drop, end of frame, shut down | application threads, render thread | last references dropped on any thread; shutting down |
| Canvas state (`render/canvas.cc`, `canvas_state.*`) | save count, clip bounds, matrices | save, restore, clip, transform, reject | hardware canvas, recorder | three stacks that pop together |
| Hardware canvas and layers (`render/hw/hw_canvas.*`, `hw_layer.*`, `hw_layer_state.cc`) | stack of layers, stack of clips, draws and their depths, passes | draw, clip, save layer, restore, flush | canvas state, backend | a clip's depth is known only when it is popped; draws merge; passes split |
| Display list recorder (`recorder/`, without the two below) | operations, stack of open saves, rectangles of draws, bounds | record, finish, replay, culled replay | canvas | a culled replay must skip in pairs |
| Region and R-tree (`recorder/display_list_region.*`, `display_list_rtree.*`) | lines of spans; nodes | build, unite, intersect, cover, query; build, search | recorder | boundaries; branch factor |
| Resource and render target caches (`render/hw/hw_resource_cache.hpp`) | sizes and entries by key | obtain, store, purge | hardware canvas | disabled in this commit for every context (`gpu_context.hpp:351`) |
| Stage and static buffers | offsets, pending bytes, `needs_flush_` | push, flush | backend | failed uploads |
| Pipeline library | pipelines, pipelines that failed this frame | find, make | backend | failures are remembered |
| Draw steps, filters, coverage, path raster | per draw | tessellate, shade | hardware canvas | numerical |
| OpenGL, Metal, Web backends | as Vulkan, synchronised by the driver | | | sequential |
| Software renderer (`render/sw`) | spans | rasterise | canvas | numerical |
| Scaler contexts (`text/scaler_context_cache.*`, `scaler_context_container.cc`, `font.cc`, `base/lru_cache.hpp`) | LRU cache under a mutex; per descriptor the glyphs prepared, under a lock of their own | find or make, prepare, read, purge by typeface | atlas, software renderer, any thread that measures | glyphs are read by pointer without a lock; typefaces die on any thread; images lent or owned |
| Typefaces, fonts, shaping (`text/`, rest) | values | | scaler contexts | numerical, platform |
| Graphics, effects, geometry, base, io, utilities | values | | | numerical |
| WGSL compiler (`module/wgx`) | tokens, tree, blocks with the stacks of loops, text | scan, parse, lower, verify, write SPIR-V, print GLSL and MSL | pipelines | three readings of one text must agree: what the parser finds, what the blocks do, what the printed text does |
| C API, codec (`module/`) | wrappers | | | none of the renderer's state |

What makes each modelled component correct is stated as its properties in section 3.
Components without a model are listed in `PROJECT.json` with the reason.

## 2. Modules

    GpuWork              what any backend promises about work in flight
      ^ implemented by
    VulkanSubmission     command buffers, fences, pending submissions, the queue
      ^ extended by
    VulkanPresenter      frame slots, images, engine, window, application

    TextureManager       textures, handlers, GPU textures, threads, shutting down
    VulkanImages         layouts, barriers, copies, passes; what images show
    GpuObjects           VulkanSubmission, TextureManager and VulkanImages

    GlyphBitmap          the size of a bitmap and the regions of glyphs in it
      ^ extended by both of
    Skyline              a height per column: the loosest packing that keeps regions apart
      ^ implemented by
    AtlasBitmap          nodes, best column, merging, dirty rectangle
    TextAtlas            list of bitmaps, groups of textures, draws of a frame
    GlyphAtlas           AtlasBitmap and TextAtlas
    ScalerContexts       cache of scaler contexts, glyphs, typefaces, threads

    CanvasLayers         Canvas + CanvasState + HWCanvas + HWLayer: a frame
    PictureRow           a picture of one row: its rectangles, the hull of a region
      ^ extended by both of
    DisplayList          RecordingCanvas + PictureRecorder + DisplayList
    DisplayListRTree     DisplayListRTree
    DisplayListRegion    DisplayListRegion
    DisplayListSearch    DisplayListRegion and DisplayListRTree

    WgxSyntax            statements, their tokens, what they mean
      ^ extended by
    WgxParser            the parser of function bodies
    WgxLowering          blocks, the verifier, SPIR-V's structure, how blocks run
      ^ both extended by
    WgxShaders           a function through the compiler, three ways side by side
    WgxExpressions       scanner, template arguments, the parser of expressions
      ^ both extended by
    WgxCompiler          functions and expressions through the compiler

    GpuProofs            theorems about VulkanPresenter (with VulkanSubmission) and TextureManager
    TextProofs           theorems about AtlasBitmap, TextAtlas and ScalerContexts
      ^ cites
    SkylineProofs        theorems about Skyline
    CanvasLayersProofs   lemmas about one layer of CanvasLayers
      ^ extended by
    CanvasFrameProofs    theorems about CanvasLayers
    DisplayListProofs    theorems about DisplayList and DisplayListRTree
    DisplayListRegionProofs theorems about DisplayListRegion
    Induction            what proofs about recursive functions and sequences rest on
    MC...                values of the constants

`GpuObjects`, `GlyphAtlas`, `DisplayListSearch` and `WgxCompiler` put machines that share no
state into one run: the initial state chooses which one moves. They are a way of running
them, not a claim about how they interact. Where components do interact, the modules meet
like this:

* `VulkanPresenter` has the state of `VulkanSubmission` and takes its actions as they are.
* `VulkanImages` needs of `VulkanSubmission` that what a batch holds lives until the batch
  is done, which is `InFlightWorkIsHeld`; it has `held` and `executed` for that, and no
  fences.
* `TextAtlas` asks of a bitmap that one which holds nothing takes any glyph that is not
  oversized, which `AtlasBitmap` guarantees (`RefusesOnlyWhatFitsNowhere`), and that one which
  holds something may refuse.
* `DisplayList` takes the search for the draws that meet a rectangle as a filter of the
  recorded rectangles. The tree of `DisplayListRTree` finds what such a filter finds
  (`ReplaysMaySearchTheTree`).

### VulkanSubmission, GpuWork

`command` is `recording_` and `submitted_` of a `GPUCommandBufferVK`; `held` is what its
clean-up actions keep alive; `used` is what the commands written so far refer to; `pending`
is `pending_submissions_`. The queue completes batches in the order of submission, waiting
for their semaphores. Each method that changes state is an action: creating a buffer,
recording, dropping a reference, ending, submitting with and without a lent fence, a failed
end or submission, the collection that follows a submission, waiting for all, and
destruction. The destructor of a command buffer that was submitted and one that was not
differ, as in the code. `thread` tells where the context's thread stands, so that the queue
moves between the submission and the collection.

`GpuWork` states the promise: work uses only live objects until it is complete. It has no
fences, pools or lists. `ImplementsGpuWork` is the refinement.

### VulkanPresenter

Extends the above with the slots and images of `GPUPresenterVK`. What commands refer to is
not recorded here (no `CreateResource`, no `RecordUse`), only which fences and semaphores a
submission uses. `AcquireNextSurface` is
split at each of its waits (`call`), so that queue and engine move in between: wait for the
slot's fence, acquire, wait for the image's fence, reset the fence. An acquire and a present
may fail at each place where the code handles it. `Present` and the destruction of a surface
are actions of the application. `GPUNativeWindowVKImpl` replaces the presenter: wait idle,
collect all, destroy. The presentation engine signals acquire semaphores and returns images
in any order.

### TextureManager

What runs under `shared_mutex_` is one step. A `shared_ptr` is the set of its holders, and an
object dies when the set becomes empty. `~TextureImpl` runs on whatever thread dropped the
last reference: locked the manager, dropped the handler, gone. The GPU thread draws, uploads
and flushes in steps, so that a drop happens between them, and the context may
go at any time between frames (`DestroyContext`).

### VulkanImages

`layouts` is `current_layout_` of every `GPUTextureVK`: what the recording thread believes.
`images` is the layout and the contents of each mipmap level as the GPU has them, and
changes only when the queue executes a batch (`Execute`). A command buffer is built by
operators named after the code's methods (`Transition`, `UploadTextureData`,
`GenerateMipmaps`, `SampledHeld`, `RecordPass`, `DrawLayer`); every command says which
layout of which image it was recorded for, which is what `ImagesAreUsedRight` compares when
the queue gets there. Executing a barrier from the undefined layout loses the contents. What
an image holds is the set of marks painted into it, and a draw of a layer or of a texture
paints what that one holds, so that a wrong order, a copy too early or a pass that clears
too much shows in `FramesShowWhatWasDrawn`.

An action is one call of the application together with all that it submits: a frame is the
glyphs it adds, its passes, the layers they draw (each with a texture, and when
multisampled an attachment, of its own), the copies for draws that read what is below them,
and the transition to the layout the surface ends in. A render target is two textures on
one image, as `OnCreateRenderTarget` makes them. Reading back is split at its wait.

Simplified: there are no depth and stencil attachments, no layers of filters
(`HWFilterLayer`), no emulated loads and no buffers; frames on images of the swapchain and on
multisampled surfaces begin by clearing, as nothing is promised about what these held; no
draw inside a layer of a multisampled surface reads what is below it; one texture descriptor
per kind of texture.

### GlyphBitmap, Skyline, AtlasBitmap

`AtlasBitmap` is the node list of `AtlasAllocator` with the choice of the best column, the
split and merge steps, and the dirty rectangle of `AtlasBitmap`. `Skyline` keeps only the
height reached in each column and the regions handed out; a region may be placed wherever
it lies on the skyline. Both extend `GlyphBitmap`, which says what a region is and what a
good set of them is (`RegionsAreDisjoint`, `RegionsAreInside`). `ImplementsSkyline` maps
nodes to column heights. That is proved, as is that `Skyline` keeps regions apart and inside
(section 4), so the allocator does. A node that was just merged is not compared again, as in
the code. The loops over the nodes are recursive functions, so that the provers can reason
about them.

### TextAtlas

Bitmaps are sets of glyph keys, textures the copies uploaded of them, draws the glyphs
recorded in this frame. Each action is one text or the end of the frame. A text asks for its
glyphs one after the other (`AfterText`), then each of its runs uploads its group
(`UploadGroups`); the groups are apart from each other, so they are uploaded in one step. At
the end of a frame the bitmaps beyond the first group take its slots, one after the other
(`ReplaceOldest`) or, when they are a group or more, all at once (`MoveLastToFront`).

### ScalerContexts

A thread that measures or draws looks up the container of a descriptor, has a glyph prepared
in it under the container's lock, and reads it by pointer when it has neither the lock nor
the container any more; these are the values of `calls[t].at`. `cache` is the LRU list,
`containers` what is in them, `heap` the bitmaps that somebody has to free. The cache's
mutex is a variable because it can be held across steps: what destroys containers under it
could end the life of a typeface, whose destructor wants the mutex for its purge. That it
never does is proved (`TypesAreRight`). The locks of a container and of
FreeType are only taken inside of it or alone, so there is no cycle, and what is done under
them is one step. The atlas and the software canvas are two users with different habits
of freeing images; typefaces differ in whether their scaler contexts lend their own pixels.

The instance keeps to what the callers rely on: fewer descriptors are in use at once than
the cache holds (`Capacity`, 2048 in the code), one thread draws, and paints that draw
outlines are wider than 0. See section 3 for what happens otherwise. A bitmap that cannot be
allocated is left out.

### CanvasLayers

A row of pixels; matrices are translations; a colour is the sequence of draws blended into
the pixel. Every call of the canvas is an action that runs through Canvas, CanvasState,
HWCanvas and HWLayer: Save, SaveLayer, Restore, Translate, ClipRect, ClipPath, draws that
merge or not and draws that read the destination, DrawPaint, Flush. `FrameIsRight` compares
what the recorded passes put on the surface, with depth tests as the GPU runs them
(`Textures`), with the picture that the calls describe (`Expected`, from `log` and `saved`,
history variables that know neither depths, layers nor passes). A draw asks for its shape
and a DrawPaint for the clip ("Fills clip with Paint paint", `canvas.hpp:272`), each inside
of the clip at the time of the call. HWCanvas fills the rectangle of the layer and lets the
matrix of the layer move it; a DrawPaint under such a matrix is marked `displaced` in `log`
and left out of the comparison (section 3). A clip writes its depth to the complement of its
path, and gets that depth only when it is popped (`PoppedDepths`) or when the frame is
flushed (`FlushClipDepth`): it hides what was drawn under it because it is deeper than every
such draw, and hides nothing that is drawn after it was popped.

Left out: antialiasing, what filters compute (they are the identity, but their layers are
kept), layers of single filtered draws, and stencils (a clip covers the complement of its
path). The destination of every layer can be read by copying.

### DisplayList

A picture is the set of pairs of a draw and a pixel it paints: replays keep the order of
draws, so equal sets are equal pictures. `stack` is what `RecordingCanvas` inherits from
Canvas; the tracked clip is a rectangle and knows nothing of a difference, as in the code.
Recording, finishing, the full and the culled `Draw` are operators and actions of the list.
A saved layer draws into its parent, clipped to its bounds. Its paint is plain, or has a
filter, which shows what is drawn in the layer anywhere in the clip outside of it, or a
blend mode such as `kSrc` or `kDstIn`, which changes all of the layer's region whatever is
drawn in it (`Composed`): the loosest of what real paints do. State that follows the last
draw outside of any Save is not replayed by a culled `Draw`; no property is about the state
of the target canvas after it, apart from its save count.

### DisplayListRegion, DisplayListRTree

The sweep, `MakeUnion`, `MakeIntersection`, `GetRects` and the queries of the region, with
its rounding of input to whole pixels (inputs are in half pixels) and its binary search from
a threshold on. Each loop of the code is an operator for one round (`SweepRound`,
`UnionRound`, `MeetRound`, `SeekLine`, ...) and a function from the number of rounds to what
the loop has by then; one that has ended stays as it is. The machine builds regions and
combines them; `cells` is the area as a set of pixels. Coordinates are natural numbers, so
that the y the loops begin with, the least integer in the code, is -1. The tree is built by
the code's dealing of children into families with a running remainder. `append_generation`
adds the family of the child that ends a family to the remainder again, so that there may be
more families than the code computed and the tree is less full: this is harmless with the
code's factor of 8 and with any from 3 on (section 4).

### WgxSyntax, WgxParser, WgxLowering, WgxShaders

A statement of a body is a record with an id that stands for its names and expressions.
`WgxSyntax` gives every valid body of a size, writes it as tokens and runs it. `WgxParser`
has one operator for each method of the recursive descent, with the three results the code
tells apart (success, no match, error). `WgxLowering` is the `Lowerer`: blocks in the order
they are pushed, the current block, the stack of loops, the variables it has registered,
and the pointers that pushing a block may leave dangling (`moved`); the rules of
`verifier.cpp`; and the merge and continue declarations that `ModuleBuilder` writes.
`WgxShaders` sends a function through parsing, lowering and printing, and then runs source,
blocks and GLSL text side by side under the same inputs, event by event. GLSL is C: its
text is given as the body that does in WGSL what the text does in C.

### WgxExpressions, WgxCompiler

The scanner with its classification of template brackets and the splitting of `>>`, and the
parser of expressions, on texts written with and without blanks. `WgxCompiler` lowers the
tree as `lower_expr.cpp` does and prints it as `AstPrinter` does, reads the printed text
back by the rules of C, and compares both with what WGSL says: a tree in which each use of
a variable says how many calls were made before it was read. A behaviour is either of a
function (in which an expression is one token) or of an expression.

## 3. Runs

TLC explores every instance completely. Each passing run also has, in `mutants` of
`PROJECT.json`, a plausible slip for each of its properties (the definitions commented
"Seeded fault") that TLC finds on the run's own instance. Deadlock is checked for
`glyph_atlas`, which can always go on; in the others a bound of the instance (calls, frames,
objects used once, operations, inputs) or the end of the context lets the model stop.

| Run | Instance | What it shows |
|---|---|---|
| `gpu_objects` | submissions: 2 command buffers, 2 resources, a lent fence, a semaphore; textures: 2 textures, 2 pixmaps; images: a picture with 3 mipmap levels, an atlas texture and a glyph, an offscreen surface, a multisampled image of the swapchain, a render target, 6 + 8 + 4 textures for layers, attachments and copies, 2 batches on the queue | `TypeOK`; `InFlightWorkIsHeld`: what the queue may still use is alive; `FencesAreUsedOnce`; `NothingLeaks`: pools and fences belong to somebody who gives them back; `WaitAllHangsOnlyOnArmedFences`: the only fence that waiting for all can hang on is a lent one that its lender reset; `WaitAllReturns` otherwise; `ImplementsGpuWork`; `EntriesFollowTextures`; `GPUTexturesDieOnTheGPUThread`; `PixmapsAreDrawnRight`; `DroppedTexturesAreFreed`; `ImagesAreUsedRight`: every command finds its images alive, in the layout it was recorded for, with the usage it needs; `FramesShowWhatWasDrawn` |
| `presenter` | 2 images, 2 slots, 2 command buffers, each used again and again | `SlotIsDoneWhenReused`; `PresentSemaphoresAlternate` between signal and wait; `HandedOutImageIsIdle`; `ResetDestroysNothingInUse`; `AcquireReturns`; `RecreateReturns` unless an acquire left a fence unsignalled |
| `glyph_atlas` | a bitmap of 12 x 11, widths 1, 2, 5, heights 1, 2, 4, 5 glyphs; 6 keys and an oversized one, 3 bitmaps to a group, 2 glyphs to a bitmap, runs of 3 | `RefusesOnlyWhatFitsNowhere`; `CleanRegionsAreUploaded`; `ImplementsSkyline`; `DrawsFindTheirGlyphs` on textures that were made and show them |
| `scaler_contexts` | 2 threads, one of which draws, a typeface that lends its pixels and one that does not, a glyph, 2 containers | `TypefacesOutliveTheirScalers`; `GlyphsAreReadRight`, after their container may have been evicted; `CallsReturn` |
| `canvas` | 3 pixels; all kinds of calls, 5 of them over 2 frames; 6 calls under path clips in 1 frame | `FrameIsRight`, of all draws but a `DrawPaint` under a changed matrix; `RestoreUndoesSave` |
| `display_list` | 3 pixels, 5 operations, layers of all three paints | `CulledReplayShowsTheRect`: inside of its rectangle what the full one shows, and `DrawingIsInBounds`, both of all operations but the misplaced ones (`Misplaced`, named below); `CulledReplayIsBalanced` |
| `search` | every area of 3 x 4 pixels (4096) and 3 inputs off the grid; a tree of 10 draws, 2 pixels, factor 3 | `RegionIsTheArea`; `QueriesAreExact`; `SearchFindsTheDraws`: the set of draws that a filter of the rectangles finds |
| `shaders` | every body of up to 4 statements and 8 larger ones; every expression of up to 5 nodes with one operator of each level (`* - >> < > >= & && \|\|`), 13 larger ones, with and without blanks | `ParseInvertsWriting`; `SpirvIsStructured`; `SpirvRunsAsWritten`; `GlslRunsAsWritten`; `ExpressionsAreReadRight`; `ExpressionsMeanTheSame`: each outside of the cases named below |

Why the bounds are enough. The submission and presenter instances have more frames than
slots, because command buffers, slots, images and fences are used again without a bound;
two command buffers allow one to be recorded or submitted while another is in flight. The
image instance has two batches on the queue, so that the layouts the textures believe in are
up to two frames ahead of the images; its drawings have layers next to each other, layers in
layers, and passes split by a draw that reads what is below it; each kind of texture that the code
treats differently occurs, and there are enough textures for the frames on the queue and
another one. The bitmap needs five glyphs to split, merge and
refuse. The text atlas has more glyphs than one group of textures holds, so that bitmaps are
dropped and move. Two textures allow one to be drawn while the other is dropped or made. Two
threads and a cache of two let one evict while the other reads. Five canvas calls hold Save
or SaveLayer, a clip, a draw, a Restore and a draw after it, which is what each hazard of
clips needs; six, with fewer kinds of calls, add a second draw under the clip. Five
operations of a list hold a Save, a state operation, a draw, a Restore and a draw, or a layer
with a filter in which a draw under a clip is culled. In the
region the threshold of the binary search is lowered so that it is used. Ten draws under a
factor of 3 make a tree of three generations with families of every size. Four statements
nest a jump in an `if` in a loop; the larger bodies have one case for each way in which
statements lean on each other beyond that: else-if chains, continuing blocks with
break-if, jumps of nested loops, switches in loops and in arms, `_ = e;` in a
continuing block that is reached and behind a return that drops it. `glyph_atlas` alone uses
symmetry, of keys that nothing tells apart; it checks no liveness.

The type invariants of the modules other than `VulkanSubmission` are the reader's guide to
the values of their variables; the runs spend their properties on the rest. (That of
`VulkanPresenter` is part of an invariant that is proved.)

### Fairness

* The queue completes a batch whose semaphores are signalled, the engine signals and
  presents, and whoever promised a semaphore signals it: the driver's obligation (weak).
* A thread inside of a call goes on when what it waits for has happened (weak). Calls of
  the application are not fair: it may stop calling. `CallsReturn` of `ScalerContexts`
  assumes nothing else: each step of a call is weakly fair for its thread.
* `AcquireReturns` speaks of acquires when everything presented was rendered
  (`PresentationsAreRendered`). Otherwise the engine waits for a semaphore that nobody
  signals, and the image never comes back: that is the application's error, or that of a
  submission that failed (section 5).
* `DroppedTexturesAreFreed` assumes that frames keep being flushed: `ClearTextureCache` is
  strongly fair, because other steps of the GPU thread disable it again and again. The
  threads that drop a texture and the steps of a flush are weakly fair.
* In `GpuObjects` each condition speaks of the view that moves (`SubmissionsGoOn`,
  `TexturesGoOn`), and so asks nothing of the others.

### Findings

Four runs end with a counterexample, against what the repository says:

| Run | What happens |
|---|---|
| `broken_presenter` | an acquire that fails after it reset its fence breaks the presenter; replacing it waits for all submissions, and hangs if the submission that last used that fence was not reclaimed yet |
| `snapshots` | a render target draws into its image through a second `GPUTextureVK`. The texture that the snapshot's `Image` refers to still believes the image to be undefined, so that the first use of the snapshot moves it from `VK_IMAGE_LAYOUT_UNDEFINED`, which allows the driver to discard what was drawn. In `gpu_objects` snapshots are made, but not used (`UsedSnapshots`) |
| `display_list_glyphs` | glyphs recorded under a matrix are indexed by a rectangle mapped twice, and a culled replay leaves them out where they draw |
| `shaders_backends` | a `continue` of GLSL skips the continuing block, which is printed at the end of the body, and the arms of a printed `switch` run into each other; SPIR-V does what WGSL says |

The models follow the code in other places that may surprise, and the properties are
stated around them; no run is about them.

Vulkan and textures:

* A surface that is dropped unpresented stays outstanding, and every later acquire fails
  (`Discard`; `gpu_presenter_vk.cc:343`).
* A second upload of a texture succeeds and changes nothing.
* A thread inside of `~TextureImpl` keeps the manager and its GPU textures past the end of
  the context; `GPUTexturesDieOnTheGPUThread` waits for it.

Canvas and display lists:

* A saved layer that is too large for a texture becomes a Save and a ClipRect, but Canvas
  has reset its matrix as for a layer: the run's layers fit (`MaxTextureSize`).
* `DrawPaint` should fill the clip (`canvas.hpp:272`). `HWCanvas::OnDrawPaint`
  (`hw_canvas.cc:230-240`) draws the bounds of the layer as a rectangle, which the matrix of
  the layer moves: after `Translate` pixels of the clip stay unpainted. `FrameIsRight` leaves
  out what is `displaced` in this way, and nothing else.
* Saves that are open at the end of a frame stay open for Canvas but not for the layers:
  `BalancedFrames` makes the application close them (`hw_canvas.cc:61`).
* A draw into a filtered layer is rejected by the clip although the layer was kept larger
  for it. The models' filters are the identity, so it does not show.
* A second recording of a recorder is clipped by the state the first one left: the run
  records once (`MaxRecordings`).
* Three kinds of operations show something outside of the rectangles that culling and
  `GetBounds` use. `CulledReplayShowsTheRect` and `DrawingIsInBounds` leave out these
  (`Misplaced`), and nothing else:
  * glyphs and DrawPaints recorded under a matrix, whose clip bounds are mapped by the matrix
    a second time (`recording_canvas.cc:150`, `155`, `192-197`);
  * what is drawn in a layer whose paint has a filter. `OnSaveLayer` accumulates no bounds for
    the paint (`recording_canvas.cc:112-119`), but it is replayed with the layer
    (`display_list.cc:167-169`), so that a blur or an offset shows where the rectangles of the
    draws are not;
  * what the blend mode of a layer does to the region of the layer, for the same reason: with
    `kSrc` or `kDstIn` a layer changes pixels that nothing is drawn on, and a layer whose draws
    are all culled is not replayed at all.

Scaler contexts:

* For a hairline the adjusted outline makes stroke and fill share a descriptor
  (`scaler_context_container.cc:74`), while `atlas_manager.cc:149-199` asks for both images
  before it reads the first: the second image overwrites the first, which is lost, and is
  freed as the fill (`atlas_manager.cc:196-198`) before it is read as the stroke. With 0 in
  `StrokeWidths`, `GlyphsAreReadRight` fails; with two threads that draw it fails as well.
* The software canvas frees the image through its copy of the glyph and leaves `need_free`
  set in the container's, next to a dangling pointer, until the glyph is prepared again.

WGSL statements (the operators in parentheses except the functions concerned):

* A `break` in a `switch` leaves the loop around it, or is rejected (`BreaksASwitch`).
* The default arm is closed in the block it began in, so that one with nested flow stays
  open (`DefaultStaysOpen`). A `switch` with nothing but a default arm is entered by a branch
  written through a pointer that pushing blocks may have moved (`OnlyDefault`). A variable
  declared in an arm with several selectors is registered twice and rejected
  (`DeclaresTwice`). With two selectors or more, merge blocks come before blocks that
  dominate them (`MergesEarly`).
* GLSL and MSL: `SkipsContinuing` and `FallsThrough`, as in `shaders_backends`.
* `_ = e;` is valid WGSL and is parsed, but no backend can do it. Lowering sends it to
  `LowerAssignStatement` (`lower_stmt.cpp:1179-1182`), which lowers its left side as an
  expression, and `LowerExpression` (`lower_expr.cpp:553-600`) has no case for a
  `PhonyExpression`: the function that reaches one is rejected. The GLSL printer writes an
  empty left side, `= e;`, which is not GLSL. Both backends' properties leave out such
  functions (`AssignsToPhony`). A `var x = e;` without a type is rejected as well
  (`lower_stmt.cpp:1025`); types are left out of the model, as data, so that its variables are
  to be read as typed.
* Against the grammar in the comments of `parser.h`, an empty body `{}` and a trailing comma
  after case selectors are rejected; a missing final `}` is accepted, with no body. A function
  with a result that ends in a loop or switch all of whose paths return is rejected. The
  generated bodies avoid all of these.

WGSL expressions:

* `(a < b) || (c > d)` is read as a template: the `<` stays open when its parentheses close
  (`LessIsClosedOver`).
* `a-1` is scanned as `a` and `-1`, and `a+1` is an error of the scanner
  (`SignBeforeNumber`).
* Each split of a `>>` leaves one token at the end unscanned, and inserts into the vector
  that pointers to tokens point into. The former is modelled and does no harm to the
  expressions here; the latter takes more than the 1024 tokens that are reserved.
* SPIR-V: `g + f()` and `g += f()` read `g` after the call (`ReadsLate`); both sides of `&&`
  and `||` are evaluated (`AlwaysCalls`); `-x` is `0 - x`, also of -0.0.
* GLSL: `- -x` is printed `--x` (`SignsTouch`); `select` becomes `?:` and evaluates one side.
* `()` is accepted as an expression; `(a, b)` is printed `(ab)` in GLSL and its first part in
  SPIR-V.

## 4. Proofs

The theorems are about the specifications that TLC runs, for every value of the constants that
their assumptions allow. Each proof module names the inductive invariant, the conjuncts it has
beyond the properties, and has a lemma for each conjunct or for each action.

### Work in flight

The first part of `GpuProofs` is about submissions, for any number of command buffers,
resources, lent fences and semaphores, from the assumption that the fences of command buffers
and of surfaces are distinct:

* `InvariantHolds`: `SubmissionInv`, the inductive invariant.
* `TypeCorrect`, `InFlightWorkStaysHeld`, `FencesStayUsedOnce`, `NothingEverLeaks`,
  `WaitAllHangsOnlyThere`: the properties of the submissions that `gpu_objects` checks, for
  `SubmissionSpec`.
* `SubmissionImplementsGpuWork`: the refinement. A submission is a step of `GpuWork`, and so is
  the completion of a batch; an object that is destroyed is one that no batch uses.

`SubmissionInv` adds `Ownership` to the properties. `InFlightWorkIsHeld` alone does not
survive reclaiming: one needs that a signalled fence means that the batch left the queue,
which is `FencesAreUsedOnce`; that in turn does not survive a submission unless a fence that
was reset by its lender is not on the queue, and a command buffer's own fence does not exist
before it is submitted, which are `Ownership` and `NothingLeaks`. The proof has a section per
conjunct and a step per action; the lemmas about `Append` and `Tail` say what happens to the
batches when the queue moves.

The second part is about presentation, for any number of images, slots, command buffers and
surfaces:

* `PresenterInvariantHolds`: `PresenterInv`, the inductive invariant.
* `SlotsAreDoneWhenReused`, `HandedOutImagesAreIdle`, `ResetsDestroyNothingInUse`,
  `PresentSemaphoresDoAlternate`: the state invariants of `presenter`;
  `FencesStayUsedOnceThere`: no fence guards two submissions at once, also when the presenter
  lends the fences of its slots and resets them itself. Uses of objects are not recorded in
  `VulkanPresenter`, so that nothing is claimed about them there.
* `OrderOfOperationsHolds`: `AlternationInv`, which the last of these needs.

Most steps of the presenter are a step of the submissions or leave their state alone
(`SubmissionSteps`), so that `SubmissionInv` carries over by `SubmissionCarries`, and the
proof of the first part is cited, not repeated. What is added: between the steps of an
acquire the slot, the image and the fence it waits for fit (`CallsAreConsistent`); a reset has
the window for itself (`ResetIsAlone`); every batch that uses a slot's fence or semaphore is
that slot's frame (`BatchesAreOfFrames`); the engine owes at most one signal to a slot's
semaphore, and none while that is signalled (`OneSignalPerSlot`); and once a slot's fence has
signalled nothing of its last frame is left (`IdleSlotsAreClean`), from which it follows that
a slot is done when it is used again.

The semaphore that a presentation waits for belongs to the image, not to the slot, and no fence
says when the engine has waited for it. It alternates between signal and wait because of the
order in which things were handed over: a batch that signals it waits for the acquisition of the
image (`BatchesAwaitImages`), which the engine grants behind the last presentation of that image
(`FreeImagesAreSettled`, `AcquiredImageIsReady`). `OperationsAreLeft` collects the steps that
do not touch that order.

### Textures

The last part of `GpuProofs`, for any number of textures and pixmaps and any thread that drops
a texture at any time:

* `ManagerInvariantHolds`: `ManagerInv`, the inductive invariant.
* `EntriesDoFollowTextures`, `PixmapsAreAllDrawnRight`, `GPUTexturesAllDieRight`: the
  invariants of the textures that `gpu_objects` checks.

None of the three is inductive. A pixmap's texture keeps the right contents only because nobody
but the cache can reach it, so that no upload of the application goes there
(`CachedTexturesHoldPixmaps`); an entry does not disappear under a draw because the draw, or the
cache on its behalf, holds the texture from the query to the fetch (`DrawHoldsItsTexture`);
and a context that has ended draws no more (`ContextOutlivesDraws`). The uploads of the two
threads are one kind of step (`Saves`, `SavingSteps`).

### Text atlases

`SkylineProofs`, for bitmaps and glyphs of any size (width and height at least 2; the code's
are 256 and 512):

* `SkylineInvariant`: types, disjointness, the border, and `RegionsAreBelowSkyline`.
* `RegionsNeverOverlap`, `RegionsStayInside`: corollaries, for whatever implements `Skyline`.

That regions are disjoint is not inductive: a new region is disjoint from the old ones
because it lies on the skyline and the old ones lie on the other side of it. That is
`RegionsAreBelowSkyline`, kept because no column's skyline ever rises (`SkylineOnlySinks`).

The first part of `TextProofs` is about bitmaps of any size, with a height of at least 2 and a width
of at least 3 (with less there is no column between the borders), and any number of glyphs:

* `AtlasInvariantHolds`: `AtlasInv`, the inductive invariant: the nodes are a row without gap
  or overlap from border to border (`Row`), and a region that is not in the dirty rows is on
  the texture.
* `AllocatorImplementsSkyline`: the list of nodes, seen as the height of each column,
  implements `Skyline`. By it `GlyphsNeverOverlap` carries over what `SkylineProofs` proves.
* `RefusalsAreRight`: a glyph is refused only if it fits nowhere. The allocator tries the first
  column of each node only, and that this is enough is `FirstColumnIsBest`: one that starts in
  the middle of a node spans all that stand right of it, and more.
* `CleanRegionsDoGetUploaded`.

The work is in the lemmas about the loops: what `QueryFitY` sees are the heights of the columns
the region spans (`SpannedNodes`, `SpannedHeights`); the node a region leaves and the part cut
off the following ones are again a row and show the lowered skyline (`Following`); merging
changes the list, not what it shows (`Merging`); and when a candidate exists one of them is the
best (`BestIsCandidate`).

The second part of `TextProofs` is about the text atlas, for groups of any size, any set of keys
and texts of any length:

* `TextAtlasInvariantHolds`: `TextAtlasInv`, the inductive invariant.
* `TextAtlasIsTypeCorrect`, and `GlyphsStayOnTheirTextures`: what recorded draws sample is on its
  texture until the frame is flushed.

The property speaks of draws and textures only. Beyond it, the invariant says that a bitmap's
glyphs are on its texture or in its dirty rows (`Mirrored`), without which a bitmap that is moved
at the end of a frame would be drawn from what its new slot showed before; that the bitmap of a
draw still holds its glyph (`DrawsShow`); and that only a first bitmap is ever empty
(`NoneEmpty`): a text samples the first texture of every group up to the last that it needs,
which was made because the group's first bitmap had something to upload (`GroupsBegin`).
`TextStep` goes over the glyphs of a text, `ReplaceOldestKeeps` over the bitmaps that move; both
are inductions.

### Scaler contexts

The last part of `TextProofs`, for any number of threads, typefaces, glyphs and stroke widths and
any capacity of the cache:

* `ScalerInvariantHolds`: `ScalerInv`, the inductive invariant; `ScalersAreTypeCorrect`.
* `TypefacesDoOutliveScalers`: no scaler context outlives its typeface.
* `GlyphsDoStayAlive`: what a call was given lives until it has read it, whichever containers
  are evicted meanwhile, with any number of threads that draw.
* `GlyphsDoGetReadRight`: the image it reads shows the glyph and every bitmap is freed, under two
  hypotheses that the instance of `scaler_contexts` has as well: one thread draws, and no stroke
  is as wide as a fill (0 is not in `StrokeWidths`). Section 3 tells what happens otherwise, so
  neither can be dropped.

That a container is not evicted under a call that reads from it rests on how the cache is used:
`CallsUseRecent` says that what a call was given was looked up after everything but what is asked
for during the call; these are at most `Capacity` descriptors, each with one container in the
cache, so that the container is among those that stay. The lemmas about `Recent` and about
filtering a list (`Leaves`) carry this through look-ups, evictions and purges.
`ImagesInv` adds for images that two calls do not prepare the same one (`ImagesDoNotMeet`), that
each shows its glyph until it is read (`ImagesAreShown`), and that no bitmap is left without a
call that will free it (`BitmapsAreGiven`).

### Canvas layers

`CanvasLayersProofs` and `CanvasFrameProofs`, for surfaces of any width, any finite shapes and
clips, frames and recordings of any length, with and without MSAA:

* `FramesAreRight`: `FrameIsRight`, at every step while a frame is recorded: all draws that
  were asked for, but a `DrawPaint` under a changed matrix.
* `RestoresUndo`: `RestoreUndoesSave`.
* `RecordingIsRight`: `RecordedInv`, the inductive invariant; `CanvasTypeCorrect`.

From `CanvasAssumption` (sets of pixels are finite) and two hypotheses, which the instance of
`canvas` has as well: `BalancedFrames`, the application closes its saves before it flushes, and
`LayersFit`, no saved layer is larger than a texture. Section 3 tells what the code does
otherwise, so neither can be dropped.

`FrameIsRight` runs all passes of all layers, and nothing in it survives a step: the depths of
the clips on the stack are not known before they are popped. The invariant therefore does not
speak of rendering. It says what a layer shows (`LayerShows`) by a rule without depths: a
draw gets to a pixel (`Reaches`) if its scissor holds the pixel and no clip that its pass draws
ahead of it (`Before`: the replayed ones and those among its own draws) hides the pixel and
blocks the draw, where a clip blocks a draw (`Blocks`) if it is still on the stack, or was popped
and then got a depth that is not below the draw's. `RecordedInv` has these parts:

* `LayerInv`, for each layer: names, places and depths are right; later levels of clips have
  later clips and smaller bounds (`ClipsAreNested`); a draw that reads the destination finds it
  in the copy of the pass before (`DrawsAreBounded`); the load that MSAA needs is there and covers
  the layer (`LoadsAreRight`); and in the last pass a draw under a clip that is still on the stack
  is blocked by the clips of the stack up to that one, and by no other (`ClipsAreDrawn`). The last
  is what popping a clip must keep, and what a draw that is merged into an earlier one relies on.
* `FrameInv`: each draw belongs to one layer, each layer is drawn by one draw. `OpenInv`: a layer
  that is not the last of the stack ends with the draw of the next one, and has added no clip
  since.
* `SavesInv`: each save is one level of one layer of the stack, with the matrix and the clip that
  were asked for (`ClipIs`: the pixels that all the clips of the layers up to there let through),
  and holds what its Restore must bring back (`Undoes`).
* `ShownIsAsked`: textures that show what the layers show have the expected picture on the surface.

`CanvasLayersProofs` is about one layer. Clips by rectangle, new levels, flushed pending clips
and popped levels show nothing (`RectKeeps`, `PushKeeps`, `FlushKeeps`, `PopKeeps`: the depths a
popped level's clips get are above those of all draws under them and below those of all later
ones). `AddDrawAdds` is the main lemma: on its three ways, appending (`AppendAdds`), after a split
with replay (`SplitAdds`) or merged into one of the last five draws (`MergeAdds`, where the draws
that are passed over touch none of its pixels), AddDraw adds to each pixel exactly the draw's
colour inside of the clips of the stack.

`CanvasFrameProofs` has first the recording: a step of one layer leaves the others
(`FrameStep`), what is added to the last layer of the stack shows through all layers below inside
of their clips (`StackGrows`), and each call keeps the invariant (`SaveKeeps`, `RestoreKeeps`,
`ClipPathKeeps`, `SaveLayerKeeps` and so on). Then the rendering: after `FlushClipDepth` a clip is
as deep as a draw if and only if it blocks it (`FlushedIs`), so that the depth test lets a draw
through where `Reaches` says so (`ReachesWhenDeep`, although replayed clips that are not deep
enough are skipped); draw by draw, pass by pass and from the last layer to the first the
attachments have what `LayerShows` says (`OpsAdd`, `LayerRenders`, `FrameRenders`).

### Display lists

`DisplayListProofs`, first for pictures of any width, any regions and recordings of any length:

* `CulledReplaysAreBalanced`: a culled replay calls a save if and only if it calls its restore,
  whatever the number of recordings.
* `CulledReplaysShowTheRect`, `DrawingsAreInBounds`: inside of a rectangle the culled replay
  shows what the whole list shows, and the bounds of the list cover what it shows. Both of all
  operations but the misplaced ones (glyphs and DrawPaints under a matrix, the contents of
  layers with a filter, what the blend mode of a layer does to its region), and for lists of
  a first recording (`recordings <= 1`, which is all that the run `display_list` has);
  a second one starts with a clip and a matrix that its list does not hold (section 3), so that
  there the hypothesis cannot be dropped.

They are proved from `DisplayListAssumption` alone. The properties speak of finished lists only,
and say nothing inductive about what is being recorded. There are two invariants:

* `Paired`, for any recording: `saveOps` are the saves without a restore, in order, and what was
  saved inside a closed scope was closed in it (`Nested`), so that finishing gives scopes that
  contain each other or are apart (`WellNested`); what is in `spatialOps` are draws.
* `Seen`, for a first recording: the canvas of the recorder follows the one that replays what
  was recorded so far, its clip a rectangle around the exact one (`Tracks`); so the rectangles
  recorded for a draw hold what it paints (`Covered`) and the bounds hold these rectangles
  (`Enclosed`). That a restore without a save of the list does not occur (`Matched`) is what
  a first recording has and later ones need not.

The replay is the hard part: it decides at a save whether it will be needed, by the next target
and the place of its restore, and decides about state by the innermost scope only. By induction
over the list (`FollowsStep`), its `saves` are the scopes of the list that are open at this place
and its `scopeEnd` is where the innermost of them ends (`Scoped`); a save was called if and only
if a target is in its scope (`Meets`), and a restore is called with its save. The two canvases
need not agree: in a scope that holds no further target the culled one misses state. What is
kept (`Agree`) is that they agree on each level of saves as long as a target is still to come
within that level, and that a target finds both in the same state. What recursive functions give
on a longer list is said once, by `ShownAppend`, `ViewStep` and `ViewSame`.

Then the R-tree, for lists of any length and any branch factor from 3 on:

* `TreeIsRight`: the invariant `TreeInv`. The root stands for every draw of the list.
* `SearchIsExact`: a search finds the draws whose rectangles it meets, and no other.
* `ReplaysMaySearchTheTree`: that is what the replays of `DisplayList` take a search for.

`IsTree` says what a tree is: each node stands for draws, which are those of its children, they
lie inside of its bounds, and children come before their parents. That a search finds them
follows by induction over the nodes (`SearchedItems`): a subtree that is skipped has bounds the
rectangle does not meet, so none of its draws does. That the code builds such a tree is the
longer part. Dealing with a remainder gives every child to one of the families (`Goes`). There
are fewer families than children (`DealtIs`), although a child that ends a family counts twice:
the first two children go to one family, and with a branch factor of 3 or more there are at most
half as many families to be had as children (`FewFamilies`). So each round of the loop leaves
fewer nodes to be given parents (`GenerationAppended`), and the loop ends with a single one that
stands for all (`GrownIs`). With a branch factor of 2, three children would keep three parents
for ever, which is why `RTreeAssumption` excludes it; the code's is 8.

`DisplayListRegionProofs` is about the region, for any set of rectangles that callers pass and
any threshold of the binary search:

* `RegionIsAnArea`: the inductive invariant `IsArea`. The lines go down, their spans go right,
  lines that touch differ and spans do not touch; the pixels in them are those asked for; and
  the bounds are exactly around these (`Frames`): on each side there is one in the last row or
  column.
* `RegionIsRight`: `RegionIsTheArea`, which adds that `GetRects` covers each pixel once.
* `QueriesAreRight`: `QueriesAreExact`, for rectangles and for regions.

The invariant is more than the property, since each shortcut of the code leans on it: a region
is taken for its bounds when it has a single span (`AreaIsSimple`), the other operand is
returned when it lies inside of a simple one (`UnionIs`, `IntersectionIs`), and lines are
skipped by where they end (`FirstLinesAre`). For each loop a set says what may have been found
and what is left after so many rounds (`SpanWalks`, `UnionWalks`, `MeetWalks`, `SeekWalks`,
`SweepWalks`, `UnionRounds`, `MeetRounds`, `SeekLineWalks`, `Crossing`, `Descending`). A lemma
shows that one more round keeps it, `WalkExists` that the function of the rounds exists and
stays in these sets, and a count of what each round passes, a span, a line or a row, that the
rounds the model grants are enough for the loop to end (`SweepIs`, `UnionLinesIs`,
`IntersectLinesIs`). Debanding takes a rectangle of an earlier line out and puts a taller one
in. `Crossing` keeps that those of earlier lines come first and end where the line begins or
above, so that the search backwards, which stops at one that ends above, finds only one that
ends where the line begins (`FoundIs`).

### Induction

The library's induction theorems take an operator as a parameter, which none of the provers
used here can instantiate. `Induction` derives from the theorem about well-founded orders
on finite sets that a set which holds 0, and with each number the next, holds all
(`SetInduction`), and that a function defined by recursion over an interval exists
(`RecursionDefines`). With these, properties of recursive functions are proved by giving the set
of the numbers that have them. It also says what is left of a sequence when an element is
removed (`ElementRemoved`).

### Only model-checked

* Liveness (`WaitAllReturns`, `AcquireReturns`, `RecreateReturns`, `DroppedTexturesAreFreed`,
  `CallsReturn`), which is out of the prover's reach, as is `ENABLED`.
* `VulkanImages`: nothing is proved about it yet.
* The `Wgx` modules, which use recursive operators: the provers do not handle these, and written
  as recursive functions over numbers the parsers and the blocks would no longer read like the
  code.

## 5. Not modelled, and what comes next

Most of the repository's lines compute: geometry and path operations, tessellation, raster
spans, colour and filters, shader text for each effect, font tables, shaping, codecs. Their
correctness is numerical or that of long tables, and a model of them would be the code
again. Others only translate: the OpenGL, Metal and WebGPU backends hand calls to drivers
that synchronise by themselves, the C API and the platform files wrap. The vendored path
operations are not this project's. In the compiler, types, attributes, built-in functions,
the bytes of SPIR-V and the text of MSL are of the same kind: tables, with no order in which
things can go wrong. Loss of the device is left out because nothing is promised after it.

Within the modelled components these are left out; the lines are where they bite:

* Failed submissions that are presented all the same (`hw_canvas.cc:723`): a later acquire
  waits for ever. After one, the layouts that textures believe in are ahead of their images,
  and the command buffer of a read-back, which holds itself, is never destroyed. A failed
  pass is submitted, without holding its attachments; a command buffer that cannot be made is
  dereferenced (`hw_canvas.cc:700`).
* External semaphores (`gpu_surface_vk.cc:40`): dropped right after the submission.
* Buffers: one that grows is destroyed at once (`gpu_buffer_vk.cc:81`); `HWStaticBuffer` clears
  `needs_flush_` whether or not the upload is submitted; nothing orders `vkCmdCopyBuffer`
  (`gpu_blit_pass_vk.cc:226-254`) before the draws that read the buffer.
* Order between commands in one layout: with the default `final_layout`
  (`gpu_context_vk.hpp:293`) no barrier stands between the writes of two frames. The model
  checks layouts and contents, and commands run one after the other.
* Split passes of multisampled surfaces, whose descriptor says `GENERAL`
  (`gpu_render_pass_vk.cc:498`, `780`), and `LockCanvas(false)` on them, which loads an
  attachment that was never stored. A wrapper of an image of the swapchain begins undefined at
  each acquire (`gpu_presenter_vk.cc:303`), so that nothing of an earlier frame survives.
* `HWFilterLayer`, which copies its output before that is rendered for draws that read it
  (`hw_filter_layer.cc:19-37`, `hw_sub_layer.cc:66-71`).
* A render target whose texture goes before it: its wrapper does not own the image. In the
  model the texture is kept until the snapshot is made.
* Promise images, two of which on one texture replace each other's release callback
  (`image.cc:246`), and callbacks, which run under the manager's lock.
* Two surfaces of one context recorded in turn, against `TextAtlas` (`atlas_manager.cc:330`).
* The pipeline library with its set of failures, stage buffers, the arena, the state cache of
  OpenGL, and the tiler of coverage: sequential, and next in line for models of their own.

Worth proving next: that a command's layout is the one its image has, for `VulkanImages`. It
needs the folds and recursive operators of its module written as recursive functions first, as
was done for `AtlasBitmap`, `TextAtlas`, `CanvasLayers`, `DisplayList`, `DisplayListRTree` and
`DisplayListRegion`.
