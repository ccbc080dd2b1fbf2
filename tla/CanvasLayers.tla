---------------------------- MODULE CanvasLayers ----------------------------
(***************************************************************************)
(* Recording a frame on the hardware canvas, and what the recorded passes  *)
(* put on the surface.                                                     *)
(*                                                                         *)
(* Three stacks must move together: Canvas keeps a save count and the      *)
(* bounds of the clip, CanvasState a stack of matrices per layer, and      *)
(* every HWLayer a stack of clips.  A clip is not applied to the draws     *)
(* recorded under it: it is itself a draw that writes the depth buffer     *)
(* outside of its path, at a depth that is only known when the clip is     *)
(* popped, and which must then be above the depth of the draws it clips    *)
(* and not above that of any later one.  Draws are merged into earlier     *)
(* ones, and a draw that reads what lies below it splits the layer into    *)
(* several passes, each of which clears the depth buffer and replays the   *)
(* clips still needed.                                                     *)
(*                                                                         *)
(* The surface is a row of pixels, a matrix is a translation, and the      *)
(* colour of a pixel is the sequence of draws that were blended into it.   *)
(***************************************************************************)
EXTENDS Integers, Sequences, FiniteSets, SequencesExt, FiniteSetsExt

CONSTANTS
    Width,           \* the surface and the root layer are Width pixels wide
    DrawShapes,      \* sets of pixels that draws cover, in local coordinates
    DrawKinds,       \* records [type, dst]: kind of the draw, does it read back
    ClipShapes,      \* sets of pixels inside of the paths of ClipPath
    Scenes,          \* what applications call: records [rects, layers, moves] of
                     \* the intervals for ClipRect and SaveLayer and the distances
                     \* for Translate, with the bounds [ops, frames] of their calls
    MaxTextureSize,  \* GPUDevice::GetMaxTextureSize
    BalancedFrames,  \* do applications undo a frame's state before its Flush?
    MaxOps           \* bound: canvas calls of any scene

ASSUME CanvasAssumption ==
    /\ Width \in Nat \ {0} /\ MaxTextureSize \in Nat /\ MaxOps \in Nat
    /\ BalancedFrames \in BOOLEAN
    /\ \A s \in Scenes :
          /\ s.ops \in 0 .. MaxOps /\ s.frames \in Nat /\ s.moves \subseteq Int
          /\ \A rect \in s.rects \union s.layers : rect \subseteq Int /\ IsFiniteSet(rect)
    /\ \A shape \in DrawShapes \union ClipShapes : shape \subseteq Int /\ IsFiniteSet(shape)
    /\ \A k \in DrawKinds : k.type \in {"shape", "path"} /\ k.dst \in BOOLEAN

Surface == 1 .. Width
\* Rect's default bounds of a draw, +-1E9: every pixel a translation reaches.
Everywhere == -(Width * (MaxOps + 1)) .. Width * (MaxOps + 2)

Moved(pixels, by) == {p + by : p \in pixels}
Bounds(pixels) == IF pixels = {} THEN {} ELSE Min(pixels) .. Max(pixels)

VARIABLES
    saveCount,    \* Canvas::save_count_
    globalClips,  \* Canvas::global_clip_bounds_stack_
    matrices,     \* CanvasState::layer_states_: [world, elements] per layer
    layerStack,   \* HWCanvas::layer_stack_: ids of layers, <<>> between frames
    layers,       \* the HWLayers of the frame, 1 is the root layer
    draws,        \* the HWDraws of the frame
    msaa,         \* is the sample count of the surface above 1?
    saved,        \* what the calls ask for: a stack of [matrix, clip]
    log,          \* what the calls ask for: the draws of the frame, in order
    scene,        \* which of the Scenes is played
    ops, frames   \* counters

canvasVars == <<saveCount, globalClips, matrices>>
layerVars == <<layerStack, layers, draws>>
askedVars == <<saved, log>>
vars == <<canvasVars, layerVars, askedVars, msaa, scene, ops, frames>>

-----------------------------------------------------------------------------
(* HWLayerState and HWLayer                                                *)

NewPass == [ops |-> <<>>, replayed |-> 0, firstDepth |-> 0, load |-> 0,
            copy |-> {}]

\* HWLayer::HWLayer: "origin" is where the layer's local origin is on the
\* surface, "bounds" what its texture covers of the surface.
NewLayer(origin, bounds) ==
    [origin |-> origin, bounds |-> bounds, depth |-> 0, history |-> <<>>,
     clips |-> <<[draws |-> <<>>, bounds |-> bounds]>>,
     passes |-> <<NewPass>>, pending |-> <<>>]

NewDraw == [type |-> "path", dst |-> FALSE, items |-> <<>>, child |-> 0,
            writes |-> {}, bounds |-> Everywhere, scissor |-> {},
            clip |-> 0, depth |-> 0]

CurrentClipBounds(layer) == Last(layer.clips).bounds

\* HWLayerState::clip_stack_: the clips that are not popped.
ClipDraws(layer) == FlattenSeq([i \in DOMAIN layer.clips |-> layer.clips[i].draws])

\* HWLayerState::LastClipDraw: 0 stands for a null pointer.
LastClipDraw(layer) ==
    IF ClipDraws(layer) = <<>> THEN 0 ELSE Last(ClipDraws(layer))

\* SetClipDepth(GetNextDrawDepth()) on the clips, from the last to the first.
WithDepths(table, depth, clips) ==
    [d \in DOMAIN table |->
        IF \E i \in DOMAIN clips : clips[i] = d
        THEN [table[d] EXCEPT !.depth =
                 depth + Len(clips) + 1 - (CHOOSE i \in DOMAIN clips : clips[i] = d)]
        ELSE table[d]]

PopClipStack(layer) ==
    [layer EXCEPT !.clips = Front(@), !.depth = @ + Len(Last(layer.clips).draws)]

PoppedDepths(table, layer) == WithDepths(table, layer.depth, Last(layer.clips).draws)

PushClipStack(layer) ==
    [layer EXCEPT !.clips =
        Append(@, [draws |-> <<>>, bounds |-> CurrentClipBounds(layer)])]

\* HWLayer::AddRectClip and HWLayerState::SaveClipBounds
AddRectClip(layer, rect) ==
    [layer EXCEPT !.clips[Len(layer.clips)].bounds = @ \cap rect]

\* HWLayer::AddClip and HWLayerState::SaveClipOp: the clip joins the stack and
\* the history at once, and the pass with the next draw.
AddClip(layer, id) ==
    [layer EXCEPT !.pending = Append(@, id), !.history = Append(@, id),
                  !.clips[Len(layer.clips)].draws = Append(@, id)]

FlushPendingClip(layer) ==
    [layer EXCEPT !.passes[Len(layer.passes)].ops = @ \o layer.pending,
                  !.pending = <<>>]

-----------------------------------------------------------------------------
(* HWLayer::AddDraw                                                        *)

\* HWDraw::MergeIfPossible: kUnknow draws never merge, shapes with the same
\* clip, scissor and blend plan do.
MergeIfPossible(a, b) ==
    /\ a.type = "shape" /\ b.type = "shape"
    /\ a.clip = b.clip /\ a.scissor = b.scissor
    /\ a.dst = b.dst

(* Seeded fault: the search goes on behind a draw that overlaps. *)
MergeTargetThroughOverlaps(table, queue, draw) ==
    {i \in DOMAIN queue : /\ i > Len(queue) - 5
                          /\ MergeIfPossible(table[queue[i]], draw)
                          /\ \A j \in i + 1 .. Len(queue) :
                                ~ MergeIfPossible(table[queue[j]], draw)}

\* HWLayer::TryMerge: from the last draw backwards, at most five, until one
\* takes the draw or overlaps it.
MergeTarget(table, queue, draw) ==
    {i \in DOMAIN queue : /\ i > Len(queue) - 5
                          /\ MergeIfPossible(table[queue[i]], draw)
                          /\ \A j \in i + 1 .. Len(queue) :
                                /\ ~ MergeIfPossible(table[queue[j]], draw)
                                /\ table[queue[j]].bounds \cap draw.bounds = {}}

Merged(result, target, draw) ==
    LET merged == [result.draws[target] EXCEPT !.items = @ \o draw.items,
                                               !.bounds = Bounds(@ \union draw.bounds)]
    IN  [result EXCEPT !.draws[target] = merged]

\* The draw goes to the last pass, at the next depth.
Appended(result, draw) ==
    LET depth == result.layer.depth + 1
        last == Len(result.layer.passes)
        pass == [result.layer.passes[last] EXCEPT
                   !.ops = Append(@, Len(result.draws) + 1),
                   !.firstDepth = IF @ = 0 THEN depth ELSE @]
    IN  [layer |-> [result.layer EXCEPT !.depth = depth, !.passes[last] = pass],
         draws |-> Append(result.draws, [draw EXCEPT !.depth = depth])]

(* Seeded fault: the load draw keeps the scissor of the draw that splits. *)
LoadDrawUnderTheScissor(layer) ==
    [NewDraw EXCEPT !.type = "load", !.scissor = CurrentClipBounds(layer),
                    !.bounds = layer.bounds, !.depth = layer.depth + 1]

\* CreateEmulatedLoadInfo: with MSAA the new pass first draws the resolved
\* colours of the layer back, over the whole layer.
LoadDraw(layer) ==
    [NewDraw EXCEPT !.type = "load", !.scissor = layer.bounds,
                    !.bounds = layer.bounds, !.depth = layer.depth + 1]

(* Seeded fault: the new pass replays no clip. *)
SplitWithoutReplay(result, draw) ==
    LET closed == [result EXCEPT
                     !.layer.passes[Len(result.layer.passes)].copy = draw.bounds]
    IN  [closed EXCEPT !.layer.passes = Append(@, NewPass)]

\* A draw that reads the destination ends the pass with a copy of what lies
\* below its bounds and opens a new one.
Split(result, draw) ==
    LET closed == [result EXCEPT
                     !.layer.passes[Len(result.layer.passes)].copy = draw.bounds]
        pass == [NewPass EXCEPT !.replayed = Len(result.layer.history),
                                !.load = IF msaa THEN Len(result.draws) + 1 ELSE 0]
        opened == [closed EXCEPT !.layer.passes = Append(@, pass)]
    IN  IF msaa
        THEN [opened EXCEPT !.draws = Append(@, LoadDraw(result.layer)),
                            !.layer.depth = @ + 1]
        ELSE opened

AddDraw(id, draw, bounds) ==
    LET layer == FlushPendingClip(layers[id])
        d == [draw EXCEPT !.scissor = CurrentClipBounds(layer),
                          !.clip = LastClipDraw(layer),
                          !.bounds = bounds \cap layer.bounds]
        start == [layer |-> layer, draws |-> draws]
        queue == Last(layer.passes).ops
        target == MergeTarget(draws, queue, d)
    IN  IF d.dst
        THEN IF d.bounds = {} THEN start ELSE Appended(Split(start, d), d)
        ELSE IF target = {} THEN Appended(start, d)
        ELSE Merged(start, queue[CHOOSE i \in target : TRUE], d)

-----------------------------------------------------------------------------
(* The canvas calls                                                        *)

Recording == layerStack # <<>> /\ layers[Last(layerStack)].clips # <<>>
Current == Last(layerStack)
CurrentLayer == layers[Current]

\* CanvasState::CurrentLayerMatrix and GetTotalMatrix
CurrentMatrix == Last(Last(matrices).elements)
TotalMatrix == Last(matrices).world + CurrentMatrix

\* Where a call puts its local coordinates: in the current layer, or on the
\* surface for what Canvas itself computes.
InLayer(pixels) == Moved(pixels, CurrentLayer.origin + CurrentMatrix)
QuickReject(bounds) == Moved(bounds, TotalMatrix) \cap Last(globalClips) = {}

Asked == Last(saved)

\* What a Restore must bring back.
View == IF Recording
        THEN [matrix |-> TotalMatrix, bounds |-> CurrentClipBounds(CurrentLayer),
              clip |-> LastClipDraw(CurrentLayer), layer |-> Current]
        ELSE [matrix |-> TotalMatrix, bounds |-> {}, clip |-> 0, layer |-> 0]

AskedSave(clip) == saved' = Append(saved, [matrix |-> Asked.matrix,
                                           clip |-> Asked.clip \cap clip,
                                           view |-> View])

Call == Recording /\ ops < scene.ops /\ ops' = ops + 1 /\ UNCHANGED <<msaa, scene, frames>>

SetLayer(layer) == layers' = [layers EXCEPT ![Current] = layer]
Recorded(result) == SetLayer(result.layer) /\ draws' = result.draws

\* Canvas::Save, CanvasState::Save and HWCanvas::OnSave
Save ==
    /\ Call
    /\ saveCount' = saveCount + 1
    /\ globalClips' = Append(globalClips, Last(globalClips))
    /\ matrices' = [matrices EXCEPT ![Len(matrices)].elements =
                                        Append(@, Last(@))]
    /\ SetLayer(PushClipStack(CurrentLayer))
    /\ AskedSave(Everywhere)
    /\ UNCHANGED <<layerStack, draws, log>>

(* Seeded fault: the matrices of a layer stay when the layer is left. *)
RestoredMatricesKeepingLayers ==
    IF Len(Last(matrices).elements) > 1
    THEN [matrices EXCEPT ![Len(matrices)].elements = Front(@)]
    ELSE matrices

\* CanvasState::Restore: the last matrix of the layer, or the layer.
RestoredMatrices ==
    IF Len(Last(matrices).elements) > 1
    THEN [matrices EXCEPT ![Len(matrices)].elements = Front(@)]
    ELSE Front(matrices)

\* HWCanvas::OnRestore: the layer is left when nothing was saved in it.
OnRestore ==
    IF Len(layerStack) > 1 /\ Len(CurrentLayer.clips) = 1
    THEN layerStack' = Front(layerStack) /\ UNCHANGED <<layers, draws>>
    ELSE /\ SetLayer(PopClipStack(CurrentLayer))
         /\ draws' = PoppedDepths(draws, CurrentLayer)
         /\ UNCHANGED layerStack

\* Canvas::Restore; RestoreToCount is a sequence of them.
Restore ==
    /\ Call
    /\ saveCount > 1
    /\ saveCount' = saveCount - 1
    /\ globalClips' = Front(globalClips)
    /\ matrices' = RestoredMatrices
    /\ OnRestore
    /\ saved' = Front(saved)
    /\ UNCHANGED log

\* Canvas::Translate stands for every change of the matrix.
Translate(by) ==
    /\ Call
    /\ matrices' = [matrices EXCEPT
                      ![Len(matrices)].elements[Len(Last(matrices).elements)] = @ + by]
    /\ saved' = [saved EXCEPT ![Len(saved)].matrix = @ + by]
    /\ UNCHANGED <<saveCount, globalClips, layerVars, log>>

\* Canvas::ClipRect on a matrix that keeps rectangles: no draw, only bounds.
ClipRect(rect) ==
    /\ Call
    /\ globalClips' = [globalClips EXCEPT ![Len(globalClips)] =
                                              @ \cap Moved(rect, TotalMatrix)]
    /\ SetLayer(AddRectClip(CurrentLayer, InLayer(rect)))
    /\ saved' = [saved EXCEPT ![Len(saved)].clip = @ \cap Moved(rect, Asked.matrix)]
    /\ UNCHANGED <<saveCount, matrices, layerStack, draws, log>>

\* HWDynamicPathClip: the depth is written outside of the path, or inside of it
\* when the clip removes the path.
ClipDraw(path, difference, layer) ==
    [NewDraw EXCEPT !.type = "clip", !.scissor = CurrentClipBounds(layer),
                    !.writes = IF difference THEN path ELSE layer.bounds \ path]

\* Canvas::ClipPath and HWCanvas::OnClipPath
ClipPath(shape, difference) ==
    /\ Call
    /\ globalClips' = IF difference THEN globalClips
                      ELSE [globalClips EXCEPT ![Len(globalClips)] =
                               @ \cap Moved(Bounds(shape), TotalMatrix)]
    /\ LET path == InLayer(shape)
           layer == IF difference THEN CurrentLayer
                    ELSE AddRectClip(CurrentLayer, Bounds(path))
       IN  /\ SetLayer(AddClip(layer, Len(draws) + 1))
           /\ draws' = Append(draws, ClipDraw(path, difference, layer))
    /\ LET path == Moved(shape, Asked.matrix)
       IN  saved' = [saved EXCEPT ![Len(saved)].clip =
                        IF difference THEN @ \ path ELSE @ \cap path]
    /\ UNCHANGED <<saveCount, matrices, layerStack, log>>

\* "displaced" marks what the canvas is known to draw elsewhere.
AskedDraw(pixels, displaced) ==
    log' = Append(log, [pixels |-> pixels, clip |-> Asked.clip, displaced |-> displaced])

\* HWCanvas::DrawShape for a paint without filters
DrawShape(kind, pixels, bounds) ==
    LET draw == [NewDraw EXCEPT !.type = kind.type, !.dst = kind.dst,
                    !.items = <<[id |-> Len(log) + 1, pixels |-> InLayer(pixels)]>>]
    IN  IF QuickReject(bounds) THEN UNCHANGED <<layers, draws>>
        ELSE Recorded(AddDraw(Current, draw, InLayer(bounds)))

Draw(kind, shape) ==
    /\ Call
    /\ DrawShape(kind, shape, Bounds(shape))
    /\ AskedDraw(Moved(shape, Asked.matrix), FALSE)
    /\ UNCHANGED <<canvasVars, layerStack, saved>>

\* HWCanvas::OnDrawPaint draws the bounds of the layer as a rectangle, which the
\* matrix moves.  What the call asks for is that it "Fills clip with Paint".
DrawPaint ==
    /\ Call
    /\ LET rect == Moved(CurrentLayer.bounds, - CurrentLayer.origin)
       IN  /\ DrawShape([type |-> "path", dst |-> FALSE], rect, rect)
           /\ AskedDraw(Asked.clip, CurrentMatrix # 0)
    /\ UNCHANGED <<canvasVars, layerStack, saved>>

\* HWCanvas::GenLayer: a layer is cut to the clip unless it is filtered, and
\* there is none when it would be empty or larger than a texture.
GenLayer(bounds, filtered) ==
    IF filtered THEN InLayer(bounds)
    ELSE InLayer(bounds) \cap CurrentClipBounds(CurrentLayer)
CanGenLayer(bounds, filtered) ==
    Cardinality(GenLayer(bounds, filtered)) \in 1 .. MaxTextureSize

\* HWCanvas::OnSaveLayer: the layer is drawn into its parent before anything is
\* drawn into the layer; without a layer the call is a Save and a ClipRect.
OnSaveLayer(bounds, filtered, dst) ==
    IF CanGenLayer(bounds, filtered)
    THEN LET child == NewLayer(CurrentLayer.origin + CurrentMatrix,
                               GenLayer(bounds, filtered))
             draw == [NewDraw EXCEPT !.type = "layer", !.dst = dst,
                                     !.child = Len(layers) + 1]
             result == AddDraw(Current, draw,
                           InLayer(bounds) \cap CurrentClipBounds(CurrentLayer))
         IN  /\ layers' = Append([layers EXCEPT ![Current] = result.layer], child)
             /\ draws' = result.draws
             /\ layerStack' = Append(layerStack, Len(layers) + 1)
    ELSE /\ SetLayer(AddRectClip(PushClipStack(CurrentLayer), InLayer(bounds)))
         /\ UNCHANGED <<layerStack, draws>>

\* Canvas::SaveLayer of bounds outside of the clip: Save and ClipRect(empty).
SaveRejectedLayer(bounds) ==
    /\ Call
    /\ QuickReject(bounds)
    /\ saveCount' = saveCount + 1
    /\ globalClips' = Append(globalClips, {})
    /\ matrices' = [matrices EXCEPT ![Len(matrices)].elements =
                                        Append(@, Last(@))]
    /\ SetLayer(AddRectClip(PushClipStack(CurrentLayer), {}))
    /\ AskedSave(Moved(bounds, Asked.matrix))
    /\ UNCHANGED <<layerStack, draws, log>>

\* Canvas::SaveLayer and CanvasState::SaveLayer
SaveLayer(bounds, filtered, dst) ==
    /\ Call
    /\ ~ QuickReject(bounds)
    /\ saveCount' = saveCount + 1
    /\ globalClips' = Append(globalClips,
                         Last(globalClips) \cap Moved(bounds, TotalMatrix))
    /\ OnSaveLayer(bounds, filtered, dst)
    /\ matrices' = Append(matrices, [world |-> TotalMatrix, elements |-> <<0>>])
    /\ AskedSave(Moved(bounds, Asked.matrix))
    /\ UNCHANGED log

\* GPUSurfaceImpl::LockCanvas and HWCanvas::BeginNewFrame: new layers, while the
\* canvas keeps its save count, clip bounds and matrices.
LockCanvas ==
    /\ layerStack = <<>> /\ frames < scene.frames
    /\ frames' = frames + 1
    /\ layers' = <<NewLayer(0, Surface)>>
    /\ layerStack' = <<1>>
    /\ UNCHANGED <<canvasVars, askedVars, draws, msaa, scene, ops>>

InitialMatrices == <<[world |-> 0, elements |-> <<0>>]>>

\* HWCanvas::OnFlush and GPUSurfaceImpl::Flush, which resets the arena.
Flush ==
    /\ Recording
    /\ BalancedFrames => /\ saveCount = 1 /\ matrices = InitialMatrices
                         /\ Asked.clip = Surface
    /\ layerStack' = <<>> /\ layers' = <<>> /\ draws' = <<>> /\ log' = <<>>
    /\ UNCHANGED <<canvasVars, saved, msaa, scene, ops, frames>>

Init ==
    /\ saveCount = 1 /\ globalClips = <<Surface>> /\ matrices = InitialMatrices
    /\ layerStack = <<>> /\ layers = <<>> /\ draws = <<>>
    /\ msaa \in BOOLEAN /\ scene \in Scenes
    /\ saved = <<[matrix |-> 0, clip |-> Surface,
                  view |-> [matrix |-> 0, bounds |-> Surface, clip |-> 0, layer |-> 1]]>>
    /\ log = <<>> /\ ops = 0 /\ frames = 0

Next ==
    \/ Save \/ Restore \/ DrawPaint \/ LockCanvas \/ Flush
    \/ \E by \in scene.moves : Translate(by)
    \/ \E rect \in scene.rects : ClipRect(rect)
    \/ \E shape \in ClipShapes, difference \in BOOLEAN : ClipPath(shape, difference)
    \/ \E kind \in DrawKinds, shape \in DrawShapes : Draw(kind, shape)
    \/ \E bounds \in scene.layers :
          \/ SaveRejectedLayer(bounds)
          \/ \E filtered, dst \in BOOLEAN : SaveLayer(bounds, filtered, dst)

Spec == Init /\ [][Next]_vars

-----------------------------------------------------------------------------
(* Rendering the recorded frame: HWLayer::Prepare and HWLayer::Draw        *)

(* Seeded fault: clips still on the stack get no depth. *)
FlushNoClipDepth == draws

\* HWLayerState::FlushClipDepth of every layer: the clips never popped.
FlushClipDepth ==
    LET Flushed(table, layer) == WithDepths(table, layer.depth, ClipDraws(layer))
        table[l \in 0 .. Len(layers)] ==
            IF l = 0 THEN draws ELSE Flushed(table[l - 1], layers[l])
    IN  table[Len(layers)]

\* What a sequence has at the given places.
Chosen(s, places) ==
    LET r[i \in 0 .. Len(s)] == IF i = 0 THEN <<>>
                                ELSE IF i \in places THEN Append(r[i - 1], s[i])
                                ELSE r[i - 1]
    IN  r[Len(s)]

\* HWLayer::CollectClipReplayDraws: the clips not popped before the pass.
ClipReplayDraws(layer, pass, table) ==
    LET Needed(id) == pass.firstDepth = 0 \/ table[id].depth >= pass.firstDepth
    IN  Chosen(layer.history, {i \in 1 .. pass.replayed : Needed(layer.history[i])})

\* The colour one draw leaves on a pixel it covers, "Rendered" being the
\* textures of the layers: a draw that reads the destination blends with the
\* copy instead of what is there.
Ink(draw, p, Rendered) ==
    IF draw.type = "layer" THEN Rendered[draw.child][p]
    ELSE Chosen([i \in DOMAIN draw.items |-> draw.items[i].id],
                {i \in DOMAIN draw.items : p \in draw.items[i].pixels})

Covered(draw) ==
    IF draw.type = "layer" THEN layers[draw.child].bounds
    ELSE UNION {draw.items[i].pixels : i \in DOMAIN draw.items}

\* One draw on the attachments of its pass.  Only clips write the depth, and
\* every draw must be deeper than what is there (GPUCompareFunction::kGreater).
DrawOne(target, draw, Rendered) ==
    LET live == {p \in draw.scissor : draw.depth > target.depth[p]}
        base == IF draw.dst THEN target.copy ELSE target.color
    IN  CASE draw.type = "clip" ->
               [target EXCEPT !.depth =
                  [p \in DOMAIN @ |-> IF p \in live \cap draw.writes
                                      THEN draw.depth ELSE @[p]]]
          [] draw.type = "load" ->
               [target EXCEPT !.color =
                  [p \in DOMAIN @ |-> IF p \in live THEN target.resolved[p] ELSE @[p]]]
          [] OTHER ->
               [target EXCEPT !.color =
                  [p \in DOMAIN @ |-> IF p \in live \cap Covered(draw)
                                      THEN base[p] \o Ink(draw, p, Rendered)
                                      ELSE @[p]]]

\* The order of HWLayer::Draw: emulated load, replayed clips, draws.
PassDraws(layer, pass, table) ==
    (IF pass.load # 0 THEN <<pass.load>> ELSE <<>>)
        \o ClipReplayDraws(layer, pass, table) \o pass.ops

Clear(layer, colour) == [p \in layer.bounds |-> colour]

\* OnBeginRenderPass: a pass begins with the depth cleared, and with the colours
\* of the last pass only without MSAA.
PassStart(layer, resolved, k) ==
    [color |-> IF k = 1 \/ msaa THEN Clear(layer, <<>>) ELSE resolved.color,
     depth |-> Clear(layer, 0),
     resolved |-> resolved.color,
     copy |-> resolved.copy]

\* The attachments after the given draws, one after the other.
Drawn(start, calls, table, Rendered) ==
    LET target[i \in 0 .. Len(calls)] ==
            IF i = 0 THEN start ELSE DrawOne(target[i - 1], table[calls[i]], Rendered)
    IN  target[Len(calls)]

\* A pass of HWLayer::Draw ends with the copy for the next pass.
RunPass(layer, table, Rendered, resolved, k) ==
    LET pass == layer.passes[k]
        end == Drawn(PassStart(layer, resolved, k), PassDraws(layer, pass, table),
                     table, Rendered)
    IN  [color |-> end.color,
         copy |-> [p \in layer.bounds |-> IF p \in pass.copy THEN end.color[p]
                                          ELSE <<0>>]]

RenderLayer(l, table, Rendered) ==
    LET resolved[k \in 0 .. Len(layers[l].passes)] ==
            IF k = 0 THEN [color |-> Clear(layers[l], <<>>), copy |-> Clear(layers[l], <<0>>)]
            ELSE RunPass(layers[l], table, Rendered, resolved[k - 1], k)
    IN  resolved[Len(layers[l].passes)].color

\* The textures of the layers, children first: a layer's children come after it.
Textures ==
    LET table == FlushClipDepth
        done[n \in 0 .. Len(layers)] ==
            IF n = 0 THEN [l \in DOMAIN layers |-> Clear(layers[l], <<>>)]
            ELSE LET l == Len(layers) + 1 - n
                 IN  [done[n - 1] EXCEPT ![l] = RenderLayer(l, table, done[n - 1])]
    IN  done[Len(layers)]

-----------------------------------------------------------------------------
(* Properties                                                              *)

\* The types of the canvas, its layers and its draws.
TypeOK ==
    /\ saveCount \in Nat \ {0}
    /\ \A i \in DOMAIN globalClips : globalClips[i] \subseteq Surface
    /\ \A i \in DOMAIN matrices : /\ matrices[i].world \in Int
                                  /\ matrices[i].elements \in Seq(Int)
    /\ layerStack \in Seq(DOMAIN layers)
    /\ \A l \in DOMAIN layers :
          /\ layers[l].depth \in Nat
          /\ \A i \in DOMAIN layers[l].clips :
                layers[l].clips[i].bounds \subseteq layers[l].bounds
          /\ ToSet(layers[l].history) \subseteq DOMAIN draws
    /\ \A d \in DOMAIN draws :
          /\ draws[d].type \in {"shape", "path", "clip", "layer", "load"}
          /\ draws[d].clip \in 0 .. Len(draws)
    /\ msaa \in BOOLEAN
    /\ scene \in Scenes /\ ops \in 0 .. scene.ops /\ frames \in 0 .. scene.frames

\* What the calls ask to see of a pixel.
Expected(p) == Chosen([i \in DOMAIN log |-> i],
                      {i \in DOMAIN log : p \in log[i].pixels \cap log[i].clip})

\* Of the draws of a colour, those that are not displaced.
InPlace(colour) == Chosen(colour, {i \in DOMAIN colour : ~ log[colour[i]].displaced})

(* The frame on the surface is the frame that was asked for: every pixel    *)
(* shows exactly the draws whose shape and whose clip, at the time of the   *)
(* call, contain it, in the order of the calls, and a DrawPaint fills the   *)
(* clip.  This holds of whatever was recorded so far: through merging,      *)
(* scissors, culling, saved layers, clips popped early or never, and split  *)
(* passes with or without MSAA.  Left out is a DrawPaint after the matrix   *)
(* of its layer was changed: HWCanvas::OnDrawPaint moves the rectangle it   *)
(* fills by that matrix, and may miss pixels of the clip.                   *)
FrameIsRight ==
    Recording => \A p \in Surface : InPlace(Textures[1][p]) = InPlace(Expected(p))

(* Restore brings back the matrix, the clip bounds, the clip and the layer   *)
(* that were current at the matching Save or SaveLayer.                      *)
RestoreUndoesSave ==
    [][Len(saved') < Len(saved) => View' = Last(saved).view]_vars
=============================================================================
