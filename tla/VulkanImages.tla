---------------------------- MODULE VulkanImages ----------------------------
(***************************************************************************)
(* The images of the Vulkan backend: the layout each GPUTextureVK believes *)
(* its image to be in, the barriers and copies that the passes of a frame  *)
(* record on that belief, the textures that layers draw into, and what the *)
(* images hold when the GPU gets to them.                                  *)
(*   src/gpu/vk/gpu_texture_vk.cc, gpu_blit_pass_vk.cc,                    *)
(*   gpu_render_pass_vk.cc, gpu_context_impl_vk.cc                         *)
(*   src/render/hw/hw_layer.cc, hw_resource_cache.hpp, layer/, vk/         *)
(* The thread of the context records command buffers and submits each at   *)
(* once; the queue executes them later, in that order.  What an image      *)
(* holds is the set of what was painted into it.                           *)
(***************************************************************************)
EXTENDS FiniteSets, Naturals, SequencesExt

CONSTANTS
    Pictures,          \* images of the application, uploaded when they are made
    Mipmapped,         \* those that have mipmaps
    Atlas, Glyphs,     \* a texture of the glyph atlas and what is uploaded to it
    Offscreen,         \* images that the application made surfaces of
    Swapchain,         \* images of the swapchain
    CopySources,       \* surfaces whose images may be copied from
    Multisampled,      \* surfaces that are drawn with several samples
    Targets,           \* render targets, named by the textures they draw into
    UsedSnapshots,     \* those whose image the application uses afterwards
    Layers, Attachments, Copies,  \* textures that frames make for themselves,
                       \* enough for the frames on the queue and another one
    Drawings(_),       \* what frames draw on a surface
    MaxQueued          \* bound: batches on the queue

ASSUME ImageAssumption == /\ Mipmapped \subseteq Pictures
                          /\ UsedSnapshots \subseteq Targets
                          /\ Multisampled \cap CopySources = {}

VARIABLES
    layouts,    \* current_layout_ of each GPUTextureVK, "none" if there is none
    images,     \* layout and contents of each level of each image
    intended,   \* what the calls so far mean each image to show (history)
    kept,       \* textures referred to from outside of command buffers
    batches,    \* submitted, not executed
    executed,   \* textures held by executed submissions, until these are collected
    reading     \* the texture, if any, that the thread reads in ReadPixels

imageVars == <<layouts, images, intended, kept, batches, executed, reading>>

-----------------------------------------------------------------------------
(* Textures *)

\* A render target draws into its texture's image through a second GPUTextureVK.
Wrapper(t) == <<"wrapper", t>>
Wrappers == {Wrapper(t) : t \in Targets}
ImageOf(t) == IF t \in Wrappers THEN t[2] ELSE t

External == Offscreen \cup Swapchain
Owning == Pictures \cup Atlas \cup Targets \cup Layers \cup Attachments \cup Copies
GPUTextures == External \cup Owning \cup Wrappers
Levels(t) == IF t \in Mipmapped THEN {0, 1, 2} ELSE {0}

Usage(t) ==
    IF t \in Pictures \cup Atlas \cup Copies THEN {"TextureBinding", "CopyDst"}
    ELSE IF t \in Layers \cup Targets \cup Wrappers THEN {"TextureBinding", "RenderAttachment"}
    ELSE {"RenderAttachment"} \cup (IF t \in CopySources THEN {"CopySrc"} ELSE {})

VkUsage(t) ==
    (IF "CopySrc" \in Usage(t) THEN {"src"} ELSE {})
    \cup (IF "CopyDst" \in Usage(t) THEN {"dst"} ELSE {})
    \cup (IF "TextureBinding" \in Usage(t) THEN {"sampled", "src", "dst"} ELSE {})
    \cup (IF "RenderAttachment" \in Usage(t) THEN {"color"} ELSE {})

\* ResolvePreferredLayout; who wraps an image chooses it himself.
Preferred(t) ==
    IF t \in Swapchain THEN "present"
    ELSE IF t \in Offscreen THEN "general"
    ELSE IF t \in Wrappers THEN "sampled"
    ELSE IF \/ {"RenderAttachment", "TextureBinding"} \subseteq Usage(t)
            \/ t \in Attachments
            \/ Levels(t) # {0} THEN "general"
    ELSE "sampled"

\* GetSampledImageLayout.
SampledLayout(t, current) ==
    IF current \in {"sampled", "general"} THEN current
    ELSE IF Preferred(t) \in {"sampled", "general"} THEN Preferred(t)
    ELSE "general"

\* What is in memory that was not written, or whose contents were discarded.
Garbage == {<<"garbage", 0>>}

NewImage(i, layout) == [level \in Levels(i) |-> [layout |-> layout, shows |-> Garbage]]

-----------------------------------------------------------------------------
(* A command buffer that is being recorded: the layouts as the textures    *)
(* know them meanwhile, the commands, the textures it holds and those that *)
(* were made.  A command moves levels of an image to another layout, or it *)
(* needs levels in some layout and writes what it takes from them.         *)

Recorder == [layouts |-> layouts, commands |-> <<>>, held |-> {}, made |-> {}]

Make(r, t) == [r EXCEPT !.layouts[t] = "undefined", !.made = @ \cup {t}]
Hold(r, ts) == [r EXCEPT !.held = @ \cup ts]

Barrier(r, t, levels, from, to) ==
    [r EXCEPT !.commands = Append(@, [does |-> "barrier", image |-> ImageOf(t),
                                      levels |-> levels, from |-> from, to |-> to])]

Need(t, level, layout, use) ==
    [image |-> ImageOf(t), level |-> level, layout |-> layout, use |-> use]

\* takes: pairs of a texture and a mark; paints: what comes from elsewhere.
Access(r, needs, t, level, keeps, takes, paints) ==
    [r EXCEPT !.commands = Append(@, [does |-> "access", needs |-> needs, image |-> ImageOf(t),
                                      level |-> level, keeps |-> keeps, takes |-> takes,
                                      paints |-> paints])]

\* TransitionImageLayout.
Transition(r, t, to) ==
    IF r.layouts[t] = to THEN r
    ELSE [Barrier(r, t, Levels(t), r.layouts[t], to) EXCEPT !.layouts[t] = to]

\* TransitionMipRangeLayout.
TransitionMipRange(r, t, levels, from, to) ==
    IF from = to \/ levels = {} THEN r ELSE Barrier(r, t, levels, from, to)

\* An upload replaces the image or, if it keeps the rest, a part of it.
UploadTextureData(r, t, keeps, paints) ==
    Hold(Transition(Access(Transition(r, t, "dst"), {Need(t, 0, "dst", "dst")},
                           t, 0, keeps, {}, paints),
                    t, Preferred(t)),
         {t})

\* One step of GenerateMipmaps.
Blit(r, t, level) ==
    LET last == level + 1 \notin Levels(t)
        blitted == Access(r, {Need(t, level - 1, "src", "src"), Need(t, level, "dst", "dst")},
                          t, level, FALSE, {<<t, level - 1, "all">>}, {})
    IN  TransitionMipRange(
            TransitionMipRange(blitted, t, {level - 1}, "src", Preferred(t)),
            t, {level}, "dst", IF last THEN Preferred(t) ELSE "src")

(* Seeded fault: the levels are moved from an undefined layout.            *)
GenerateMipmapsAnew(r, t) ==
    LET ready == TransitionMipRange(
                     TransitionMipRange(r, t, {0}, "undefined", "src"),
                     t, Levels(t) \ {0}, "undefined", "dst")
        blits == FoldLeft(LAMBDA q, level : Blit(q, t, level), ready, <<1, 2>>)
    IN  IF Levels(t) = {0} THEN r
        ELSE Hold([blits EXCEPT !.layouts[t] = Preferred(t)], {t})

GenerateMipmaps(r, t) ==
    LET ready == TransitionMipRange(
                     TransitionMipRange(r, t, {0}, r.layouts[t], "src"),
                     t, Levels(t) \ {0}, r.layouts[t], "dst")
        blits == FoldLeft(LAMBDA q, level : Blit(q, t, level), ready, <<1, 2>>)
    IN  IF Levels(t) = {0} THEN r
        ELSE Hold([blits EXCEPT !.layouts[t] = Preferred(t)], {t})

CopyTextureToTexture(r, src, dst) ==
    LET moved  == Transition(Transition(r, src, "src"), dst, "dst")
        copied == Access(moved, {Need(src, 0, "src", "src"), Need(dst, 0, "dst", "dst")},
                         dst, 0, FALSE, {<<src, 0, "all">>}, {})
    IN  Hold(Transition(Transition(copied, src, Preferred(src)), dst, Preferred(dst)),
             {src, dst})

-----------------------------------------------------------------------------
(* Render passes.  reads: pairs of a sampled texture and what of it is      *)
(* drawn; samples: the multisampled attachment that is resolved to the      *)
(* target, or the target itself.                                            *)

(* Seeded fault: the textures that a pass samples are not held.            *)
SampledUnheld(reads) == {}

\* RecordBoundResourceCleanup.
SampledHeld(reads) == {read[1] : read \in reads}

\* PrepareSampledTextures.
PrepareSampledTextures(r, reads) ==
    FoldSet(LAMBDA t, q : Transition(q, t, SampledLayout(t, q.layouts[t])), r,
            {read[1] : read \in reads})

\* RecordDynamicRenderingPass and RecordLegacyRenderPass.
RecordPass(r, target, samples, loads, reads) ==
    LET sampled == {<<read[1], level, read[2]>> : read \in reads, level \in {0, 1, 2}}
        takes == {take \in sampled : take[2] \in Levels(take[1])}
        needs(ready) ==
            {Need(t, 0, "color", "color") : t \in {target, samples}}
            \cup {Need(take[1], take[2], SampledLayout(take[1], ready.layouts[take[1]]),
                       "sampled") : take \in takes}
        drawn(ready) == Access(ready, needs(ready), target, 0, loads, takes, {})
        attached(ready) == Transition(Transition(ready, samples, "color"), target, "color")
    IN  Hold(Transition(Transition(drawn(attached(PrepareSampledTextures(r, reads))),
                                   samples, Preferred(samples)),
                        target, Preferred(target)),
             SampledHeld(reads) \cup {target, samples})

-----------------------------------------------------------------------------
(* Frames.  A drawing is a sequence of passes, a pass a sequence of draws:  *)
(* of a texture, of a glyph of the atlas, or of a layer that is a drawing   *)
(* itself.  The first draw after a split reads what was drawn before it.    *)

DrawOf(what, of) == [draws |-> what, of |-> of]

\* The textures that a frame makes, in that order.
Unused(kind, made) ==
    kind \ (ToSet(made) \cup UNION {batches[i].held : i \in DOMAIN batches})

\* CreateTexture.  So does ObtainResource, while the cache of render targets is
\* disabled as it is for every context.
Obtain(made, kind) == Append(made, CHOOSE t \in Unused(kind, made) : TRUE)

RECURSIVE PreparePasses(_, _, _)

\* HWSubLayer::OnPrepare: the layer's own texture, then the layers in it, then
\* what it renders with.  A step is the textures made and what was prepared.
PrepareLayer(made, layer, multisampled) ==
    LET prepared(last, texture, passes) ==
            <<last, [draws |-> "layer", of |-> passes, texture |-> texture,
                     samples |-> IF multisampled THEN Last(last) ELSE texture]>>
        attach(inner, texture) ==
            prepared(IF multisampled THEN Obtain(inner[1], Attachments) ELSE inner[1],
                     texture, inner[2])
        enter(own) == attach(PreparePasses(own, layer.of, multisampled), Last(own))
    IN  enter(Obtain(made, Layers))

\* HWLayer::OnPrepare.  A pass becomes its draws and the copy taken after it.
PreparePasses(made, passes, multisampled) ==
    LET add(draws, layer) == <<layer[1], Append(draws, layer[2])>>
        prepareDraw(step, draw) ==
            IF draw.draws # "layer" THEN <<step[1], Append(step[2], draw)>>
            ELSE add(step[2], PrepareLayer(step[1], draw, multisampled))
        addPass(last, before, pass) == <<last, Append(before, pass)>>
        copyAfter(last, before, draws) ==
            addPass(last, before, [draws |-> draws, copy |-> Last(last)])
        endPass(step, draws, i) ==
            IF i = Len(passes) THEN addPass(draws[1], step[2], [draws |-> draws[2]])
            ELSE copyAfter(Obtain(draws[1], Copies), step[2], draws[2])
        preparePass(step, i) ==
            endPass(step, FoldLeft(prepareDraw, <<step[1], <<>>>>, passes[i]), i)
    IN  FoldLeft(preparePass, <<made, <<>>>>, [i \in DOMAIN passes |-> i])

\* HWCanvas::OnFlush and VKRootLayer::OnPrepare: so for the whole frame.
PrepareFrame(surface, passes) ==
    LET prepared(last, all) == [made |-> last, passes |-> all, samples |->
                                  IF surface \in Multisampled THEN Last(last) ELSE surface]
        attach(inner) ==
            prepared(IF surface \in Multisampled THEN Obtain(inner[1], Attachments)
                     ELSE inner[1], inner[2])
    IN  attach(PreparePasses(<<>>, passes, surface \in Multisampled))

\* What a draw reads: nothing remains of a layer but its texture.
Reads(draw) ==
    IF draw.draws = "layer" THEN <<draw.texture, "all">>
    ELSE IF draw.draws = "glyph" THEN <<CHOOSE t \in Atlas : TRUE, draw.of>>
    ELSE <<draw.of, "all">>

\* HWLayer::Draw: the layers in a pass are recorded before it, the copy that
\* the next pass reads after it.
RECURSIVE DrawLayer(_, _, _, _, _)
DrawLayer(r, target, samples, loads, passes) ==
    LET drawInner(q, draw) ==
            IF draw.draws = "layer" THEN DrawLayer(q, draw.texture, draw.samples, FALSE, draw.of)
            ELSE q
        reads(i) ==
            {Reads(passes[i].draws[k]) : k \in DOMAIN passes[i].draws}
            \cup (IF i = 1 THEN {} ELSE {<<passes[i - 1].copy, "mixed">>})
        copy(q, i) ==
            IF i = Len(passes) THEN q ELSE CopyTextureToTexture(q, target, passes[i].copy)
        drawPass(q, i) ==
            copy(RecordPass(FoldLeft(drawInner, q, passes[i].draws),
                            target, samples, loads \/ i > 1, reads(i)), i)
    IN  FoldLeft(drawPass, r, [i \in DOMAIN passes |-> i])

\* SupportsTextureCopyDstRead: a surface whose image cannot be copied is drawn
\* in one pass, whatever the draws would read.
Passes(surface, drawing) ==
    IF surface \in CopySources THEN drawing ELSE <<FlattenSeq(drawing)>>

\* What a drawing is meant to show on top of what was there.
Mixed(contents) == {<<token[1], 1>> : token \in contents}

RECURSIVE Shows(_, _)
Shows(contents, passes) ==
    LET drawn(draw) == IF draw.draws = "layer" THEN Shows({}, draw.of)
                       ELSE IF draw.draws = "glyph" THEN {<<draw.of, 0>>}
                       ELSE intended[draw.of]
        pass(before, i) ==
            before \cup UNION {drawn(passes[i][k]) : k \in DOMAIN passes[i]}
                   \cup (IF i = 1 THEN {} ELSE Mixed(before))
    IN  FoldLeft(pass, contents, [i \in DOMAIN passes |-> i])

\* What of the application's textures is in a drawing.
RECURSIVE Sources(_)
Sources(passes) ==
    UNION {IF draw.draws = "layer" THEN Sources(draw.of) ELSE {Reads(draw)} :
              draw \in UNION {ToSet(passes[i]) : i \in DOMAIN passes}}

-----------------------------------------------------------------------------
(* The queue *)

Seen(pixels, take) ==
    LET shows == pixels[take[1]][take[2]].shows
    IN  IF take[3] = "all" THEN shows
        ELSE IF take[3] = "mixed" THEN Mixed(shows)
        ELSE IF <<take[3], 0>> \in shows THEN {<<take[3], 0>>} ELSE Garbage

\* What Vulkan requires of a command when it executes.
IsRight(pixels, command) ==
    IF command.does = "barrier"
    THEN \A level \in command.levels :
            /\ pixels[command.image][level].layout # "none"
            /\ command.from \in {"undefined", pixels[command.image][level].layout}
    ELSE \A need \in command.needs :
            /\ pixels[need.image][need.level].layout = need.layout
            /\ need.use \in VkUsage(need.image)

Moved(was, command) ==
    [level \in DOMAIN was |->
        IF level \notin command.levels THEN was[level]
        ELSE [layout |-> command.to,
              shows |-> IF command.from = "undefined" THEN Garbage ELSE was[level].shows]]

Effect(pixels, command) ==
    IF command.does = "barrier"
    THEN [pixels EXCEPT ![command.image] = Moved(@, command)]
    ELSE [pixels EXCEPT ![command.image][command.level].shows =
            (IF command.keeps THEN @ ELSE {}) \cup command.paints
            \cup UNION {Seen(pixels, take) : take \in command.takes}]

Execution(commands) ==
    FoldLeft(LAMBDA run, command : [images |-> Effect(run.images, command),
                                    right  |-> run.right /\ IsRight(run.images, command)],
             [images |-> images, right |-> TRUE], commands)

-----------------------------------------------------------------------------
(* Actions.  A texture is destroyed with its last reference, and its image  *)
(* with it.                                                                 *)

Referenced ==
    kept \cup executed \cup reading
    \cup UNION {batches[i].held : i \in DOMAIN batches}

Destroy(knownLayouts, made, left) ==
    /\ layouts' = [t \in GPUTextures |-> IF t \in Referenced' THEN knownLayouts[t] ELSE "none"]
    /\ images' = [i \in External \cup Owning |->
                    IF i \in made THEN NewImage(i, "undefined")
                    ELSE IF i \in Referenced' \cup External THEN left[i]
                    ELSE NewImage(i, "none")]

\* Init and Submit of command buffers, the former collects what is done.
SubmitRecorded(recorders) ==
    LET batch(r) == [commands |-> r.commands, held |-> r.held]
        last == Last(recorders)
        made == UNION {recorders[i].made : i \in DOMAIN recorders}
    IN  /\ Len(batches) < MaxQueued
        /\ batches' = batches \o [i \in DOMAIN recorders |-> batch(recorders[i])]
        /\ executed' = {}
        /\ Destroy(last.layouts, made, images)

Running == reading = {}

\* What the application and the atlas may draw: not the texture of a render
\* target that is still being drawn into.
Available == (kept \cap Owning) \ {t \in Targets : Wrapper(t) \in kept}

\* SaveGPUTexture for a pixmap: one command buffer uploads it, another makes
\* its mipmaps.
UploadPicture(p) ==
    LET mipmaps(upload) == GenerateMipmaps([Recorder EXCEPT !.layouts = upload.layouts], p)
        recorded(upload) == IF p \in Mipmapped THEN <<upload, mipmaps(upload)>> ELSE <<upload>>
    IN  /\ Running
        /\ layouts[p] = "none"
        /\ kept' = kept \cup {p}
        /\ intended' = [intended EXCEPT ![p] = {<<p, 0>>}]
        /\ UNCHANGED reading
        /\ SubmitRecorded(recorded(UploadTextureData(Make(Recorder, p), p, FALSE, {<<p, 0>>})))

\* UploadAtlas: the rows of a glyph, to a texture that is made when the first
\* one is uploaded.
UploadGlyph(t, g) ==
    LET ready == IF layouts[t] = "none" THEN Make(Recorder, t) ELSE Recorder
    IN  /\ Running
        /\ <<g, 0>> \notin intended[t]
        /\ kept' = kept \cup {t}
        /\ intended' = [intended EXCEPT ![t] = @ \cup {<<g, 0>>}]
        /\ UNCHANGED reading
        /\ SubmitRecorded(<<UploadTextureData(ready, t, TRUE, {<<g, 0>>})>>)

\* The last reference that is not a command buffer's goes away.
DropImage(t) ==
    /\ Running
    /\ t \in Available
    /\ kept' = kept \ {t}
    /\ intended' = [intended EXCEPT ![t] = Garbage]
    /\ UNCHANGED <<batches, executed, reading>>
    /\ Destroy(layouts, {}, images)

\* HWCanvas::OnFlush for a surface that is to be drawn on.
DrawFrame(t, clear, drawing) ==
    LET making(frame) == FoldLeft(LAMBDA r, new : Make(r, new), Recorder, frame.made)
        record(frame) ==
            SubmitRecorded(<<DrawLayer(making(frame), t, frame.samples, ~clear, frame.passes)>>)
    IN  /\ Running
        /\ Len(batches) < MaxQueued
        /\ \A source \in Sources(drawing) :
              /\ source[1] \in Available
              /\ source[2] \in Glyphs => <<source[2], 0>> \in intended[source[1]]
        /\ intended' = [intended EXCEPT ![ImageOf(t)] =
                            Shows(IF clear THEN {} ELSE @, Passes(t, drawing))]
        /\ UNCHANGED reading
        /\ record(PrepareFrame(t, Passes(t, drawing)))

\* A frame of a surface.  Neither images of the swapchain, which are acquired
\* in an undefined layout, nor multisampled attachments hold an earlier frame.
DrawSurface(s, clear, drawing) ==
    /\ s \in kept
    /\ s \in Swapchain \cup Multisampled => clear
    /\ kept' = kept
    /\ DrawFrame(s, clear, drawing)

\* AcquireNextSurface wraps the image anew, when it is no longer presented.
AcquireNextSurface(s) ==
    /\ Running
    /\ s \notin kept
    /\ \A i \in DOMAIN batches : s \notin batches[i].held
    /\ kept' = kept \cup {s}
    /\ UNCHANGED <<intended, batches, executed, reading>>
    /\ Destroy([layouts EXCEPT ![s] = "undefined"], {}, images)

\* Present, of a surface that was drawn.
Present(s) ==
    LET shown == Access(Recorder, {Need(s, 0, "present", "color")}, s, 0, TRUE, {}, {})
    IN  /\ Running
        /\ s \in kept
        /\ layouts[s] = "present"
        /\ Len(batches) < MaxQueued
        /\ kept' = kept \ {s}
        /\ batches' = Append(batches, [commands |-> shown.commands, held |-> {s}])
        /\ UNCHANGED <<intended, executed, reading>>
        /\ Destroy(layouts, {}, images)

\* OnCreateRenderTarget.
CreateRenderTarget(t) ==
    /\ Running
    /\ layouts[t] = "none"
    /\ layouts[Wrapper(t)] = "none"
    /\ kept' = kept \cup {t, Wrapper(t)}
    /\ UNCHANGED <<intended, batches, executed, reading>>
    /\ Destroy([layouts EXCEPT ![t] = "undefined", ![Wrapper(t)] = "undefined"], {t}, images)

\* MakeSnapshot draws what was recorded and ends the render target.
MakeSnapshot(t, drawing) ==
    /\ Wrapper(t) \in kept
    /\ kept' = kept \ {Wrapper(t)}
    /\ DrawFrame(Wrapper(t), TRUE, drawing)

\* OnReadPixels up to its wait.  What is read goes to a buffer.
ReadPixels(t) ==
    LET read == Access(Transition(Recorder, t, "src"), {Need(t, 0, "src", "src")},
                       t, 0, TRUE, {}, {})
    IN  /\ Running
        /\ t \in Available
        /\ reading' = {t}
        /\ UNCHANGED <<intended, kept>>
        /\ SubmitRecorded(<<Transition(read, t, Preferred(t))>>)

\* CollectPendingSubmissions(true) returns.
FinishReadPixels ==
    /\ ~Running
    /\ batches = <<>>
    /\ executed' = {}
    /\ reading' = {}
    /\ UNCHANGED <<intended, kept, batches>>
    /\ Destroy(layouts, {}, images)

Execute ==
    /\ batches # <<>>
    /\ images' = Execution(Head(batches).commands).images
    /\ batches' = Tail(batches)
    /\ executed' = executed \cup Head(batches).held
    /\ UNCHANGED <<layouts, intended, kept, reading>>

-----------------------------------------------------------------------------
ImagesInit ==
    /\ layouts = [t \in GPUTextures |-> IF t \in Offscreen THEN "undefined" ELSE "none"]
    /\ images = [i \in External \cup Owning |->
                    NewImage(i, IF i \in External THEN "undefined" ELSE "none")]
    /\ intended = [i \in External \cup Owning |-> Garbage]
    /\ kept = Offscreen
    /\ batches = <<>>
    /\ executed = {}
    /\ reading = {}

ImagesNext ==
    \/ \E p \in Pictures : UploadPicture(p)
    \/ \E t \in Atlas, g \in Glyphs : UploadGlyph(t, g)
    \/ \E t \in Pictures \cup Atlas \cup UsedSnapshots : DropImage(t)
    \/ \E s \in External, clear \in BOOLEAN :
          \E drawing \in Drawings(s) : DrawSurface(s, clear, drawing)
    \/ \E s \in Swapchain : AcquireNextSurface(s) \/ Present(s)
    \/ \E t \in Targets : \/ CreateRenderTarget(t)
                          \/ \E drawing \in Drawings(t) : MakeSnapshot(t, drawing)
    \/ \E t \in Pictures \cup UsedSnapshots : ReadPixels(t)
    \/ FinishReadPixels
    \/ Execute

ImagesSpec == ImagesInit /\ [][ImagesNext]_imageVars

-----------------------------------------------------------------------------
(* Properties *)

\* When the queue gets to a command, every image that it names exists, has the
\* layout that the command was recorded for, and may be used in that way:
\* across passes, layers, copies, uploads and dropped textures.
ImagesAreUsedRight ==
    batches # <<>> => Execution(Head(batches).commands).right

\* Once the queue is empty every image that is referred to, with each of its
\* mipmaps, shows what the calls since its last clear drew: through layers in
\* layers, copies for draws that read what is below them, passes that go on
\* after these, and glyphs that are added between frames in flight.
FramesShowWhatWasDrawn ==
    batches = <<>> =>
        \A i \in kept \cap (External \cup Owning), level \in {0, 1, 2} :
            level \in Levels(i) => images[i][level].shows = intended[i]

\* The image that MakeSnapshot returns shows what was drawn to its render
\* target, for as long as the application uses it.
SnapshotsShowTheirTarget ==
    batches = <<>> =>
        \A t \in UsedSnapshots \cap Available : images[t][0].shows = intended[t]
=============================================================================
