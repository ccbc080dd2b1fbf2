--------------------------- MODULE TextureManager ---------------------------
(***************************************************************************)
(* Textures of a context (TextureManager, TextureImpl): the application's  *)
(* threads create, fill and drop textures, the GPU thread makes their GPU  *)
(* textures when it draws them and destroys these at the end of a frame.   *)
(*   src/gpu/texture_manager.cc, src/gpu/texture_impl.cc                   *)
(* What the code does under shared_mutex_ is one step; so is what it does  *)
(* between two acquisitions.  A shared_ptr is modelled by the set of those *)
(* who hold it.                                                            *)
(***************************************************************************)
EXTENDS FiniteSets, Naturals

CONSTANTS
    Textures,   \* TextureImpl objects, each with its handler and GPU texture
    Pixmaps,    \* the images uploaded to them
    None

ASSUME NoneIsNothing == None \notin Pixmaps \cup Textures

VARIABLES
    made,       \* textures created so far
    ref,        \* holders of each texture: application, recorded frame, cache
    handler,    \* handler_to_texture_: no entry, null, or a GPU texture
    gpuRef,     \* holders of its GPU texture: map, release queue, frame
    content,    \* the image the GPU texture was made from
    pendingPixmap,    \* pending_pixmap_ of each texture
    stored,     \* the image last given to DeferredUploadImage (history)
    cache,      \* texture_cache_: the texture of each drawn pixmap
    drop,       \* where ~TextureImpl is, run by a thread of the application
    gpu,        \* what the GPU thread does
    drawn,      \* pairs of a pixmap and the image that was drawn for it
    killer,     \* the thread on which the GPU texture was destroyed
    context     \* the context lives and holds the manager

textureVars == <<ref, handler, gpuRef, content, pendingPixmap, killer>>
managerVars == <<made, textureVars, stored, cache, drop, gpu, drawn, context>>

GpuIdle == [at |-> "idle", texture |-> None, image |-> None]

TexturesInit == /\ made = {}
        /\ ref = [t \in Textures |-> {}]
        /\ handler = [t \in Textures |-> "absent"]
        /\ gpuRef = [t \in Textures |-> {}]
        /\ content = [t \in Textures |-> None]
        /\ pendingPixmap = [t \in Textures |-> None]
        /\ stored = [t \in Textures |-> None]
        /\ cache = [p \in Pixmaps |-> None]
        /\ drop = [t \in Textures |-> "no"]
        /\ gpu = GpuIdle
        /\ drawn = {}
        /\ killer = [t \in Textures |-> "nobody"]
        /\ context = TRUE

\* The manager lives while the context or a locked delegate_ holds it.
ManagerLives == context \/ \E t \in Textures : drop[t] \in {"locked", "dropped"}

\* A texture dies with its last holder.
Dies(t, holders) == ref[t] # {} /\ ref[t] \subseteq holders

-----------------------------------------------------------------------------
(* The manager's critical sections *)

(* Seeded fault: the GPU texture is destroyed at once.                     *)
DropTexturesAtOnce(ts, thread) ==
    /\ handler' = [t \in Textures |-> IF t \in ts THEN "absent" ELSE handler[t]]
    /\ gpuRef' = [t \in Textures |-> IF t \in ts THEN gpuRef[t] \ {"map"} ELSE gpuRef[t]]
    /\ killer' = [t \in Textures |-> IF t \in ts /\ gpuRef[t] = {"map"} THEN thread
                                     ELSE killer[t]]

(* Seeded fault: only entries with a GPU texture are erased.               *)
DropUploadedOnly(ts, thread) ==
    /\ handler' = [t \in Textures |-> IF t \in ts /\ handler[t] = "uploaded" THEN "absent"
                                      ELSE handler[t]]
    /\ gpuRef' = [t \in Textures |-> IF t \in ts /\ "map" \in gpuRef[t]
                                     THEN (gpuRef[t] \ {"map"}) \cup {"queue"}
                                     ELSE gpuRef[t]]
    /\ UNCHANGED killer

\* DropTexture: the GPU texture moves from the map to gpu_release_queue_.
DropTextures(ts, thread) ==
    /\ handler' = [t \in Textures |-> IF t \in ts THEN "absent" ELSE handler[t]]
    /\ gpuRef' = [t \in Textures |-> IF t \in ts /\ "map" \in gpuRef[t]
                                     THEN (gpuRef[t] \ {"map"}) \cup {"queue"}
                                     ELSE gpuRef[t]]
    /\ UNCHANGED killer

\* GPU textures whose only holders let go are destroyed on this thread.
ReleaseGPUTextures(holders, thread) ==
    /\ gpuRef' = [t \in Textures |-> gpuRef[t] \ holders]
    /\ killer' = [t \in Textures |-> IF gpuRef[t] # {} /\ gpuRef[t] \subseteq holders
                                     THEN thread ELSE killer[t]]

\* SaveGPUTexture of UploadTextureImage: the callback makes the GPU texture
\* and uploads the image under the lock, unless there is one already.
\* Creating it may fail.
SaveGPUTexture(t, p) ==
    \/ /\ handler[t] = "uploaded"
       /\ UNCHANGED <<handler, gpuRef, content>>
    \/ /\ handler[t] # "uploaded"
       /\ handler' = [handler EXCEPT ![t] = "uploaded"]
       /\ gpuRef' = [gpuRef EXCEPT ![t] = @ \cup {"map"}]
       /\ content' = [content EXCEPT ![t] = p]
    \/ /\ handler[t] # "uploaded"
       /\ handler' = [handler EXCEPT ![t] = "created"]
       /\ UNCHANGED <<gpuRef, content>>

-----------------------------------------------------------------------------
(* The application *)

\* CreateTexture, RegisterTexture without a GPU texture: on any thread.
CreateTexture(t) ==
    /\ context
    /\ t \notin made
    /\ made' = made \cup {t}
    /\ ref' = [ref EXCEPT ![t] = {"app"}]
    /\ handler' = [handler EXCEPT ![t] = "created"]
    /\ UNCHANGED <<gpuRef, content, pendingPixmap, killer, stored, cache, drop, gpu, drawn,
                   context>>

\* WrapTexture: the GPU texture is there from the start.
WrapTexture(t, p) ==
    /\ context
    /\ t \notin made
    /\ made' = made \cup {t}
    /\ ref' = [ref EXCEPT ![t] = {"app"}]
    /\ handler' = [handler EXCEPT ![t] = "uploaded"]
    /\ gpuRef' = [gpuRef EXCEPT ![t] = {"map"}]
    /\ content' = [content EXCEPT ![t] = p]
    /\ UNCHANGED <<pendingPixmap, killer, stored, cache, drop, gpu, drawn, context>>

\* DeferredUploadImage writes pending_pixmap_ without a lock: the caller has
\* not handed the texture to a frame yet, as Image::MakeImage has not.
DeferredUploadImage(t, p) ==
    /\ ref[t] = {"app"}
    /\ pendingPixmap' = [pendingPixmap EXCEPT ![t] = p]
    /\ stored' = [stored EXCEPT ![t] = p]
    /\ UNCHANGED <<made, ref, handler, gpuRef, content, killer, cache, drop, gpu, drawn,
                   context>>

\* A thread of the application drops the last reference it holds.  If no
\* frame holds the texture, ~TextureImpl begins on that thread; when the
\* manager is gone there is nothing left to do.
ReleaseTexture(t) ==
    /\ "app" \in ref[t]
    /\ ref' = [ref EXCEPT ![t] = @ \ {"app"}]
    /\ drop' = [drop EXCEPT ![t] = IF Dies(t, {"app"}) /\ ManagerLives THEN "locked" ELSE @]
    /\ UNCHANGED <<made, handler, gpuRef, content, pendingPixmap, killer, stored, cache, gpu,
                   drawn, context>>

DropTexture(t) ==
    /\ drop[t] = "locked"
    /\ drop' = [drop EXCEPT ![t] = "dropped"]
    /\ DropTextures({t}, "app")
    /\ UNCHANGED <<made, ref, content, pendingPixmap, stored, cache, gpu, drawn, context>>

(* Seeded fault: ~TextureManager leaves the GPU textures alone.            *)
FinishDropQuietly(t) ==
    /\ drop[t] = "dropped"
    /\ drop' = [drop EXCEPT ![t] = "no"]
    /\ UNCHANGED <<made, textureVars, stored, cache, gpu, drawn, context>>

\* The locked delegate_ goes.  When the context went in the meantime it was
\* the last holder, and ~TextureManager runs on this thread.
FinishDrop(t) ==
    /\ drop[t] = "dropped"
    /\ drop' = [drop EXCEPT ![t] = "no"]
    /\ IF context \/ \E u \in Textures \ {t} : drop[u] # "no"
       THEN UNCHANGED <<handler, gpuRef, killer>>
       ELSE /\ ReleaseGPUTextures({"map", "queue"}, "app")
            /\ handler' = [u \in Textures |-> "absent"]
    /\ UNCHANGED <<made, ref, content, pendingPixmap, stored, cache, gpu, drawn, context>>

-----------------------------------------------------------------------------
(* The GPU thread draws an image (GenShadingFragment) *)

At(place) == gpu.at = place
Go(place) == gpu' = [gpu EXCEPT !.at = place]

\* The image holds a texture: the frame keeps the image and asks for its GPU
\* texture.
DrawTexture(t) ==
    /\ At("idle")
    /\ context
    /\ "app" \in ref[t]
    /\ ref' = [ref EXCEPT ![t] = @ \cup {"frame"}]
    /\ gpu' = [at |-> "query", texture |-> t, image |-> None]
    /\ UNCHANGED <<made, handler, gpuRef, content, pendingPixmap, killer, stored, cache, drop,
                   drawn, context>>

(* Seeded fault: one texture is kept for all pixmaps.                      *)
CachedForAny(p) == {cache[q] : q \in Pixmaps} \ {None}

Cached(p) == {cache[p]} \ {None}

\* The image holds a pixmap: FindOrCreateTexture, then UploadImage.
DrawPixmap(p) ==
    /\ At("idle")
    /\ context
    /\ \/ \E t \in Cached(p) :
            /\ gpu' = [at |-> "upload", texture |-> t, image |-> p]
            /\ UNCHANGED <<made, ref, handler, cache>>
       \/ \E t \in Textures \ made :
            /\ Cached(p) = {}
            /\ made' = made \cup {t}
            /\ ref' = [ref EXCEPT ![t] = {"cache"}]
            /\ handler' = [handler EXCEPT ![t] = "created"]
            /\ cache' = [cache EXCEPT ![p] = t]
            /\ gpu' = [at |-> "upload", texture |-> t, image |-> p]
    /\ UNCHANGED <<gpuRef, content, pendingPixmap, killer, stored, drop, drawn, context>>

UploadPixmap ==
    /\ At("upload")
    /\ SaveGPUTexture(gpu.texture, gpu.image)
    /\ Go("query")
    /\ UNCHANGED <<made, ref, pendingPixmap, killer, stored, cache, drop, drawn, context>>

\* GetGPUTexture: a texture without a GPU texture commits its pending image.
QueryState ==
    /\ At("query")
    /\ Go(IF handler[gpu.texture] = "created" /\ pendingPixmap[gpu.texture] # None
          THEN "commit" ELSE "fetch")
    /\ UNCHANGED <<made, textureVars, stored, cache, drop, drawn, context>>

(* Seeded fault: the pending image goes before it is uploaded.             *)
CommitForgettingPending ==
    LET t == gpu.texture
    IN  /\ At("commit")
        /\ SaveGPUTexture(t, pendingPixmap[t])
        /\ pendingPixmap' = [pendingPixmap EXCEPT ![t] = None]
        /\ Go("fetch")
        /\ UNCHANGED <<made, ref, killer, stored, cache, drop, drawn, context>>

CommitDeferredImageUpload ==
    LET t == gpu.texture
    IN  /\ At("commit")
        /\ SaveGPUTexture(t, pendingPixmap[t])
        /\ Go(IF handler'[t] = "uploaded" THEN "reset" ELSE "fetch")
        /\ UNCHANGED <<made, ref, pendingPixmap, killer, stored, cache, drop, drawn, context>>

\* The pending image goes once its upload succeeded, and is kept otherwise.
ResetPending ==
    /\ At("reset")
    /\ pendingPixmap' = [pendingPixmap EXCEPT ![gpu.texture] = None]
    /\ Go("fetch")
    /\ UNCHANGED <<made, ref, handler, gpuRef, content, killer, stored, cache, drop, drawn,
                   context>>

\* QueryGPUTexture: the draw holds the GPU texture, or falls back to a solid
\* colour when there is none.
FetchGPUTexture ==
    LET t == gpu.texture
    IN  /\ At("fetch")
        /\ IF handler[t] = "uploaded"
           THEN /\ gpuRef' = [gpuRef EXCEPT ![t] = @ \cup {"frame"}]
                /\ drawn' = IF gpu.image = None THEN drawn
                            ELSE drawn \cup {<<gpu.image, content[t]>>}
           ELSE UNCHANGED <<gpuRef, drawn>>
        /\ gpu' = GpuIdle
        /\ UNCHANGED <<made, ref, handler, content, pendingPixmap, killer, stored, cache, drop,
                       context>>

\* The application uploads an image itself, on the GPU thread.
UploadImage(t, p) ==
    /\ At("idle")
    /\ "app" \in ref[t]
    /\ context
    /\ SaveGPUTexture(t, p)
    /\ gpu' = [at |-> IF handler'[t] = "uploaded" THEN "returned" ELSE "idle",
               texture |-> t, image |-> p]
    /\ UNCHANGED <<made, ref, pendingPixmap, killer, stored, cache, drop, drawn, context>>

ReturnFromUpload ==
    /\ At("returned")
    /\ gpu' = GpuIdle
    /\ UNCHANGED <<made, textureVars, stored, cache, drop, drawn, context>>

-----------------------------------------------------------------------------
(* The GPU thread ends a frame (GPUSurfaceImpl::Flush) *)

\* ClearGPUTextures lets go of the pixmap textures ...
ClearTextureCache ==
    LET dying == {t \in Textures : Dies(t, {"cache"})}
    IN  /\ At("idle")
        /\ context
        /\ cache' = [p \in Pixmaps |-> None]
        /\ ref' = [t \in Textures |-> ref[t] \ {"cache"}]
        /\ DropTextures(dying, "gpu")
        /\ Go("clear")
        /\ UNCHANGED <<made, content, pendingPixmap, stored, drop, drawn, context>>

(* Seeded fault: the release queue is never emptied.                       *)
KeepReleaseQueue ==
    /\ At("clear")
    /\ Go("arena")
    /\ UNCHANGED <<made, textureVars, stored, cache, drop, drawn, context>>

\* ... and empties the release queue under the lock.
ClearReleaseQueue ==
    /\ At("clear")
    /\ ReleaseGPUTextures({"queue"}, "gpu")
    /\ Go("arena")
    /\ UNCHANGED <<made, ref, handler, content, pendingPixmap, stored, cache, drop, drawn,
                   context>>

\* Resetting the arena destroys the draws, with the images and the GPU
\* textures they hold.  A texture that dies here waits in the queue for the
\* end of the next frame.
ResetArena ==
    LET dying == {t \in Textures : Dies(t, {"frame"})}
        queued == {t \in dying : "map" \in gpuRef[t]}
        left(t) == IF t \in queued THEN (gpuRef[t] \ {"map", "frame"}) \cup {"queue"}
                   ELSE gpuRef[t] \ {"frame"}
    IN  /\ At("arena")
        /\ ref' = [t \in Textures |-> ref[t] \ {"frame"}]
        /\ handler' = [t \in Textures |-> IF t \in dying THEN "absent" ELSE handler[t]]
        /\ gpuRef' = [t \in Textures |-> left(t)]
        /\ killer' = [t \in Textures |-> IF gpuRef[t] # {} /\ left(t) = {} THEN "gpu"
                                         ELSE killer[t]]
        /\ drawn' = {}
        /\ gpu' = GpuIdle
        /\ UNCHANGED <<made, content, pendingPixmap, stored, cache, drop, context>>

\* The context is destroyed between two frames.  ~TextureManager destroys
\* all GPU textures, unless a thread in ~TextureImpl holds the manager.
DestroyContext ==
    /\ At("idle")
    /\ context
    /\ \A t \in Textures : /\ ref[t] \subseteq {"app"}
                           /\ "frame" \notin gpuRef[t]
    /\ context' = FALSE
    /\ IF \E t \in Textures : drop[t] # "no"
       THEN UNCHANGED <<handler, gpuRef, killer>>
       ELSE /\ ReleaseGPUTextures({"map", "queue"}, "gpu")
            /\ handler' = [t \in Textures |-> "absent"]
    /\ UNCHANGED <<made, ref, content, pendingPixmap, stored, cache, drop, gpu, drawn>>

-----------------------------------------------------------------------------
App == \E t \in Textures :
          \/ CreateTexture(t)
          \/ ReleaseTexture(t)
          \/ DropTexture(t)
          \/ FinishDrop(t)
          \/ \E p \in Pixmaps : DeferredUploadImage(t, p) \/ WrapTexture(t, p)

Flush == ClearTextureCache \/ ClearReleaseQueue \/ ResetArena

Draw == \/ \E t \in Textures : DrawTexture(t)
        \/ \E p \in Pixmaps : DrawPixmap(p)
        \/ UploadPixmap
        \/ QueryState
        \/ CommitDeferredImageUpload
        \/ ResetPending
        \/ FetchGPUTexture

Upload == \/ \E t \in Textures, p \in Pixmaps : UploadImage(t, p)
          \/ ReturnFromUpload

TexturesNext == App \/ Draw \/ Flush \/ Upload \/ DestroyContext

TexturesSpec == TexturesInit /\ [][TexturesNext]_managerVars

-----------------------------------------------------------------------------
(* Properties *)

\* While the context lives the manager has an entry for a texture exactly as
\* long as the texture is alive: the CHECK of GetGPUTexture holds and no entry
\* stays behind, whichever thread drops the texture and whenever.  As long as
\* an entry has no GPU texture, however often making one fails, the texture
\* keeps the image stored for it.
EntriesFollowTextures ==
    context => \A t \in made :
        /\ handler[t] # "absent" <=> (ref[t] # {} \/ drop[t] = "locked")
        /\ handler[t] = "created" => pendingPixmap[t] = stored[t]

\* Whoever lets go last of a texture, while the context lives its GPU texture
\* is destroyed on the GPU thread, the only one that may call the graphics API;
\* and once neither the context nor a running destructor holds the manager, no
\* GPU texture is left that only the manager knew of.
GPUTexturesDieOnTheGPUThread ==
    /\ context => \A t \in Textures : killer[t] # "app"
    /\ ~ManagerLives => \A t \in Textures : gpuRef[t] = {}

\* A pixmap image is drawn from a GPU texture that holds that pixmap.
PixmapsAreDrawnRight == \A d \in drawn : d[1] = d[2]

\* The GPU texture of a texture that died is destroyed in the end if frames
\* go on being flushed.
DroppedTexturesAreFreed ==
    \A t \in Textures : (t \in made /\ ref[t] = {}) ~> (gpuRef[t] = {})
=============================================================================
