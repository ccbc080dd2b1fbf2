--------------------------- MODULE VulkanPresenter ---------------------------
(***************************************************************************)
(* Presentation with Vulkan: GPUPresenterVK and its frame slots, the       *)
(* window that replaces it (GPUNativeWindowVKImpl), and the application    *)
(* that acquires, renders and presents, on top of VulkanSubmission.        *)
(*                                                                         *)
(* Each frame slot owns a fence, lent to the submission that renders the   *)
(* frame, and a semaphore that the presentation engine signals when the    *)
(* acquired image may be written; each image has a semaphore that the      *)
(* presentation waits for. The engine belongs to the driver.               *)
(***************************************************************************)
EXTENDS VulkanSubmission, SequencesExt

CONSTANTS
  Images,  \* Images of the swapchain.
  NoImage  \* Not an image.

(* CreateFrameSlots makes at least two.                                    *)
SlotCount == IF Cardinality(Images) < 2 THEN 2 ELSE Cardinality(Images)
Slots == 0 .. SlotCount - 1
NoSlot == SlotCount

(* The fence and the acquire semaphore of a slot bear the name of the slot,*)
(* the present semaphore of an image that of the image.                    *)
OneAcquireSemaphore(slot) == 0  \* Seeded fault: all slots share one.
AcquireSemaphore(slot) == slot
PresentSemaphore(i) == i

ASSUME ImagesAreFinite == IsFiniteSet(Images) /\ NoImage \notin Images
ASSUME SlotsLendFences == SurfaceFences = Slots
ASSUME SemaphoresAreDistinct ==
  Slots \cap Images = {} /\ Semaphores = Slots \cup Images

VARIABLES
  call,         \* where the thread stands in a call of the presenter
  frame,        \* current_frame_
  target,       \* image of the frame the application renders
  outstanding,  \* has_outstanding_surface_
  broken,       \* broken_
  imageFence,   \* image_in_flight_fences_
  acquired,     \* images that the engine gave and did not get back
  engine        \* operations that the presentation engine has yet to do

windowVars == <<call, frame, target, outstanding, broken, imageFence, acquired,
                engine>>

vars == <<submissionVars, windowVars>>

Calls == {"none", "waitSlot", "acquireImage", "waitImage", "waitIdle",
          "collect", "destroy"}

PresenterTypeOK ==
  /\ TypeOK
  /\ call \in Calls
  /\ frame \in Slots
  /\ target \in Images \cup {NoImage}
  /\ outstanding \in BOOLEAN
  /\ broken \in BOOLEAN
  /\ imageFence \in [Images -> Slots \cup {NoSlot}]
  /\ acquired \subseteq Images
  /\ engine \in Seq([image : Images, slot : Slots \cup {NoSlot}])

Init ==
  /\ SubmissionInit
  /\ call = "none"
  /\ frame = 0
  /\ target = NoImage
  /\ outstanding = FALSE
  /\ broken = FALSE
  /\ imageFence = [i \in Images |-> NoSlot]
  /\ acquired = {}
  /\ engine = <<>>

(* What the engine is asked to do with an image: to signal the acquire      *)
(* semaphore of a slot when the image may be written, or to present it.     *)
Release(i, slot) == [image |-> i, slot |-> slot]
Presentation(i) == [image |-> i, slot |-> NoSlot]

(* The thread is in application code.                                      *)
Idle == call = "none" /\ thread = "running"

(* The application holds a surface for the image it acquired.              *)
HoldsSurface == call = "none" /\ target # NoImage

-----------------------------------------------------------------------------
(* GPUPresenterVK::AcquireNextSurface.                                     *)

(* The checks that come first: with an outstanding surface the result is   *)
(* kError, with a broken presenter kNeedRecreate, and nothing changes. The *)
(* application has no surface of this presenter when it acquires one.      *)
BeginAcquire ==
  /\ Idle
  /\ target = NoImage
  /\ ~outstanding
  /\ ~broken
  /\ call' = "waitSlot"
  /\ UNCHANGED submissionVars
  /\ UNCHANGED <<frame, target, outstanding, broken, imageFence, acquired,
                 engine>>

(* vkWaitForFences and vkResetFences on the slot's fence; when either      *)
(* fails the call returns and nothing has changed.                         *)
WaitSlot ==
  /\ call = "waitSlot"
  /\ FenceIsSignaled(frame)
  /\ \/ ArmFence(frame) /\ call' = "acquireImage"
     \/ UNCHANGED <<command, pools, held, used, referenced, pending, fence,
                    semaphore, queue, armed>> /\ call' = "none"
  /\ UNCHANGED <<thread, frame, target, outstanding, broken, imageFence,
                 acquired, engine>>

(* vkAcquireNextImageKHR. The engine may give an image that it still has   *)
(* to present: it signals the semaphore when the image is free.            *)
AcquireImage(i) ==
  /\ call = "acquireImage"
  /\ i \notin acquired
  /\ acquired' = acquired \cup {i}
  /\ engine' = Append(engine, Release(i, frame))
  /\ target' = i
  /\ call' = "waitImage"
  /\ UNCHANGED submissionVars
  /\ UNCHANGED <<frame, outstanding, broken, imageFence>>

(* VK_SUBOPTIMAL_KHR: the image is acquired, and abandoned.                *)
AcquireSuboptimal(i) ==
  /\ call = "acquireImage"
  /\ i \notin acquired
  /\ acquired' = acquired \cup {i}
  /\ engine' = Append(engine, Release(i, frame))
  /\ broken' = TRUE
  /\ call' = "none"
  /\ UNCHANGED submissionVars
  /\ UNCHANGED <<frame, target, outstanding, imageFence>>

(* Seeded fault: the presenter is not marked broken.                       *)
AcquireFailsUnmarked ==
  /\ call = "acquireImage"
  /\ call' = "none"
  /\ UNCHANGED submissionVars
  /\ UNCHANGED <<frame, target, outstanding, broken, imageFence, acquired,
                 engine>>

(* VK_ERROR_OUT_OF_DATE_KHR and errors.                                    *)
AcquireFails ==
  /\ call = "acquireImage"
  /\ broken' = TRUE
  /\ call' = "none"
  /\ UNCHANGED submissionVars
  /\ UNCHANGED <<frame, target, outstanding, imageFence, acquired, engine>>

(* The fence of the slot that last used the image is signaled, unless it   *)
(* is the current slot's.                                                  *)
ImageIsUnwaited(i) == TRUE  \* Seeded fault: no wait for the image's fence.
ImageIsIdle(i) ==
  imageFence[i] \notin {NoSlot, frame} => FenceIsSignaled(imageFence[i])

(* Then the image is wrapped in a texture and a surface, which may fail.   *)
WaitImage ==
  /\ call = "waitImage"
  /\ ImageIsIdle(target)
  /\ imageFence' = [imageFence EXCEPT ![target] = frame]
  /\ \/ outstanding' = TRUE /\ UNCHANGED <<target, broken>>
     \/ broken' = TRUE /\ target' = NoImage /\ UNCHANGED outstanding
  /\ call' = "none"
  /\ UNCHANGED submissionVars
  /\ UNCHANGED <<frame, acquired, engine>>

-----------------------------------------------------------------------------
(* What the application does with a surface.                               *)

(* Seeded fault: the submission does not wait for the acquired image.      *)
RenderAtOnce(c) ==
  /\ HoldsSurface
  /\ Submit(c, frame, {}, {PresentSemaphore(target)})
  /\ UNCHANGED windowVars

(* HWCanvas::OnFlush submits once per locked canvas, with the submit info  *)
(* of the surface.                                                         *)
Render(c) ==
  /\ HoldsSurface
  /\ Submit(c, frame, {AcquireSemaphore(frame)}, {PresentSemaphore(target)})
  /\ UNCHANGED windowVars

NextSlot == (frame + 1) % SlotCount

(* GPUPresenterVK::Present. OnFlush does not report a submission that      *)
(* failed, so the surface may come unrendered. The frame is over whether   *)
(* vkQueuePresentKHR succeeds or not.                                      *)
Present ==
  /\ Idle
  /\ HoldsSurface
  /\ outstanding
  /\ engine' = Append(engine, Presentation(target))
  /\ acquired' = acquired \ {target}
  /\ outstanding' = FALSE
  /\ frame' = NextSlot
  /\ broken' \in {broken, TRUE}
  /\ target' = NoImage
  /\ UNCHANGED submissionVars
  /\ UNCHANGED <<call, imageFence>>

(* The application drops the surface: ~GPUSurfaceVK tells the presenter    *)
(* nothing.                                                                *)
Discard ==
  /\ Idle
  /\ HoldsSurface
  /\ target' = NoImage
  /\ UNCHANGED submissionVars
  /\ UNCHANGED <<call, frame, outstanding, broken, imageFence, acquired,
                 engine>>

-----------------------------------------------------------------------------
(* GPUNativeWindowVKImpl::RecreatePresenter. The new presenter's objects   *)
(* are made first; then ~GPUPresenterVK runs Reset on the old presenter,   *)
(* or on the new one when its Init failed.                                 *)

BeginRecreate ==
  /\ Idle
  /\ target = NoImage
  /\ call' = "waitIdle"
  /\ UNCHANGED submissionVars
  /\ UNCHANGED <<frame, target, outstanding, broken, imageFence, acquired,
                 engine>>

(* vkDeviceWaitIdle, which does not cover presentations.                   *)
WaitIdle ==
  /\ call = "waitIdle"
  /\ queue = <<>>
  /\ call' = "collect"
  /\ UNCHANGED submissionVars
  /\ UNCHANGED <<frame, target, outstanding, broken, imageFence, acquired,
                 engine>>

(* Seeded fault: Reset does not wait for the pending submissions.          *)
ResetForgets ==
  /\ call = "collect"
  /\ call' = "destroy"
  /\ UNCHANGED submissionVars
  /\ UNCHANGED <<frame, target, outstanding, broken, imageFence, acquired,
                 engine>>

(* CollectPendingSubmissions(true).                                        *)
ResetCollects ==
  /\ call = "collect"
  /\ IF pending = {} THEN UNCHANGED submissionVars ELSE BeginWaitAll
  /\ call' = "destroy"
  /\ UNCHANGED <<frame, target, outstanding, broken, imageFence, acquired,
                 engine>>

(* Reset of the old presenter ends: in its place the window has one with a *)
(* swapchain, fences and semaphores of its own.                            *)
EndRecreate ==
  /\ call = "destroy"
  /\ thread = "running"
  /\ fence' = [f \in Fences |-> IF f \in Slots THEN "signaled" ELSE fence[f]]
  /\ armed' = armed \ Slots
  /\ semaphore' = [s \in Semaphores |-> "unsignaled"]
  /\ frame' = 0
  /\ outstanding' = FALSE
  /\ broken' = FALSE
  /\ imageFence' = [i \in Images |-> NoSlot]
  /\ acquired' = {}
  /\ engine' = <<>>
  /\ call' = "none"
  /\ UNCHANGED <<command, pools, held, used, referenced, pending, queue, thread,
                 target>>

(* Reset of a new presenter ends, and the window keeps the old one.        *)
RecreateFails ==
  /\ call = "destroy"
  /\ thread = "running"
  /\ call' = "none"
  /\ UNCHANGED submissionVars
  /\ UNCHANGED <<frame, target, outstanding, broken, imageFence, acquired,
                 engine>>

-----------------------------------------------------------------------------
(* The presentation engine.                                                *)

(* The operations of one image are done in the order they were asked for.  *)
IsNext(n) ==
  /\ n \in DOMAIN engine
  /\ \A m \in 1 .. n - 1 : engine[m].image # engine[n].image

(* The image is free to be written: its earlier presentations are over.    *)
SignalAcquire(n) ==
  /\ IsNext(n)
  /\ engine[n].slot # NoSlot
  /\ semaphore' = [semaphore EXCEPT
                     ![AcquireSemaphore(engine[n].slot)] = "signaled"]

ExecutePresent(n) ==
  /\ IsNext(n)
  /\ engine[n].slot = NoSlot
  /\ LET s == PresentSemaphore(engine[n].image)
     IN  /\ semaphore[s] = "signaled"
         /\ semaphore' = [semaphore EXCEPT ![s] = "unsignaled"]

EngineStep ==
  \E n \in 1 .. Len(engine) :
    /\ SignalAcquire(n) \/ ExecutePresent(n)
    /\ engine' = RemoveAt(engine, n)
    /\ UNCHANGED <<command, pools, held, used, referenced, pending, fence,
                   queue, armed, thread>>
    /\ UNCHANGED <<call, frame, target, outstanding, broken, imageFence,
                   acquired>>

-----------------------------------------------------------------------------
(* Command buffers while no call of the presenter runs: those of frames,   *)
(* those that upload or read back with fences of their own, and the wait   *)
(* for the whole list that ends a read-back.                               *)
UseCommandBuffers ==
  /\ call = "none"
  /\ \/ \E c \in Commands :
          \/ InitCommandBuffer(c)
          \/ Submit(c, c, {}, {})
          \/ SubmitFails(c)
          \/ DestroyCommandBuffer(c)
     \/ CollectAfterSubmit
     \/ BeginWaitAll
  /\ UNCHANGED windowVars

WaitsForList == EndWaitAll /\ UNCHANGED windowVars

GpuStep == CompleteBatch /\ UNCHANGED windowVars

AcquireStep ==
  \/ WaitSlot
  \/ \E i \in Images : AcquireImage(i) \/ AcquireSuboptimal(i)
  \/ AcquireFails
  \/ WaitImage

RecreateStep == WaitIdle \/ ResetCollects \/ EndRecreate \/ RecreateFails

Next ==
  \/ BeginAcquire
  \/ AcquireStep
  \/ \E c \in Commands : Render(c)
  \/ Present
  \/ Discard
  \/ BeginRecreate
  \/ RecreateStep
  \/ UseCommandBuffers
  \/ WaitsForList
  \/ GpuStep
  \/ EngineStep

Spec == Init /\ [][Next]_vars

(* The driver executes submissions and presentations, and the thread goes  *)
(* on with the call it is in when nothing holds it back.                   *)
Fairness ==
  /\ WF_vars(GpuStep)
  /\ WF_vars(EngineStep)
  /\ WF_vars(AcquireStep)
  /\ WF_vars(RecreateStep)
  /\ WF_vars(WaitsForList)

FairSpec == Spec /\ Fairness

-----------------------------------------------------------------------------
(* Properties.                                                             *)

BatchSignals(s) == {n \in DOMAIN queue : s \in queue[n].signals}
BatchWaits(s) == {n \in DOMAIN queue : s \in queue[n].waits}

(* A slot is reused only when the GPU is done with its last frame: the     *)
(* fence that AcquireNextSurface resets is not one the queue will signal,  *)
(* and the semaphore it hands to vkAcquireNextImageKHR has no wait or      *)
(* signal outstanding.                                                     *)
SlotIsDoneWhenReused ==
  /\ armed \cap QueuedFences = {}
  /\ call = "acquireImage" =>
       /\ semaphore[AcquireSemaphore(frame)] = "unsignaled"
       /\ BatchWaits(AcquireSemaphore(frame)) = {}
       /\ \A n \in DOMAIN engine : engine[n].slot # frame

(* When a batch runs, the presentation that last waited for the semaphore  *)
(* the batch signals has executed: reusing a semaphore per image is safe,  *)
(* and the batch does not write an image that is being shown.              *)
PresentSemaphoresAlternate ==
  queue # <<>> =>
    LET batch == Head(queue)
    IN  (\A s \in batch.waits : semaphore[s] = "signaled") =>
          \A s \in batch.signals : semaphore[s] = "unsignaled"

(* Nothing on the queue still writes the image of a surface that the       *)
(* application has yet to render.                                          *)
HandedOutImageIsIdle ==
  HoldsSurface /\ frame \in armed =>
    BatchSignals(PresentSemaphore(target)) = {}

(* Reset destroys fences and semaphores when neither the queue nor the     *)
(* pending submissions refer to them.                                      *)
ResetDestroysNothingInUse ==
  call = "destroy" /\ thread = "running" => queue = <<>> /\ pending = {}

(* Everything presented so far was rendered: for each presentation that    *)
(* the engine has yet to do, its semaphore was or will be signaled.        *)
PresentationsAreRendered ==
  \A i \in Images :
    LET s == PresentSemaphore(i)
        signals == IF semaphore[s] = "signaled" THEN 1 ELSE 0
    IN  Cardinality({n \in DOMAIN engine : engine[n] = Presentation(i)})
          <= signals + Cardinality(BatchSignals(s))

(* AcquireNextSurface does not block forever, however many frames are in   *)
(* flight and whatever failed before, when the application rendered what   *)
(* it presented.                                                           *)
AcquireReturns ==
  /\ call \in {"waitSlot", "acquireImage", "waitImage"}
  /\ PresentationsAreRendered
  ~> call = "none"

(* Replacing a presenter whose last acquire and frames succeeded does not  *)
(* block forever.                                                          *)
RecreateReturns == (call = "waitIdle" /\ armed = {}) ~> call = "none"

(* A broken presenter "fails fast instead of dead waiting on the           *)
(* unsignaled fence", and asks to be recreated: recreating it returns.     *)
BrokenPresenterIsReplaced ==
  call = "waitIdle" /\ broken /\ PresentationsAreRendered ~> call = "none"

=============================================================================
