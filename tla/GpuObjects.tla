----------------------------- MODULE GpuObjects -----------------------------
(***************************************************************************)
(* Three views of the GPU objects of a context: what submissions keep      *)
(* alive until the GPU is done (VulkanSubmission), which thread makes and  *)
(* destroys textures (TextureManager), and what the images of textures     *)
(* hold when commands get to them (VulkanImages).  They share no state     *)
(* here, so a behaviour is of one of them.                                 *)
(***************************************************************************)
EXTENDS VulkanSubmission, TextureManager, VulkanImages

VARIABLE view

objectVars == <<view, submissionVars, managerVars, imageVars>>

GpuObjectsInit ==
    /\ view \in {"submissions", "textures", "images"}
    /\ SubmissionInit
    /\ TexturesInit
    /\ ImagesInit

SubmissionStep == /\ view = "submissions"
                  /\ SubmissionNext
                  /\ UNCHANGED <<view, managerVars, imageVars>>

TexturesStep == /\ view = "textures"
                /\ TexturesNext
                /\ UNCHANGED <<view, submissionVars, imageVars>>

ImagesStep == /\ view = "images"
              /\ ImagesNext
              /\ UNCHANGED <<view, submissionVars, managerVars>>

\* The driver executes what was submitted, producers signal what was promised,
\* and a thread that stands in a call goes on when it can.
SubmissionsGoOn ==
    /\ WF_submissionVars(view = "submissions" /\ CompleteBatch)
    /\ WF_submissionVars(view = "submissions" /\ CollectAfterSubmit)
    /\ WF_submissionVars(view = "submissions" /\ EndWaitAll)
    /\ \A s \in Semaphores : WF_submissionVars(view = "submissions" /\ ProduceSemaphore(s))

\* Threads do not stop inside of a call, and while the context lives frames
\* keep being flushed.
TexturesGoOn ==
    /\ SF_managerVars(view = "textures" /\ ClearTextureCache)
    /\ WF_managerVars(view = "textures" /\ UploadPixmap)
    /\ WF_managerVars(view = "textures" /\ QueryState)
    /\ WF_managerVars(view = "textures" /\ CommitDeferredImageUpload)
    /\ WF_managerVars(view = "textures" /\ ResetPending)
    /\ WF_managerVars(view = "textures" /\ FetchGPUTexture)
    /\ WF_managerVars(view = "textures" /\ ReturnFromUpload)
    /\ WF_managerVars(view = "textures" /\ ClearReleaseQueue)
    /\ WF_managerVars(view = "textures" /\ ResetArena)
    /\ \A t \in Textures : /\ WF_managerVars(view = "textures" /\ DropTexture(t))
                           /\ WF_managerVars(view = "textures" /\ FinishDrop(t))

GpuObjectsSpec ==
    /\ GpuObjectsInit
    /\ [][SubmissionStep \/ TexturesStep \/ ImagesStep]_objectVars
    /\ SubmissionsGoOn
    /\ TexturesGoOn
=============================================================================
