-------------------------- MODULE VulkanSubmission --------------------------
(***************************************************************************)
(* Command buffers of the Vulkan backend (GPUCommandBufferVK) and the list *)
(* of pending submissions of the context (VulkanContextState), which keeps *)
(* alive everything a submitted command buffer uses until the fence of the *)
(* submission tells that the GPU is done with it.                          *)
(*                                                                         *)
(* One thread drives the context; the graphics queue runs concurrently.    *)
(* The queue, the fences and the semaphores belong to the driver and are   *)
(* modelled from the calls that use them.                                  *)
(***************************************************************************)
EXTENDS Naturals, Sequences, FiniteSets

CONSTANTS
  Commands,       \* Command buffers, each named with its command pool.
  Resources,      \* Objects behind a shared_ptr that recorded commands use.
  SurfaceFences,  \* Fences that a surface lends through its submit info.
  Semaphores      \* Semaphores named in submit infos.

(* The fence that a command buffer creates when its submit info names none *)
(* bears the name of the command buffer.                                   *)
ASSUME FencesAreDistinct == Commands \cap SurfaceFences = {}

Fences == Commands \cup SurfaceFences

VARIABLES
  command,     \* recording_ and submitted_ of each command buffer object
  pools,       \* command pools that exist
  held,        \* stage_buffers_ and cleanup_actions_ of each object
  used,        \* what the commands recorded in each pool read or write
  referenced,  \* resources that caches, surfaces or the application refer to
  pending,     \* pending_submissions_
  fence,       \* state of each fence, "none" where it does not exist
  semaphore,   \* state of each semaphore
  queue,       \* batches the graphics queue has not completed
  armed,       \* lent fences that were reset and not submitted since
  thread       \* where the context's thread stands

submissionVars == <<command, pools, held, used, referenced, pending, fence,
                    semaphore, queue, armed, thread>>

Submission == [command : Commands, fence : Fences, held : SUBSET Resources]
Batch == [command : Commands, fence : Fences,
          waits : SUBSET Semaphores, signals : SUBSET Semaphores]

TypeOK ==
  /\ command \in [Commands -> {"none", "recording", "ended", "submitted"}]
  /\ pools \subseteq Commands
  /\ held \in [Commands -> SUBSET Resources]
  /\ used \in [Commands -> SUBSET Resources]
  /\ referenced \subseteq Resources
  /\ pending \subseteq Submission
  /\ fence \in [Fences -> {"none", "unsignaled", "signaled"}]
  /\ semaphore \in [Semaphores -> {"unsignaled", "signaled"}]
  /\ queue \in Seq(Batch)
  /\ armed \subseteq SurfaceFences
  /\ thread \in {"running", "collect", "waitAll"}

SubmissionInit ==
  /\ command = [c \in Commands |-> "none"]
  /\ pools = {}
  /\ held = [c \in Commands |-> {}]
  /\ used = [c \in Commands |-> {}]
  /\ referenced = {}
  /\ pending = {}
  /\ fence = [f \in Fences |-> IF f \in SurfaceFences THEN "signaled" ELSE "none"]
  /\ semaphore = [s \in Semaphores |-> "unsignaled"]
  /\ queue = <<>>
  /\ armed = {}
  /\ thread = "running"

-----------------------------------------------------------------------------
(* What outlives what.                                                     *)

SignaledUnchecked(p) == TRUE  \* Seeded fault: the fence is not queried.
Signaled(p) == fence[p.fence] = "signaled"

(* A fence is destroyed with its submission when the submission owns it.   *)
OwnsAnyFence(p) == TRUE  \* Seeded fault: owns_fence is left at its default.
OwnsFence(p) == p.fence = p.command

PendingCommands == {p.command : p \in pending}
QueuedFences == {queue[i].fence : i \in DOMAIN queue}
QueuedCommands == {queue[i].command : i \in DOMAIN queue}

(* Somebody still holds a reference to the resource.                       *)
Alive(r) ==
  \/ r \in referenced
  \/ \E c \in Commands : r \in held[c]
  \/ \E p \in pending : r \in p.held

(* Seeded fault: the handle of a destroyed fence is kept.                  *)
ReclaimKeepingHandles(completed) ==
  /\ pending' = pending \ completed
  /\ fence' = [f \in Fences |->
                 IF \E p \in completed : p.fence = f /\ OwnsFence(p)
                 THEN "destroyed" ELSE fence[f]]

(* The end of CollectPendingSubmissions: the owned fences of the completed *)
(* submissions are destroyed, their references dropped and their command   *)
(* pools destroyed.                                                        *)
Reclaim(completed) ==
  /\ pending' = pending \ completed
  /\ fence' = [f \in Fences |->
                 IF \E p \in completed : p.fence = f /\ OwnsFence(p)
                 THEN "none" ELSE fence[f]]

PoolsOf(submissions) == {p.command : p \in submissions}

Completed == {p \in pending : Signaled(p)}

-----------------------------------------------------------------------------
(* Resources outside the command buffers.                                  *)

CreateResource(r) ==
  /\ thread = "running"
  /\ ~Alive(r)
  /\ referenced' = referenced \cup {r}
  /\ UNCHANGED <<command, pools, held, used, pending, fence, semaphore, queue,
                 armed, thread>>

ReleaseResource(r) ==
  /\ thread = "running"
  /\ r \in referenced
  /\ referenced' = referenced \ {r}
  /\ UNCHANGED <<command, pools, held, used, pending, fence, semaphore, queue,
                 armed, thread>>

-----------------------------------------------------------------------------
(* GPUCommandBufferVK.                                                     *)

(* Init reclaims first, whether it then gets its pool or not.              *)
InitCommandBuffer(c) ==
  /\ thread = "running"
  /\ command[c] = "none"
  /\ c \notin PoolsOf(pending \ Completed)
  /\ Reclaim(Completed)
  /\ \/ /\ command' = [command EXCEPT ![c] = "recording"]
        /\ pools' = (pools \ PoolsOf(Completed)) \cup {c}
        /\ used' = [used EXCEPT ![c] = {}]
     \/ /\ pools' = pools \ PoolsOf(Completed)
        /\ UNCHANGED <<command, used>>
  /\ UNCHANGED <<held, referenced, semaphore, queue, armed, thread>>

(* Seeded fault: the pass does not hold what it uses.                      *)
RecordUseUnheld(c, r) ==
  /\ thread = "running"
  /\ command[c] = "recording"
  /\ Alive(r)
  /\ used' = [used EXCEPT ![c] = @ \cup {r}]
  /\ UNCHANGED <<command, pools, held, referenced, pending, fence, semaphore,
                 queue, armed, thread>>

(* A pass records commands and leaves a reference to what they use with    *)
(* the command buffer: RecordStageBuffer, RecordCleanupAction and          *)
(* HoldResource.                                                           *)
RecordUse(c, r) ==
  /\ thread = "running"
  /\ command[c] = "recording"
  /\ Alive(r)
  /\ used' = [used EXCEPT ![c] = @ \cup {r}]
  /\ held' = [held EXCEPT ![c] = @ \cup {r}]
  /\ UNCHANGED <<command, pools, referenced, pending, fence, semaphore, queue,
                 armed, thread>>

(* Submit up to and including EnqueuePendingSubmission; the reclaiming     *)
(* that ends it is the next step of the thread. f is the lent fence, or c  *)
(* for the fence that Submit creates.                                      *)
Submit(c, f, waits, signals) ==
  /\ thread = "running"
  /\ command[c] = "recording"
  /\ f = c \/ f \in armed
  /\ command' = [command EXCEPT ![c] = "submitted"]
  /\ fence' = IF f = c THEN [fence EXCEPT ![c] = "unsignaled"] ELSE fence
  /\ queue' = Append(queue, [command |-> c, fence |-> f,
                             waits |-> waits, signals |-> signals])
  /\ pending' = pending \cup {[command |-> c, fence |-> f, held |-> held[c]]}
  /\ held' = [held EXCEPT ![c] = {}]
  /\ armed' = armed \ {f}
  /\ thread' = "collect"
  /\ UNCHANGED <<pools, used, referenced, semaphore>>

(* Seeded fault: the submission is enqueued before vkQueueSubmit fails.    *)
SubmitFailsEnqueued(c) ==
  /\ thread = "running"
  /\ command[c] = "recording"
  /\ command' = [command EXCEPT ![c] = "submitted"]
  /\ fence' = [fence EXCEPT ![c] = "unsignaled"]
  /\ pending' = pending \cup {[command |-> c, fence |-> c, held |-> held[c]]}
  /\ held' = [held EXCEPT ![c] = {}]
  /\ UNCHANGED <<pools, used, referenced, semaphore, queue, armed, thread>>

(* vkEndCommandBuffer failed: the object keeps recording. Any later        *)
(* failure leaves it neither recording nor submitted.                      *)
SubmitFails(c) ==
  /\ thread = "running"
  /\ command[c] = "recording"
  /\ command' \in {command, [command EXCEPT ![c] = "ended"]}
  /\ UNCHANGED <<pools, held, used, referenced, pending, fence, semaphore,
                 queue, armed, thread>>

CollectAfterSubmit ==
  /\ thread = "collect"
  /\ Reclaim(Completed)
  /\ pools' = pools \ PoolsOf(Completed)
  /\ thread' = "running"
  /\ UNCHANGED <<command, held, used, referenced, semaphore, queue, armed>>

(* The destructor. Submit has handed the pool of a submitted command       *)
(* buffer and its references to the pending submission.                    *)
DestroyCommandBuffer(c) ==
  /\ thread = "running"
  /\ command[c] # "none"
  /\ command' = [command EXCEPT ![c] = "none"]
  /\ held' = [held EXCEPT ![c] = {}]
  /\ pools' = IF command[c] = "submitted" THEN pools ELSE pools \ {c}
  /\ UNCHANGED <<used, referenced, pending, fence, semaphore, queue, armed,
                 thread>>

-----------------------------------------------------------------------------
(* CollectPendingSubmissions(true): the thread waits for every fence of    *)
(* the list, without a timeout, and reclaims the whole list.               *)

BeginWaitAll ==
  /\ thread = "running"
  /\ pending # {}
  /\ thread' = "waitAll"
  /\ UNCHANGED <<command, pools, held, used, referenced, pending, fence,
                 semaphore, queue, armed>>

(* Seeded fault: lent fences are waited for before they are submitted.     *)
EndWaitForLentFences ==
  /\ thread = "waitAll"
  /\ armed = {}
  /\ \A p \in pending : Signaled(p)
  /\ Reclaim(pending)
  /\ pools' = pools \ PoolsOf(pending)
  /\ thread' = "running"
  /\ UNCHANGED <<command, held, used, referenced, semaphore, queue, armed>>

EndWaitAll ==
  /\ thread = "waitAll"
  /\ \A p \in pending : Signaled(p)
  /\ Reclaim(pending)
  /\ pools' = pools \ PoolsOf(pending)
  /\ thread' = "running"
  /\ UNCHANGED <<command, held, used, referenced, semaphore, queue, armed>>

-----------------------------------------------------------------------------
(* The owner of a lent fence and the driver.                               *)

(* The owner resets a fence that it has waited for.                        *)
FenceIsUnwaited(f) == TRUE  \* Seeded fault: the owner does not wait.
FenceIsSignaled(f) == fence[f] = "signaled"

ArmFence(f) ==
  /\ FenceIsSignaled(f)
  /\ fence' = [fence EXCEPT ![f] = "unsignaled"]
  /\ armed' = armed \cup {f}
  /\ UNCHANGED <<command, pools, held, used, referenced, pending, semaphore,
                 queue>>

(* The queue starts a batch when its semaphores are signaled, and signals  *)
(* fences in submission order.                                             *)
CompleteBatch ==
  /\ queue # <<>>
  /\ LET batch == Head(queue)
     IN  /\ \A s \in batch.waits : semaphore[s] = "signaled"
         /\ fence' = [fence EXCEPT ![batch.fence] = "signaled"]
         /\ semaphore' = [s \in Semaphores |->
                            IF s \in batch.signals THEN "signaled"
                            ELSE IF s \in batch.waits THEN "unsignaled"
                            ELSE semaphore[s]]
  /\ queue' = Tail(queue)
  /\ UNCHANGED <<command, pools, held, used, referenced, pending, armed,
                 thread>>

-----------------------------------------------------------------------------
(* The component on its own: surfaces lend fences that they reset, other   *)
(* GPU contexts signal the semaphores that submit infos wait for.          *)

LendFence(f) ==
  /\ thread = "running"
  /\ ArmFence(f)
  /\ UNCHANGED thread

ProduceSemaphore(s) ==
  /\ semaphore[s] = "unsignaled"
  /\ semaphore' = [semaphore EXCEPT ![s] = "signaled"]
  /\ UNCHANGED <<command, pools, held, used, referenced, pending, fence, queue,
                 armed, thread>>

(* A binary semaphore has one waiter at a time.                            *)
SubmitWaiting(c, f, waits) ==
  /\ \A i \in DOMAIN queue : queue[i].waits \cap waits = {}
  /\ Submit(c, f, waits, {})

SubmissionNext ==
  \/ \E r \in Resources : CreateResource(r) \/ ReleaseResource(r)
  \/ \E c \in Commands :
       \/ InitCommandBuffer(c)
       \/ \E r \in Resources : RecordUse(c, r)
       \/ \E f \in armed \cup {c}, waits \in SUBSET Semaphores :
            SubmitWaiting(c, f, waits)
       \/ SubmitFails(c)
       \/ DestroyCommandBuffer(c)
  \/ CollectAfterSubmit
  \/ BeginWaitAll
  \/ EndWaitAll
  \/ \E f \in SurfaceFences : LendFence(f)
  \/ \E s \in Semaphores : ProduceSemaphore(s)
  \/ CompleteBatch

SubmissionSpec == SubmissionInit /\ [][SubmissionNext]_submissionVars

-----------------------------------------------------------------------------
(* Properties.                                                             *)

(* Whatever is on the queue has a pending submission that keeps its        *)
(* command pool and everything its commands use: neither the destructor of *)
(* the command buffer, nor a dropped reference, nor reclaiming on a fence  *)
(* that tells of an earlier use takes it away.                             *)
InFlightWorkIsHeld ==
  \A i \in DOMAIN queue :
    /\ queue[i].command \in pools
    /\ \E p \in pending :
         /\ p.command = queue[i].command
         /\ p.fence = queue[i].fence
         /\ used[p.command] \subseteq p.held

(* The queue is never given a fence that is signaled or already in use,    *)
(* and no fence is destroyed while the queue has yet to signal it.         *)
FencesAreUsedOnce ==
  /\ \A i \in DOMAIN queue : fence[queue[i].fence] = "unsignaled"
  /\ \A i, j \in DOMAIN queue : queue[i].fence = queue[j].fence => i = j

(* Every command pool and every owned fence belongs to an object that will *)
(* destroy it, and lent fences are left to their owner.                    *)
NothingLeaks ==
  /\ pools = {c \in Commands : command[c] \in {"recording", "ended"}}
               \cup PendingCommands
  /\ \A c \in Commands :
       fence[c] # "none" <=> \E p \in pending : p.fence = c
  /\ \A f \in SurfaceFences : fence[f] # "none"

(* Waiting for the whole list can only hang on a lent fence that its owner *)
(* reset after the GPU signaled it, and has not submitted again.           *)
WaitAllHangsOnlyOnArmedFences ==
  \A p \in pending :
    Signaled(p) \/ p.fence \in QueuedFences \/ p.fence \in armed

(* CollectPendingSubmissions(true) returns unless such a fence is waited   *)
(* for.                                                                    *)
WaitAllReturns ==
  (thread = "waitAll" /\ \A p \in pending : p.fence \notin armed)
    ~> thread = "running"

(* The backend implements the promise of GpuWork.                          *)
Work == INSTANCE GpuWork WITH
  live <- {r \in Resources : Alive(r)},
  running <- {[command |-> queue[i].command, uses |-> used[queue[i].command]] :
                i \in DOMAIN queue}

ImplementsGpuWork == Work!Spec

=============================================================================
