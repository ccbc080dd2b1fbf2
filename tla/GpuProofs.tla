------------------------------ MODULE GpuProofs -----------------------------
(***************************************************************************)
(* Proofs about what uses the GPU.                                         *)
(*                                                                         *)
(* VulkanSubmission, for any number of command buffers, resources, lent    *)
(* fences and semaphores, and VulkanPresenter, for any number of swapchain *)
(* images and slots.  The presenter's steps are steps of VulkanSubmission, *)
(* or change only semaphores, or put new fences in the place of those of   *)
(* the slots, so that the invariant of submission carries over.            *)
(*                                                                         *)
(* TextureManager, for any number of textures and of pixmaps: the entries  *)
(* of the manager follow the textures whichever thread drops them, pixmaps *)
(* are drawn from their own GPU textures, and GPU textures are destroyed   *)
(* by the right thread.                                                    *)
(***************************************************************************)
EXTENDS VulkanPresenter, TextureManager, SequenceTheorems, FiniteSetTheorems, Induction

-----------------------------------------------------------------------------
(* Sequences.                                                              *)

(* Appending keeps the elements where they are and adds one at the end.    *)
LEMMA AppendElements ==
  ASSUME NEW S, NEW s \in Seq(S), NEW e \in S
  PROVE  /\ Append(s, e) \in Seq(S)
         /\ DOMAIN Append(s, e) = DOMAIN s \cup {Len(s) + 1}
         /\ Len(s) + 1 \notin DOMAIN s
         /\ \A i \in DOMAIN s : Append(s, e)[i] = s[i]
         /\ Append(s, e)[Len(s) + 1] = e
  OBVIOUS

(* The tail of a sequence has its elements but the first.                  *)
LEMMA TailElements ==
  ASSUME NEW S, NEW s \in Seq(S), s # <<>>
  PROVE  /\ Tail(s) \in Seq(S)
         /\ 1 \in DOMAIN s
         /\ Head(s) = s[1]
         /\ \A i \in DOMAIN Tail(s) : /\ i + 1 \in DOMAIN s
                                      /\ i + 1 # 1
                                      /\ Tail(s)[i] = s[i + 1]
<1>1. /\ Tail(s) \in Seq(S)
      /\ Len(Tail(s)) = Len(s) - 1
      /\ \A i \in 1 .. Len(Tail(s)) : Tail(s)[i] = s[i + 1]
  BY HeadTailProperties
<1>2. Len(s) \in Nat \ {0}
  BY EmptySeq
<1>3. DOMAIN s = 1 .. Len(s) /\ DOMAIN Tail(s) = 1 .. Len(Tail(s))
  BY <1>1, LenProperties
<1>. QED
  BY <1>1, <1>2, <1>3

-----------------------------------------------------------------------------
(* The inductive invariant: to the properties it adds who owns which fence *)
(* and which pool.                                                         *)

Ownership ==
  /\ \A p \in pending : OwnsFence(p) \/ p.fence \in SurfaceFences
  /\ \A p, q \in pending : p.command = q.command => p = q
  /\ \A c \in Commands :
       command[c] \in {"recording", "ended"} => c \notin PendingCommands
  /\ \A c \in Commands : command[c] = "recording" => used[c] \subseteq held[c]
  /\ \A f \in armed : fence[f] = "unsignaled" /\ f \notin QueuedFences

SubmissionInv ==
  /\ TypeOK
  /\ InFlightWorkIsHeld
  /\ FencesAreUsedOnce
  /\ NothingLeaks
  /\ WaitAllHangsOnlyOnArmedFences
  /\ Ownership

-----------------------------------------------------------------------------
(* Types.                                                                  *)

(* Reclaiming keeps the types of what it changes.                          *)
LEMMA ReclaimType ==
  ASSUME TypeOK, NEW completed \in SUBSET pending, Reclaim(completed)
  PROVE  /\ pending' \subseteq Submission
         /\ fence' \in [Fences -> {"none", "unsignaled", "signaled"}]
  BY DEF TypeOK, Reclaim

(* Submitting adds a batch and a submission of the right types.            *)
LEMMA SubmitType ==
  ASSUME TypeOK, NEW c \in Commands, NEW f \in armed \cup {c},
         NEW waits \in SUBSET Semaphores, NEW signals \in SUBSET Semaphores,
         Submit(c, f, waits, signals)
  PROVE  TypeOK'
<1>. DEFINE batch == [command |-> c, fence |-> f,
                      waits |-> waits, signals |-> signals]
            submission == [command |-> c, fence |-> f, held |-> held[c]]
<1>1. f \in Fences
  BY DEF TypeOK, Fences
<1>2. batch \in Batch /\ submission \in Submission
  BY <1>1 DEF Batch, Submission, TypeOK
<1>3. queue' \in Seq(Batch)
  BY <1>2, AppendElements DEF TypeOK, Submit
<1>4. pending' \subseteq Submission
  BY <1>2 DEF TypeOK, Submit
<1>. QED
  BY <1>1, <1>3, <1>4 DEF TypeOK, Submit

(* Every step of the backend and the driver keeps the types.               *)
LEMMA TypeStep == TypeOK /\ [SubmissionNext]_submissionVars => TypeOK'
<1>. SUFFICES ASSUME TypeOK, [SubmissionNext]_submissionVars
              PROVE  TypeOK'
  OBVIOUS
<1>. Completed \subseteq pending
  BY DEF Completed
<1>1. ASSUME NEW r \in Resources, CreateResource(r) \/ ReleaseResource(r)
      PROVE  TypeOK'
  BY <1>1 DEF TypeOK, CreateResource, ReleaseResource
<1>2. ASSUME NEW c \in Commands, InitCommandBuffer(c)
      PROVE  TypeOK'
  BY <1>2, ReclaimType DEF TypeOK, InitCommandBuffer
<1>3. ASSUME NEW c \in Commands, SubmitFails(c) \/ DestroyCommandBuffer(c)
      PROVE  TypeOK'
  BY <1>3 DEF TypeOK, SubmitFails, DestroyCommandBuffer
<1>4. ASSUME NEW c \in Commands, NEW r \in Resources, RecordUse(c, r)
      PROVE  TypeOK'
  BY <1>4 DEF TypeOK, RecordUse
<1>5. ASSUME NEW c \in Commands, NEW f \in armed \cup {c},
             NEW waits \in SUBSET Semaphores, SubmitWaiting(c, f, waits)
      PROVE  TypeOK'
  BY <1>5, SubmitType DEF SubmitWaiting
<1>6. CASE CollectAfterSubmit
  BY <1>6, ReclaimType DEF TypeOK, CollectAfterSubmit
<1>7. CASE BeginWaitAll
  BY <1>7 DEF TypeOK, BeginWaitAll
<1>8. CASE EndWaitAll
  BY <1>8, ReclaimType DEF TypeOK, EndWaitAll
<1>9. ASSUME NEW f \in SurfaceFences, LendFence(f)
      PROVE  TypeOK'
  BY <1>9 DEF TypeOK, LendFence, ArmFence
<1>10. ASSUME NEW s \in Semaphores, ProduceSemaphore(s)
       PROVE  TypeOK'
  BY <1>10 DEF TypeOK, ProduceSemaphore
<1>11. CASE CompleteBatch
  <2>1. queue' \in Seq(Batch)
    BY <1>11, TailElements DEF TypeOK, CompleteBatch
  <2>. QED
    BY <1>11, <2>1 DEF TypeOK, CompleteBatch
<1>12. CASE UNCHANGED submissionVars
  BY <1>12 DEF TypeOK, submissionVars
<1>. QED
  BY <1>1, <1>2, <1>3, <1>4, <1>5, <1>6, <1>7, <1>8, <1>9, <1>10, <1>11,
     <1>12 DEF SubmissionNext

(* The types hold in every reachable state.                                *)
THEOREM TypeCorrect == SubmissionSpec => []TypeOK
<1>1. SubmissionInit => TypeOK
  BY EmptySeq DEF SubmissionInit, TypeOK, Fences
<1>. QED
  BY <1>1, TypeStep, PTL DEF SubmissionSpec

-----------------------------------------------------------------------------
(* Safety.                                                                 *)

(* Reclaiming signaled submissions takes nothing from the queue, from the  *)
(* submissions that stay or from the owners of lent fences.                *)
LEMMA ReclaimSafe ==
  ASSUME SubmissionInv, NEW completed \in SUBSET pending,
         \A p \in completed : Signaled(p), Reclaim(completed)
  PROVE  /\ \A i \in DOMAIN queue : queue[i].command \notin PoolsOf(completed)
         /\ \A i \in DOMAIN queue : fence'[queue[i].fence] = "unsignaled"
         /\ \A i \in DOMAIN queue, p \in pending :
              p.command = queue[i].command => p \in pending'
         /\ \A p \in pending' : fence'[p.fence] = fence[p.fence]
         /\ \A f \in SurfaceFences : fence'[f] = fence[f]
         /\ \A c \in Commands :
              fence'[c] # "none" <=> \E p \in pending' : p.fence = c
         /\ PendingCommands' = PendingCommands \ PoolsOf(completed)
<1>1. ASSUME NEW i \in DOMAIN queue, NEW p \in pending,
             p.command = queue[i].command
      PROVE  p.fence = queue[i].fence /\ p \notin completed
  <2>1. p.fence = queue[i].fence
    BY <1>1 DEF SubmissionInv, InFlightWorkIsHeld, Ownership
  <2>2. fence[queue[i].fence] = "unsignaled"
    BY DEF SubmissionInv, FencesAreUsedOnce
  <2>. QED
    BY <2>1, <2>2 DEF Signaled
<1>2. pending' = pending \ completed
  BY DEF Reclaim
<1>3. ASSUME NEW p \in pending, NEW q \in completed,
             q.fence = p.fence, OwnsFence(q)
      PROVE  p = q
  <2>1. q \in pending /\ q.command \in Commands
    BY DEF SubmissionInv, TypeOK, Submission
  <2>2. p.fence \notin SurfaceFences
    BY <1>3, <2>1, FencesAreDistinct DEF OwnsFence
  <2>3. p.fence = p.command
    BY <2>2 DEF SubmissionInv, Ownership, OwnsFence
  <2>. QED
    BY <1>3, <2>1, <2>3 DEF SubmissionInv, Ownership, OwnsFence
<1>4. \A i \in DOMAIN queue : queue[i].command \notin PoolsOf(completed)
  BY <1>1 DEF PoolsOf
<1>5. \A i \in DOMAIN queue, p \in pending :
        p.command = queue[i].command => p \in pending'
  BY <1>1, <1>2
<1>6. \A p \in pending' : p.fence \in Fences /\ fence'[p.fence] = fence[p.fence]
  <2>. SUFFICES ASSUME NEW p \in pending'
                PROVE  p.fence \in Fences /\ fence'[p.fence] = fence[p.fence]
    OBVIOUS
  <2>1. p \in pending /\ p \notin completed /\ p.fence \in Fences
    BY <1>2 DEF SubmissionInv, TypeOK, Submission
  <2>2. ~ \E q \in completed : q.fence = p.fence /\ OwnsFence(q)
    BY <1>3, <2>1
  <2>. QED
    BY <2>1, <2>2 DEF Reclaim
<1>7. \A i \in DOMAIN queue : fence'[queue[i].fence] = "unsignaled"
  <2>. SUFFICES ASSUME NEW i \in DOMAIN queue
                PROVE  fence'[queue[i].fence] = "unsignaled"
    OBVIOUS
  <2>1. PICK p \in pending : /\ p.command = queue[i].command
                             /\ p.fence = queue[i].fence
    BY DEF SubmissionInv, InFlightWorkIsHeld
  <2>. QED
    BY <1>5, <1>6, <2>1 DEF SubmissionInv, FencesAreUsedOnce
<1>8. \A f \in SurfaceFences : fence'[f] = fence[f]
  <2>. SUFFICES ASSUME NEW f \in SurfaceFences
                PROVE  fence'[f] = fence[f]
    OBVIOUS
  <2>1. \A q \in completed : q.fence = f => ~OwnsFence(q)
    BY FencesAreDistinct DEF OwnsFence, SubmissionInv, TypeOK, Submission
  <2>. QED
    BY <2>1 DEF Reclaim, Fences
<1>9. \A c \in Commands :
        fence'[c] # "none" <=> \E p \in pending' : p.fence = c
  <2>. SUFFICES ASSUME NEW c \in Commands
                PROVE  fence'[c] # "none" <=> \E p \in pending' : p.fence = c
    OBVIOUS
  <2>1. fence[c] # "none" <=> \E p \in pending : p.fence = c
    BY DEF SubmissionInv, NothingLeaks
  <2>2. \A p \in pending : p.fence = c => OwnsFence(p)
    BY FencesAreDistinct DEF SubmissionInv, Ownership
  <2>3. CASE \E q \in completed : q.fence = c
    <3>1. PICK q \in completed : q.fence = c /\ OwnsFence(q)
      BY <2>2, <2>3
    <3>2. fence'[c] = "none"
      BY <3>1 DEF Reclaim, Fences
    <3>3. \A p \in pending' : p.fence # c
      BY <1>2, <1>3, <3>1
    <3>. QED
      BY <3>2, <3>3
  <2>4. CASE \A q \in completed : q.fence # c
    <3>1. fence'[c] = fence[c]
      BY <2>4 DEF Reclaim, Fences
    <3>. QED
      BY <1>2, <2>1, <2>4, <3>1
  <2>. QED
    BY <2>3, <2>4
<1>10. PendingCommands' = PendingCommands \ PoolsOf(completed)
  BY <1>2 DEF PendingCommands, PoolsOf, SubmissionInv, Ownership
<1>. QED
  BY <1>4, <1>5, <1>6, <1>7, <1>8, <1>9, <1>10

(* A step that submits, completes and reclaims nothing.                    *)
Quiet ==
  /\ UNCHANGED <<pools, pending, fence, queue, armed>>
  /\ \A c \in Commands :
       /\ command[c] \in {"recording", "ended"}
            <=> command'[c] \in {"recording", "ended"}
       /\ command'[c] = "recording" => command[c] = "recording"
       /\ used'[c] # used[c] => command[c] = "recording"
       /\ used[c] \subseteq held[c] => used'[c] \subseteq held'[c]

(* Dropping or creating references outside the command buffers, producing  *)
(* a semaphore and a submission that fails disturb only what they name.    *)
LEMMA RecordingStep ==
  ASSUME SubmissionInv, TypeOK',
         \/ \E r \in Resources : CreateResource(r) \/ ReleaseResource(r)
         \/ \E c \in Commands, r \in Resources : RecordUse(c, r)
         \/ \E c \in Commands : SubmitFails(c)
         \/ \E s \in Semaphores : ProduceSemaphore(s)
         \/ BeginWaitAll
         \/ UNCHANGED submissionVars
  PROVE  SubmissionInv'
<1>1. Quiet
  <2>. USE DEF Quiet, SubmissionInv, TypeOK
  <2>1. CASE \E r \in Resources : CreateResource(r) \/ ReleaseResource(r)
    BY <2>1 DEF CreateResource, ReleaseResource
  <2>2. CASE \E c \in Commands, r \in Resources : RecordUse(c, r)
    BY <2>2 DEF RecordUse
  <2>3. CASE \E c \in Commands : SubmitFails(c)
    BY <2>3 DEF SubmitFails
  <2>4. CASE \E s \in Semaphores : ProduceSemaphore(s)
    BY <2>4 DEF ProduceSemaphore
  <2>5. CASE BeginWaitAll \/ UNCHANGED submissionVars
    BY <2>5 DEF BeginWaitAll, submissionVars
  <2>. QED
    BY <2>1, <2>2, <2>3, <2>4, <2>5
<1>. USE DEF Quiet
<1>2. InFlightWorkIsHeld'
  <2>1. \A p \in pending : used'[p.command] = used[p.command]
    BY <1>1 DEF SubmissionInv, Ownership, PendingCommands, TypeOK, Submission
  <2>. QED
    BY <1>1, <2>1 DEF SubmissionInv, InFlightWorkIsHeld
<1>3. FencesAreUsedOnce'
  BY <1>1 DEF SubmissionInv, FencesAreUsedOnce
<1>4. NothingLeaks'
  BY <1>1 DEF SubmissionInv, NothingLeaks, PendingCommands
<1>5. WaitAllHangsOnlyOnArmedFences'
  BY <1>1 DEF SubmissionInv, WaitAllHangsOnlyOnArmedFences, QueuedFences, Signaled
<1>6. Ownership'
  BY <1>1 DEF SubmissionInv, Ownership, OwnsFence, PendingCommands, QueuedFences
<1>. QED
  BY <1>2, <1>3, <1>4, <1>5, <1>6 DEF SubmissionInv

(* Reclaiming, alone or followed by the start of a new command buffer.     *)
Collects(completed) ==
  /\ \A p \in completed : Signaled(p)
  /\ Reclaim(completed)
  /\ UNCHANGED <<held, queue, armed>>
  /\ \/ /\ pools' = pools \ PoolsOf(completed)
        /\ UNCHANGED <<command, used>>
     \/ \E c \in Commands :
          /\ command[c] = "none"
          /\ c \notin PoolsOf(pending \ completed)
          /\ command' = [command EXCEPT ![c] = "recording"]
          /\ pools' = (pools \ PoolsOf(completed)) \cup {c}
          /\ used' = [used EXCEPT ![c] = {}]

(* Collecting, with or without waiting, reclaims submissions whose fences   *)
(* are signaled, or hangs; what stays in the list stays held.               *)
LEMMA CollectStep ==
  ASSUME SubmissionInv, TypeOK',
         \/ \E c \in Commands : InitCommandBuffer(c)
         \/ CollectAfterSubmit
         \/ EndWaitAll
  PROVE  SubmissionInv'
<1>1. PICK completed \in SUBSET pending : Collects(completed)
  <2>1. Completed \in SUBSET pending /\ \A p \in Completed : Signaled(p)
    BY DEF Completed
  <2>2. CASE \E c \in Commands : InitCommandBuffer(c)
    <3>1. Collects(Completed)
      BY <2>1, <2>2 DEF InitCommandBuffer, Collects
    <3>. QED
      BY <2>1, <3>1
  <2>3. CASE CollectAfterSubmit
    <3>1. Collects(Completed)
      BY <2>1, <2>3 DEF CollectAfterSubmit, Collects
    <3>. QED
      BY <2>1, <3>1
  <2>4. CASE EndWaitAll
    <3>1. Collects(pending)
      BY <2>4 DEF EndWaitAll, Collects
    <3>. QED
      BY <3>1
  <2>. QED
    BY <2>2, <2>3, <2>4
<1>. DEFINE safe == /\ \A i \in DOMAIN queue : queue[i].command \notin PoolsOf(completed)
                    /\ \A i \in DOMAIN queue : fence'[queue[i].fence] = "unsignaled"
                    /\ \A i \in DOMAIN queue, p \in pending :
                         p.command = queue[i].command => p \in pending'
                    /\ \A p \in pending' : fence'[p.fence] = fence[p.fence]
                    /\ \A f \in SurfaceFences : fence'[f] = fence[f]
                    /\ \A c \in Commands :
                         fence'[c] # "none" <=> \E p \in pending' : p.fence = c
                    /\ PendingCommands' = PendingCommands \ PoolsOf(completed)
<1>2. safe
  BY <1>1, ReclaimSafe DEF Collects
<1>3. pending' \subseteq pending /\ UNCHANGED <<held, queue, armed>>
  BY <1>1 DEF Collects, Reclaim
<1>4. InFlightWorkIsHeld'
  <2>. SUFFICES ASSUME NEW i \in DOMAIN queue
                PROVE  /\ queue[i].command \in pools'
                       /\ \E p \in pending' :
                            /\ p.command = queue[i].command
                            /\ p.fence = queue[i].fence
                            /\ used'[p.command] \subseteq p.held
    BY <1>3 DEF InFlightWorkIsHeld
  <2>1. PICK p \in pending : /\ p.command = queue[i].command
                             /\ p.fence = queue[i].fence
                             /\ used[p.command] \subseteq p.held
    BY DEF SubmissionInv, InFlightWorkIsHeld
  <2>2. p \in pending' /\ queue[i].command \in pools
    BY <1>2, <2>1 DEF SubmissionInv, InFlightWorkIsHeld
  <2>3. p \notin completed /\ p.command \in Commands
    BY <1>2, <2>1 DEF PoolsOf, SubmissionInv, TypeOK, Submission
  <2>4. used'[p.command] = used[p.command] \/ used'[p.command] = {}
    BY <1>1, <2>3 DEF Collects, SubmissionInv, TypeOK
  <2>5. queue[i].command \in pools'
    BY <1>1, <1>2, <2>2 DEF Collects
  <2>. QED
    BY <2>1, <2>2, <2>4, <2>5
<1>5. FencesAreUsedOnce'
  BY <1>2, <1>3 DEF SubmissionInv, FencesAreUsedOnce
<1>6. NothingLeaks'
  <2>1. pools' = {c \in Commands : command'[c] \in {"recording", "ended"}}
                   \cup PendingCommands'
    <3>1. CASE UNCHANGED command /\ pools' = pools \ PoolsOf(completed)
      <4>1. \A c \in PoolsOf(completed) : command[c] \notin {"recording", "ended"}
        BY DEF PoolsOf, SubmissionInv, Ownership, PendingCommands, TypeOK, Submission
      <4>. QED
        BY <1>2, <3>1, <4>1 DEF SubmissionInv, NothingLeaks
    <3>2. ASSUME NEW c \in Commands,
                 command[c] = "none",
                 command' = [command EXCEPT ![c] = "recording"],
                 pools' = (pools \ PoolsOf(completed)) \cup {c}
          PROVE  <2>1
      <4>1. \A d \in PoolsOf(completed) : command[d] \notin {"recording", "ended"}
        BY DEF PoolsOf, SubmissionInv, Ownership, PendingCommands, TypeOK, Submission
      <4>. QED
        BY <1>2, <3>2, <4>1 DEF SubmissionInv, NothingLeaks, TypeOK
    <3>. QED
      BY <1>1, <3>1, <3>2 DEF Collects
  <2>. QED
    BY <1>2, <2>1 DEF SubmissionInv, NothingLeaks
<1>7. WaitAllHangsOnlyOnArmedFences'
  BY <1>2, <1>3
     DEF SubmissionInv, WaitAllHangsOnlyOnArmedFences, QueuedFences, Signaled
<1>8. Ownership'
  <2>1. \A p \in pending' : OwnsFence(p) \/ p.fence \in SurfaceFences
    BY <1>3 DEF SubmissionInv, Ownership
  <2>2. \A p, q \in pending' : p.command = q.command => p = q
    BY <1>3 DEF SubmissionInv, Ownership
  <2>3. \A c \in Commands :
          command'[c] \in {"recording", "ended"} => c \notin PendingCommands'
    <3>. SUFFICES ASSUME NEW c \in Commands, c \in PendingCommands',
                         command'[c] \in {"recording", "ended"}
                  PROVE  FALSE
      OBVIOUS
    <3>1. c \in PoolsOf(pending \ completed)
      BY <1>1 DEF Collects, Reclaim, PendingCommands, PoolsOf
    <3>2. command[c] \in {"recording", "ended"}
      BY <1>1, <3>1 DEF Collects, SubmissionInv, TypeOK
    <3>. QED
      BY <1>2, <3>2 DEF SubmissionInv, Ownership
  <2>4. \A c \in Commands : command'[c] = "recording" => used'[c] \subseteq held'[c]
    BY <1>1 DEF Collects, SubmissionInv, Ownership, TypeOK
  <2>5. \A f \in armed' : fence'[f] = "unsignaled" /\ f \notin QueuedFences'
    BY <1>2, <1>3 DEF SubmissionInv, Ownership, QueuedFences, TypeOK
  <2>. QED
    BY <2>1, <2>2, <2>3, <2>4, <2>5 DEF Ownership, OwnsFence
<1>. QED
  BY <1>4, <1>5, <1>6, <1>7, <1>8 DEF SubmissionInv

(* Submitting moves what the command buffer held to the list, and gives    *)
(* the queue a fence that nothing else will signal.                        *)
LEMMA SubmitStep ==
  ASSUME SubmissionInv, TypeOK', NEW c \in Commands, NEW f \in armed \cup {c},
         NEW waits \in SUBSET Semaphores, NEW signals \in SUBSET Semaphores,
         Submit(c, f, waits, signals)
  PROVE  SubmissionInv'
<1>. DEFINE batch == [command |-> c, fence |-> f,
                      waits |-> waits, signals |-> signals]
            new == [command |-> c, fence |-> f, held |-> held[c]]
            last == Len(queue) + 1
<1>. USE DEF SubmissionInv
<1>0. /\ batch.command = c /\ batch.fence = f
      /\ new.command = c /\ new.fence = f /\ new.held = held[c]
  OBVIOUS
<1>1. f \in Fences /\ batch \in Batch /\ (f # c => f \in armed)
  BY DEF TypeOK, Fences, Batch
<1>2. /\ command' = [command EXCEPT ![c] = "submitted"]
      /\ fence' = IF f = c THEN [fence EXCEPT ![c] = "unsignaled"] ELSE fence
      /\ pending' = pending \cup {new}
      /\ held' = [held EXCEPT ![c] = {}]
      /\ armed' = armed \ {f}
      /\ UNCHANGED <<pools, used>>
      /\ command[c] = "recording"
  BY DEF Submit
<1>3. /\ DOMAIN queue' = DOMAIN queue \cup {last}
      /\ last \notin DOMAIN queue
      /\ \A i \in DOMAIN queue : queue'[i] = queue[i]
      /\ queue'[last] = batch
  BY <1>1, AppendElements DEF Submit, TypeOK
<1>. HIDE DEF batch, new, last
<1>4. c \notin PendingCommands /\ used[c] \subseteq held[c]
  BY <1>2 DEF Ownership
<1>5. \A p \in pending : p.fence # c /\ p.command # c
  BY <1>4, FencesAreDistinct DEF PendingCommands, Ownership, OwnsFence
<1>6. f \notin QueuedFences
  <2>1. CASE f = c
    BY <1>5, <2>1 DEF QueuedFences, InFlightWorkIsHeld
  <2>2. CASE f \in armed
    BY <2>2 DEF Ownership
  <2>. QED
    BY <2>1, <2>2
<1>7. /\ fence'[f] = "unsignaled"
      /\ \A g \in Fences \ {f} : fence'[g] = fence[g]
  BY <1>1, <1>2 DEF TypeOK, Ownership, Fences
<1>8. InFlightWorkIsHeld'
  <2>1. c \in pools
    BY <1>2 DEF NothingLeaks
  <2>. QED
    BY <1>0, <1>2, <1>3, <1>4, <2>1 DEF InFlightWorkIsHeld
<1>9. FencesAreUsedOnce'
  <2>1. \A i \in DOMAIN queue : queue[i].fence # f
    BY <1>6 DEF QueuedFences
  <2>2. \A i \in DOMAIN queue : queue[i].fence \in Fences
    <3>1. DOMAIN queue = 1 .. Len(queue)
      BY LenProperties DEF TypeOK
    <3>2. \A i \in DOMAIN queue : queue[i] \in Batch
      BY <3>1, ElementOfSeq DEF TypeOK
    <3>. QED
      BY <3>2 DEF Batch
  <2>3. \A i \in DOMAIN queue : fence'[queue[i].fence] = "unsignaled"
    BY <1>7, <2>1, <2>2 DEF FencesAreUsedOnce
  <2>. QED
    BY <1>0, <1>3, <1>7, <2>1, <2>3 DEF FencesAreUsedOnce
<1>10. NothingLeaks'
  <2>1. PendingCommands' = PendingCommands \cup {c}
    BY <1>0, <1>2 DEF PendingCommands
  <2>2. pools' = {d \in Commands : command'[d] \in {"recording", "ended"}}
                   \cup PendingCommands'
    BY <1>2, <2>1 DEF NothingLeaks, TypeOK
  <2>3. ASSUME NEW d \in Commands
        PROVE  fence'[d] # "none" <=> \E p \in pending' : p.fence = d
    <3>1. CASE d = f
      BY <1>0, <1>2, <1>7, <3>1
    <3>2. CASE d # f
      BY <1>0, <1>2, <1>7, <3>2 DEF NothingLeaks, Fences
    <3>. QED
      BY <3>1, <3>2
  <2>4. \A g \in SurfaceFences : fence'[g] # "none"
    BY <1>7 DEF NothingLeaks, Fences
  <2>. QED
    BY <2>2, <2>3, <2>4 DEF NothingLeaks
<1>11. WaitAllHangsOnlyOnArmedFences'
  <2>1. QueuedFences' = QueuedFences \cup {f}
    BY <1>0, <1>3 DEF QueuedFences
  <2>2. \A p \in pending : p.fence # f => fence'[p.fence] = fence[p.fence]
    BY <1>7 DEF TypeOK, Submission
  <2>. QED
    BY <1>0, <1>2, <2>1, <2>2 DEF WaitAllHangsOnlyOnArmedFences, Signaled
<1>12. Ownership'
  <2>1. OwnsFence(new) \/ f \in SurfaceFences
    BY <1>0, <1>1 DEF OwnsFence, TypeOK
  <2>2. QueuedFences' = QueuedFences \cup {f}
    BY <1>0, <1>3 DEF QueuedFences
  <2>3. PendingCommands' = PendingCommands \cup {c}
    BY <1>0, <1>2 DEF PendingCommands
  <2>4. \A g \in armed' : fence'[g] = "unsignaled" /\ g \notin QueuedFences'
    BY <1>2, <2>2, FencesAreDistinct DEF Ownership, TypeOK, Fences
  <2>5. \A d \in Commands :
          command'[d] \in {"recording", "ended"} => d \notin PendingCommands'
    BY <1>2, <2>3 DEF Ownership, TypeOK
  <2>6. \A d \in Commands : command'[d] = "recording" => used'[d] \subseteq held'[d]
    BY <1>2 DEF Ownership, TypeOK
  <2>7. \A p, q \in pending' : p.command = q.command => p = q
    BY <1>0, <1>2, <1>5 DEF Ownership
  <2>8. \A p \in pending' : OwnsFence(p) \/ p.fence \in SurfaceFences
    BY <1>0, <1>2, <2>1 DEF Ownership, OwnsFence
  <2>. QED
    BY <2>4, <2>5, <2>6, <2>7, <2>8 DEF Ownership, OwnsFence
<1>. QED
  BY <1>8, <1>9, <1>10, <1>11, <1>12

(* Destroying a command buffer frees the pool that Submit did not move.    *)
LEMMA DestroyStep ==
  ASSUME SubmissionInv, TypeOK', NEW c \in Commands, DestroyCommandBuffer(c)
  PROVE  SubmissionInv'
<1>. USE DEF SubmissionInv, DestroyCommandBuffer
<1>1. command[c] = "submitted" \/ c \notin PendingCommands
  BY DEF Ownership, TypeOK
<1>2. pools' = {d \in Commands : command'[d] \in {"recording", "ended"}}
                 \cup PendingCommands'
  BY <1>1 DEF NothingLeaks, PendingCommands, TypeOK
<1>3. InFlightWorkIsHeld'
  BY <1>2 DEF InFlightWorkIsHeld, PendingCommands
<1>4. FencesAreUsedOnce'
  BY DEF FencesAreUsedOnce
<1>5. NothingLeaks'
  BY <1>2 DEF NothingLeaks
<1>6. WaitAllHangsOnlyOnArmedFences'
  BY DEF WaitAllHangsOnlyOnArmedFences, QueuedFences, Signaled
<1>7. Ownership'
  BY DEF Ownership, OwnsFence, PendingCommands, QueuedFences, TypeOK
<1>. QED
  BY <1>3, <1>4, <1>5, <1>6, <1>7

(* The owner of a lent fence resets it when the queue is done with it.     *)
LEMMA LendStep ==
  ASSUME SubmissionInv, TypeOK', NEW f \in SurfaceFences, LendFence(f)
  PROVE  SubmissionInv'
<1>. USE DEF SubmissionInv
<1>1. /\ fence[f] = "signaled"
      /\ fence'[f] = "unsignaled"
      /\ \A g \in Fences \ {f} : fence'[g] = fence[g]
      /\ armed' = armed \cup {f}
      /\ UNCHANGED <<command, pools, held, used, pending, queue>>
  BY DEF LendFence, ArmFence, FenceIsSignaled, TypeOK, Fences
<1>2. \A i \in DOMAIN queue : queue[i].fence \in Fences \ {f}
  <2>1. DOMAIN queue = 1 .. Len(queue)
    BY LenProperties DEF TypeOK
  <2>2. \A i \in DOMAIN queue : queue[i] \in Batch
    BY <2>1, ElementOfSeq DEF TypeOK
  <2>. QED
    BY <1>1, <2>2 DEF Batch, FencesAreUsedOnce
<1>3. InFlightWorkIsHeld'
  BY <1>1 DEF InFlightWorkIsHeld
<1>4. FencesAreUsedOnce'
  BY <1>1, <1>2 DEF FencesAreUsedOnce
<1>5. NothingLeaks'
  BY <1>1, FencesAreDistinct DEF NothingLeaks, PendingCommands, Fences
<1>6. WaitAllHangsOnlyOnArmedFences'
  BY <1>1 DEF WaitAllHangsOnlyOnArmedFences, QueuedFences, Signaled, TypeOK,
              Submission
<1>7. Ownership'
  <2>1. \A g \in armed' : fence'[g] = "unsignaled" /\ g \notin QueuedFences'
    BY <1>1, <1>2 DEF Ownership, QueuedFences, TypeOK, Fences
  <2>. QED
    BY <1>1, <2>1 DEF Ownership, OwnsFence, PendingCommands
<1>. QED
  BY <1>3, <1>4, <1>5, <1>6, <1>7

(* The queue completes its first batch and signals that batch's fence.     *)
LEMMA CompleteStep ==
  ASSUME SubmissionInv, TypeOK', CompleteBatch
  PROVE  SubmissionInv'
<1>. USE DEF SubmissionInv
<1>. DEFINE f == queue[1].fence
<1>1. /\ fence' = [fence EXCEPT ![f] = "signaled"]
      /\ \A i \in DOMAIN queue' : /\ i + 1 \in DOMAIN queue
                                   /\ i + 1 # 1
                                   /\ queue'[i] = queue[i + 1]
      /\ 1 \in DOMAIN queue
      /\ DOMAIN queue = 1 .. Len(queue)
      /\ DOMAIN queue' = 1 .. Len(queue) - 1
      /\ UNCHANGED <<command, pools, held, used, pending, armed>>
  <2>1. queue # <<>> /\ queue \in Seq(Batch) /\ queue' = Tail(queue)
    BY DEF CompleteBatch, TypeOK
  <2>2. DOMAIN queue = 1 .. Len(queue) /\ DOMAIN queue' = 1 .. Len(queue) - 1
    BY <2>1, LenProperties, HeadTailProperties
  <2>. QED
    BY <2>1, <2>2, TailElements, ZenonT(50) DEF CompleteBatch
<1>2. \A i \in DOMAIN queue : queue[i] \in Batch
  BY <1>1, ElementOfSeq DEF TypeOK
<1>3. /\ f \in Fences
      /\ fence'[f] = "signaled"
      /\ \A g \in Fences \ {f} : fence'[g] = fence[g]
  BY <1>1, <1>2 DEF TypeOK, Batch
<1>4. \A i \in DOMAIN queue' : queue'[i].fence \in Fences \ {f}
  BY <1>1, <1>2 DEF FencesAreUsedOnce, Batch
<1>5. f \notin armed
  BY <1>1 DEF Ownership, QueuedFences
<1>. HIDE DEF f
<1>6. InFlightWorkIsHeld'
  BY <1>1 DEF InFlightWorkIsHeld
<1>7. FencesAreUsedOnce'
  <2>1. \A i \in DOMAIN queue' : fence'[queue'[i].fence] = "unsignaled"
    BY <1>1, <1>3, <1>4 DEF FencesAreUsedOnce
  <2>2. \A i, j \in DOMAIN queue' : queue'[i].fence = queue'[j].fence => i = j
    <3>. SUFFICES ASSUME NEW i \in DOMAIN queue', NEW j \in DOMAIN queue',
                         queue'[i].fence = queue'[j].fence
                  PROVE  i = j
      OBVIOUS
    <3>1. i + 1 = j + 1
      BY <1>1 DEF FencesAreUsedOnce
    <3>2. i \in Int /\ j \in Int
      BY <1>1
    <3>. QED
      BY <3>1, <3>2
  <2>. QED
    BY <2>1, <2>2 DEF FencesAreUsedOnce
<1>8. NothingLeaks'
  <2>1. fence[f] # "none"
    BY <1>1 DEF FencesAreUsedOnce, f
  <2>2. \A g \in Fences : fence'[g] # "none" <=> fence[g] # "none"
    BY <1>3, <2>1
  <2>. QED
    BY <1>1, <2>2 DEF NothingLeaks, PendingCommands, Fences
<1>9. WaitAllHangsOnlyOnArmedFences'
  <2>. SUFFICES ASSUME NEW p \in pending, p.fence # f
                PROVE  Signaled(p)' \/ p.fence \in QueuedFences' \/ p.fence \in armed'
    BY <1>1, <1>3 DEF WaitAllHangsOnlyOnArmedFences, Signaled
  <2>1. fence'[p.fence] = fence[p.fence]
    BY <1>3 DEF TypeOK, Submission
  <2>2. ASSUME p.fence \in QueuedFences
        PROVE  p.fence \in QueuedFences'
    <3>1. PICK i \in DOMAIN queue : queue[i].fence = p.fence
      BY <2>2 DEF QueuedFences
    <3>2. i # 1 /\ i \in 1 .. Len(queue) /\ Len(queue) \in Nat
      BY <1>1, <3>1, LenProperties DEF f, TypeOK
    <3>3. i - 1 \in DOMAIN queue' /\ (i - 1) + 1 = i
      BY <1>1, <3>2
    <3>4. queue'[i - 1] = queue[i]
      BY <1>1, <3>3
    <3>. QED
      BY <3>1, <3>3, <3>4 DEF QueuedFences
  <2>. QED
    BY <1>1, <2>1, <2>2 DEF WaitAllHangsOnlyOnArmedFences, Signaled
<1>10. Ownership'
  <2>1. \A g \in armed' : fence'[g] = "unsignaled" /\ g \notin QueuedFences'
    BY <1>1, <1>3, <1>5 DEF Ownership, QueuedFences, TypeOK, Fences
  <2>. QED
    BY <1>1, <2>1 DEF Ownership, OwnsFence, PendingCommands
<1>. QED
  BY <1>6, <1>7, <1>8, <1>9, <1>10

(* Every step of the backend and the driver keeps the invariant.            *)
LEMMA SafetyStep == SubmissionInv /\ [SubmissionNext]_submissionVars => SubmissionInv'
<1>. SUFFICES ASSUME SubmissionInv, [SubmissionNext]_submissionVars
              PROVE  SubmissionInv'
  OBVIOUS
<1>1. TypeOK'
  BY TypeStep DEF SubmissionInv
<1>2. CASE \/ \E r \in Resources : CreateResource(r) \/ ReleaseResource(r)
           \/ \E c \in Commands, r \in Resources : RecordUse(c, r)
           \/ \E c \in Commands : SubmitFails(c)
           \/ \E s \in Semaphores : ProduceSemaphore(s)
           \/ BeginWaitAll
           \/ UNCHANGED submissionVars
  BY <1>1, <1>2, RecordingStep
<1>3. CASE \/ \E c \in Commands : InitCommandBuffer(c)
           \/ CollectAfterSubmit
           \/ EndWaitAll
  BY <1>1, <1>3, CollectStep
<1>4. ASSUME NEW c \in Commands, NEW f \in armed \cup {c},
             NEW waits \in SUBSET Semaphores, SubmitWaiting(c, f, waits)
      PROVE  SubmissionInv'
  BY <1>1, <1>4, SubmitStep DEF SubmitWaiting
<1>5. ASSUME NEW c \in Commands, DestroyCommandBuffer(c)
      PROVE  SubmissionInv'
  BY <1>1, <1>5, DestroyStep
<1>6. ASSUME NEW f \in SurfaceFences, LendFence(f)
      PROVE  SubmissionInv'
  BY <1>1, <1>6, LendStep
<1>7. CASE CompleteBatch
  BY <1>1, <1>7, CompleteStep
<1>. QED
  BY <1>2, <1>3, <1>4, <1>5, <1>6, <1>7 DEF SubmissionNext

(* The invariant holds before the first command buffer.                    *)
LEMMA SafetyInit == SubmissionInit => SubmissionInv
<1>. SUFFICES ASSUME SubmissionInit PROVE SubmissionInv
  OBVIOUS
<1>1. TypeOK
  BY EmptySeq DEF SubmissionInit, TypeOK, Fences
<1>2. DOMAIN queue = {}
  BY DEF SubmissionInit
<1>3. NothingLeaks
  BY FencesAreDistinct DEF SubmissionInit, NothingLeaks, PendingCommands, Fences
<1>. QED
  BY <1>1, <1>2, <1>3
     DEF SubmissionInit, SubmissionInv, InFlightWorkIsHeld, FencesAreUsedOnce,
         WaitAllHangsOnlyOnArmedFences, Ownership, PendingCommands

(* The inductive invariant of submission holds in every reachable state:    *)
(* types, held work, distinct fences, owners of fences and command pools.   *)
THEOREM InvariantHolds == SubmissionSpec => []SubmissionInv
  BY SafetyInit, SafetyStep, PTL DEF SubmissionSpec

(* Nothing that work on the GPU uses, and no command pool it runs from, is *)
(* destroyed before its fence is signaled, whatever is dropped meanwhile   *)
(* (GPUCommandBufferVK::Submit, CollectPendingSubmissions).                *)
THEOREM InFlightWorkStaysHeld == SubmissionSpec => []InFlightWorkIsHeld
  BY InvariantHolds, PTL DEF SubmissionInv

(* The queue has one signal to give to each fence it was given.            *)
THEOREM FencesStayUsedOnce == SubmissionSpec => []FencesAreUsedOnce
  BY InvariantHolds, PTL DEF SubmissionInv

(* Command pools and owned fences are all reclaimed by someone.            *)
THEOREM NothingEverLeaks == SubmissionSpec => []NothingLeaks
  BY InvariantHolds, PTL DEF SubmissionInv

(* Only a lent fence that its owner reset can keep                         *)
(* CollectPendingSubmissions(true) waiting once the queue is idle.         *)
THEOREM WaitAllHangsOnlyThere == SubmissionSpec => []WaitAllHangsOnlyOnArmedFences
  BY InvariantHolds, PTL DEF SubmissionInv

-----------------------------------------------------------------------------
(* The refinement of GpuWork.                                              *)

(* What the variables of GpuWork stand for.                                *)
LiveNow == {r \in Resources : Alive(r)}
RunningNow == {[command |-> queue[i].command, uses |-> used[queue[i].command]] :
                 i \in DOMAIN queue}

(* Each batch on the queue has a command buffer of its own, which is not   *)
(* being recorded, and uses only what is alive.                            *)
WorkIsLive ==
  /\ DOMAIN queue = 1 .. Len(queue)
  /\ \A i \in DOMAIN queue :
       /\ queue[i].command \in Commands
       /\ queue[i].command \in PendingCommands
       /\ command[queue[i].command] \notin {"recording", "ended"}
       /\ used[queue[i].command] \subseteq LiveNow
  /\ \A i, j \in DOMAIN queue : queue[i].command = queue[j].command => i = j

(* The invariant says so: a pending submission holds what each batch uses. *)
LEMMA QueuedWork == SubmissionInv => WorkIsLive
<1>. SUFFICES ASSUME SubmissionInv PROVE WorkIsLive
  OBVIOUS
<1>. USE DEF SubmissionInv
<1>1. DOMAIN queue = 1 .. Len(queue)
  BY LenProperties DEF TypeOK
<1>2. \A i \in DOMAIN queue : queue[i] \in Batch
  BY <1>1, ElementOfSeq DEF TypeOK
<1>3. ASSUME NEW i \in DOMAIN queue
      PROVE  \E p \in pending : /\ p.command = queue[i].command
                                /\ p.fence = queue[i].fence
                                /\ used[p.command] \subseteq p.held
  BY DEF InFlightWorkIsHeld
<1>4. ASSUME NEW i \in DOMAIN queue
      PROVE  /\ queue[i].command \in Commands
             /\ queue[i].command \in PendingCommands
             /\ command[queue[i].command] \notin {"recording", "ended"}
             /\ used[queue[i].command] \subseteq LiveNow
  <2>1. queue[i].command \in Commands
    BY <1>2 DEF Batch
  <2>2. queue[i].command \in PendingCommands
    BY <1>3 DEF PendingCommands
  <2>3. used[queue[i].command] \subseteq LiveNow
    BY <1>3, <2>1 DEF LiveNow, Alive, TypeOK
  <2>. QED
    BY <2>1, <2>2, <2>3 DEF Ownership
<1>5. ASSUME NEW i \in DOMAIN queue, NEW j \in DOMAIN queue,
             queue[i].command = queue[j].command
      PROVE  i = j
  BY <1>3, <1>5 DEF Ownership, FencesAreUsedOnce
<1>. QED
  BY <1>1, <1>4, <1>5 DEF WorkIsLive

(* A step that gives the queue nothing and takes nothing from it may drop  *)
(* what it likes: the invariant after it says that nothing in use went.    *)
LEMMA DropMaps ==
  ASSUME WorkIsLive', UNCHANGED queue,
         \A i \in DOMAIN queue : used'[queue[i].command] = used[queue[i].command],
         LiveNow' \subseteq LiveNow
  PROVE  [Work!Next]_Work!vars
<1>1. RunningNow' = RunningNow
  BY DEF RunningNow
<1>2. (LiveNow \ LiveNow') \cap UNION {job.uses : job \in RunningNow} = {}
  <2>1. \A i \in DOMAIN queue' : used'[queue'[i].command] \subseteq LiveNow'
    BY DEF WorkIsLive
  <2>. QED
    BY <2>1 DEF RunningNow
<1>3. LiveNow' = LiveNow \ (LiveNow \ LiveNow')
  OBVIOUS
<1>4. \E dropped \in SUBSET LiveNow :
        /\ dropped \cap UNION {job.uses : job \in RunningNow} = {}
        /\ LiveNow' = LiveNow \ dropped
        /\ RunningNow' = RunningNow
  BY <1>1, <1>2, <1>3
<1>. QED
  BY <1>4 DEF Work!Next, Work!Destroy, Work!InUse, LiveNow, RunningNow

(* Reclaiming drops references and leaves the queue alone.                  *)
LEMMA ReclaimMaps ==
  ASSUME SubmissionInv, WorkIsLive',
         \/ \E c \in Commands : InitCommandBuffer(c)
         \/ CollectAfterSubmit
         \/ EndWaitAll
  PROVE  [Work!Next]_Work!vars
<1>1. PICK completed \in SUBSET pending : Reclaim(completed)
  BY DEF InitCommandBuffer, CollectAfterSubmit, EndWaitAll, Completed
<1>2. UNCHANGED <<held, referenced, queue>>
  BY DEF InitCommandBuffer, CollectAfterSubmit, EndWaitAll
<1>3. LiveNow' \subseteq LiveNow
  BY <1>1, <1>2 DEF LiveNow, Alive, Reclaim
<1>4. ASSUME NEW i \in DOMAIN queue
      PROVE  used'[queue[i].command] = used[queue[i].command]
  <2>1. queue[i].command \in Commands /\ queue[i].command \in PendingCommands'
    BY <1>2, QueuedWork DEF WorkIsLive
  <2>2. ASSUME NEW c \in Commands, InitCommandBuffer(c)
        PROVE  c \notin PendingCommands'
    BY <2>2 DEF InitCommandBuffer, Reclaim, PoolsOf, PendingCommands
  <2>. QED
    BY <2>1, <2>2, ZenonT(50) DEF InitCommandBuffer, CollectAfterSubmit, EndWaitAll,
                      SubmissionInv, TypeOK
<1>. QED
  BY <1>2, <1>3, <1>4, DropMaps

(* Submitting starts the work that was recorded.                            *)
LEMMA SubmitMaps ==
  ASSUME SubmissionInv, NEW c \in Commands, NEW f, NEW waits,
         f \in armed \cup {c}, waits \in SUBSET Semaphores,
         Submit(c, f, waits, {})
  PROVE  [Work!Next]_Work!vars
<1>. DEFINE batch == [command |-> c, fence |-> f, waits |-> waits, signals |-> {}]
            job == [command |-> c, uses |-> used[c]]
<1>1. /\ queue \in Seq(Batch)
      /\ batch \in Batch
  BY DEF SubmissionInv, TypeOK, Batch, Fences
<1>2. /\ DOMAIN queue' = DOMAIN queue \cup {Len(queue) + 1}
      /\ \A i \in DOMAIN queue : queue'[i] = queue[i]
      /\ queue'[Len(queue) + 1] = batch
  BY <1>1, AppendElements DEF Submit
<1>3. RunningNow' = RunningNow \cup {job}
  <2>1. UNCHANGED used
    BY DEF Submit
  <2>2. batch.command = c
    OBVIOUS
  <2>. HIDE DEF batch
  <2>. QED
    BY <1>2, <2>1, <2>2 DEF RunningNow
<1>4. used[c] \subseteq LiveNow
  BY DEF Submit, SubmissionInv, Ownership, TypeOK, LiveNow, Alive
<1>5. LiveNow' = LiveNow
  <2>1. pending' = pending \cup {[command |-> c, fence |-> f, held |-> held[c]]}
    BY DEF Submit
  <2>. DEFINE new == [command |-> c, fence |-> f, held |-> held[c]]
  <2>2. \A r \in Resources : (\E p \in pending' : r \in p.held)
                               <=> (\E p \in pending : r \in p.held) \/ r \in held[c]
    <3>1. new.held = held[c] /\ pending' = pending \cup {new}
      BY <2>1
    <3>. HIDE DEF new
    <3>. QED
      BY <3>1
  <2>3. \A r \in Resources : (\E d \in Commands : r \in held[d])
                               <=> (\E d \in Commands : r \in held'[d]) \/ r \in held[c]
    BY DEF Submit, SubmissionInv, TypeOK
  <2>4. UNCHANGED referenced
    BY DEF Submit
  <2>. QED
    BY <2>2, <2>3, <2>4 DEF LiveNow, Alive
<1>6. \A other \in RunningNow : other.command # c
  BY QueuedWork DEF WorkIsLive, Submit, RunningNow
<1>7. /\ \A other \in RunningNow : other.command # c
      /\ used[c] \subseteq LiveNow
      /\ RunningNow' = RunningNow \cup {[command |-> c, uses |-> used[c]]}
      /\ LiveNow' = LiveNow
  BY <1>3, <1>4, <1>5, <1>6
<1>. QED
  BY <1>7 DEF Work!Next, Work!Start, LiveNow, RunningNow

(* The queue finishes the work at its head and no other.                    *)
LEMMA CompleteMaps ==
  ASSUME SubmissionInv, CompleteBatch
  PROVE  [Work!Next]_Work!vars
<1>. DEFINE job == [command |-> queue[1].command, uses |-> used[queue[1].command]]
<1>1. queue # <<>> /\ queue \in Seq(Batch) /\ queue' = Tail(queue)
  BY DEF CompleteBatch, SubmissionInv, TypeOK
<1>2. /\ 1 \in DOMAIN queue
      /\ \A i \in DOMAIN queue' : i + 1 \in DOMAIN queue /\ i + 1 # 1
                                    /\ queue'[i] = queue[i + 1]
  BY <1>1, TailElements
<1>3. \A i \in DOMAIN queue : i # 1 => i - 1 \in DOMAIN queue' /\ (i - 1) + 1 = i
  BY <1>1, LenProperties, HeadTailProperties
<1>4. LiveNow' = LiveNow /\ UNCHANGED used
  BY DEF CompleteBatch, LiveNow, Alive
<1>5. RunningNow' = RunningNow \ {job}
  <2>1. ASSUME NEW other \in RunningNow'
        PROVE  other \in RunningNow /\ other # job
    <3>1. PICK i \in DOMAIN queue' :
            other = [command |-> queue'[i].command, uses |-> used[queue'[i].command]]
      BY <1>4 DEF RunningNow
    <3>2. queue[i + 1].command # queue[1].command
      BY <1>2, QueuedWork DEF WorkIsLive
    <3>. QED
      BY <1>2, <3>1, <3>2 DEF RunningNow
  <2>2. ASSUME NEW other \in RunningNow, other # job
        PROVE  other \in RunningNow'
    <3>1. PICK i \in DOMAIN queue :
            other = [command |-> queue[i].command, uses |-> used[queue[i].command]]
      BY DEF RunningNow
    <3>2. i # 1
      BY <2>2, <3>1
    <3>. QED
      BY <1>2, <1>3, <1>4, <3>1, <3>2 DEF RunningNow
  <2>. QED
    BY <2>1, <2>2
<1>6. job \in RunningNow
  BY <1>2 DEF RunningNow
<1>7. \E finished \in RunningNow : /\ RunningNow' = RunningNow \ {finished}
                                   /\ LiveNow' = LiveNow
  BY <1>4, <1>5, <1>6
<1>. QED
  BY <1>7 DEF Work!Next, Work!Finish, LiveNow, RunningNow

(* Every step of the submissions is one of GpuWork, or none.                *)
LEMMA SubmissionMaps ==
  SubmissionInv /\ WorkIsLive' /\ [SubmissionNext]_submissionVars
    => [Work!Next]_Work!vars
<1>. SUFFICES ASSUME SubmissionInv, WorkIsLive', [SubmissionNext]_submissionVars
              PROVE  [Work!Next]_Work!vars
  OBVIOUS
<1>1. ASSUME NEW r \in Resources, CreateResource(r)
      PROVE  [Work!Next]_Work!vars
  <2>1. r \notin LiveNow /\ LiveNow' = LiveNow \cup {r}
    BY <1>1 DEF CreateResource, LiveNow, Alive
  <2>2. RunningNow' = RunningNow
    BY <1>1 DEF CreateResource, RunningNow
  <2>. QED
    BY <2>1, <2>2 DEF Work!Next, Work!Create, LiveNow, RunningNow
<1>2. ASSUME NEW r \in Resources, ReleaseResource(r)
      PROVE  [Work!Next]_Work!vars
  <2>1. LiveNow' \subseteq LiveNow
    BY <1>2 DEF ReleaseResource, LiveNow, Alive
  <2>. QED
    BY <1>2, <2>1, DropMaps DEF ReleaseResource
<1>3. ASSUME NEW c \in Commands, NEW r \in Resources, RecordUse(c, r)
      PROVE  [Work!Next]_Work!vars
  <2>1. LiveNow' \subseteq LiveNow
    BY <1>3 DEF RecordUse, LiveNow, Alive, SubmissionInv, TypeOK
  <2>2. \A i \in DOMAIN queue : used'[queue[i].command] = used[queue[i].command]
    BY <1>3, QueuedWork DEF WorkIsLive, RecordUse, SubmissionInv, TypeOK
  <2>. QED
    BY <1>3, <2>1, <2>2, DropMaps DEF RecordUse
<1>4. ASSUME NEW c \in Commands, DestroyCommandBuffer(c)
      PROVE  [Work!Next]_Work!vars
  <2>1. LiveNow' \subseteq LiveNow
    BY <1>4 DEF DestroyCommandBuffer, LiveNow, Alive, SubmissionInv, TypeOK
  <2>. QED
    BY <1>4, <2>1, DropMaps DEF DestroyCommandBuffer
<1>5. CASE \/ \E c \in Commands : InitCommandBuffer(c)
           \/ CollectAfterSubmit
           \/ EndWaitAll
  BY <1>5, ReclaimMaps
<1>6. ASSUME NEW c \in Commands, NEW f \in armed \cup {c},
             NEW waits \in SUBSET Semaphores, SubmitWaiting(c, f, waits)
      PROVE  [Work!Next]_Work!vars
  BY <1>6, SubmitMaps DEF SubmitWaiting
<1>7. CASE CompleteBatch
  BY <1>7, CompleteMaps
<1>8. CASE \/ \E c \in Commands : SubmitFails(c)
           \/ \E f \in SurfaceFences : LendFence(f)
           \/ \E s \in Semaphores : ProduceSemaphore(s)
           \/ BeginWaitAll
           \/ UNCHANGED submissionVars
  <2>1. UNCHANGED <<held, used, referenced, pending, queue>>
    BY <1>8 DEF SubmitFails, LendFence, ArmFence, ProduceSemaphore, BeginWaitAll,
                submissionVars
  <2>2. LiveNow' = LiveNow /\ RunningNow' = RunningNow
    BY <2>1 DEF LiveNow, Alive, RunningNow
  <2>. QED
    BY <2>2 DEF Work!vars, LiveNow, RunningNow
<1>. QED
  BY <1>1, <1>2, <1>3, <1>4, <1>5, <1>6, <1>7, <1>8 DEF SubmissionNext

(* The Vulkan backend keeps the promise of GpuWork: command buffers, fences *)
(* and reclaiming put aside, an object may be dropped at any time and none  *)
(* is destroyed while work that uses it runs (GPUCommandBufferVK::Submit,   *)
(* CollectPendingSubmissions).                                             *)
THEOREM SubmissionImplementsGpuWork == SubmissionSpec => ImplementsGpuWork
<1>1. SubmissionInit => Work!Init
  BY DEF SubmissionInit, Work!Init, Alive
<1>. QED
  BY <1>1, SubmissionMaps, QueuedWork, InvariantHolds, PTL
     DEF SubmissionSpec, ImplementsGpuWork, Work!Spec

-----------------------------------------------------------------------------
(* Presentation: constants and sequences.                                  *)

LEMMA SlotFacts ==
  /\ SlotCount \in Nat \ {0}
  /\ 0 \in Slots /\ NoSlot \notin Slots
  /\ Slots = SurfaceFences /\ Slots \cap Images = {} /\ Slots \cap Commands = {}
  /\ Semaphores = Slots \cup Images
  /\ \A s \in Slots : (s + 1) % SlotCount \in Slots
<1>1. SlotCount \in Nat \ {0}
  <2>1. Cardinality(Images) \in Nat
    BY ImagesAreFinite, FS_CardinalityType
  <2>. QED
    BY <2>1 DEF SlotCount
<1>2. 0 \in Slots /\ NoSlot \notin Slots
  BY <1>1 DEF Slots, NoSlot
<1>3. \A s \in Slots : (s + 1) % SlotCount \in Slots
  <2>. SUFFICES ASSUME NEW s \in Slots PROVE (s + 1) % SlotCount \in Slots
    OBVIOUS
  <2>1. s + 1 \in Nat
    BY <1>1 DEF Slots
  <2>2. (s + 1) % SlotCount \in 0 .. SlotCount - 1
    BY <1>1, <2>1
  <2>. QED
    BY <2>2 DEF Slots
<1>. QED
  BY <1>1, <1>2, <1>3, SlotsLendFences, SemaphoresAreDistinct, FencesAreDistinct

(* Removing an element keeps the others, in their order.                   *)
LEMMA RemoveElement ==
  ASSUME NEW S, NEW s \in Seq(S), NEW n \in 1 .. Len(s)
  PROVE  /\ RemoveAt(s, n) \in Seq(S)
         /\ DOMAIN RemoveAt(s, n) = 1 .. Len(s) - 1
         /\ \A m \in DOMAIN RemoveAt(s, n) :
              /\ (IF m < n THEN m ELSE m + 1) \in DOMAIN s \ {n}
              /\ RemoveAt(s, n)[m] = s[IF m < n THEN m ELSE m + 1]
<1>1. PICK r : r = RemoveAt(s, n)
  OBVIOUS
<1>2. r = SeqWithout(s, n)
  BY <1>1 DEF RemoveAt, SeqWithout
<1>. QED
  BY <1>1, <1>2, ElementRemoved

-----------------------------------------------------------------------------
(* The inductive invariant: where the thread stands in a call, which frame *)
(* each batch belongs to, and where the signal of each acquire semaphore   *)
(* is on its way from the engine to the queue.                             *)

CallsAreConsistent ==
  /\ call \notin {"none", "destroy"} => thread = "running"
  /\ call = "destroy" => thread \in {"running", "waitAll"}
  /\ call \in {"acquireImage", "waitImage"} => frame \in armed
  /\ call \notin {"none", "waitImage"} => target = NoImage
  /\ call = "waitImage" => target \in Images
  /\ HoldsSurface => imageFence[target] = frame

ResetIsAlone ==
  /\ call \in {"collect", "destroy"} => queue = <<>>
  /\ call = "destroy" /\ thread = "running" => pending = {}

(* A batch renders a frame, with the fence and the acquire semaphore of    *)
(* the slot that its image was last given to, or waits for nothing.        *)
RendersFrame(batch) ==
  /\ batch.fence \in Slots
  /\ batch.waits = {batch.fence}
  /\ \E i \in Images : batch.signals = {i} /\ imageFence[i] = batch.fence

BatchesAreOfFrames ==
  \A n \in DOMAIN queue :
    \/ RendersFrame(queue[n])
    \/ queue[n].fence \in Commands /\ queue[n].waits = {} /\ queue[n].signals = {}

(* No signal of the acquire semaphore of a slot is outstanding.            *)
Clean(s) ==
  /\ semaphore[s] = "unsignaled"
  /\ \A n \in DOMAIN queue : s \notin queue[n].waits
  /\ \A n \in DOMAIN engine : engine[n].slot # s

IdleSlotsAreClean ==
  \A s \in Slots :
    fence[s] = "signaled" \/ (call = "acquireImage" /\ s = frame) => Clean(s)

OneSignalPerSlot ==
  \A s \in Slots :
    /\ \A n, m \in DOMAIN engine : engine[n].slot = s /\ engine[m].slot = s => n = m
    /\ semaphore[s] = "signaled" => \A n \in DOMAIN engine : engine[n].slot # s

PresenterInv ==
  /\ PresenterTypeOK
  /\ SubmissionInv
  /\ CallsAreConsistent
  /\ ResetIsAlone
  /\ BatchesAreOfFrames
  /\ IdleSlotsAreClean
  /\ OneSignalPerSlot

-----------------------------------------------------------------------------
(* The steps of the presenter as steps of submission.                      *)

(* A step that submission allows, or that leaves it alone.                 *)
Submits ==
  [\/ \E c \in Commands :
        \/ InitCommandBuffer(c)
        \/ SubmitWaiting(c, c, {})
        \/ SubmitFails(c)
        \/ DestroyCommandBuffer(c)
   \/ CollectAfterSubmit
   \/ BeginWaitAll
   \/ EndWaitAll
   \/ LendFence(frame)
   \/ CompleteBatch]_submissionVars

(* Every step but rendering, recreating and those of the engine is one.    *)
LEMMA SubmissionSteps ==
  ASSUME PresenterInv, [Next]_vars
  PROVE  \/ Submits
         \/ \E c \in Commands : Render(c)
         \/ EndRecreate
         \/ EngineStep
<1>1. CASE UseCommandBuffers
  <2>1. \A c \in Commands :
          Submit(c, c, {}, {}) => SubmitWaiting(c, c, {})
    BY DEF SubmitWaiting
  <2>. QED
    BY <1>1, <2>1 DEF UseCommandBuffers, Submits
<1>2. CASE WaitsForList \/ GpuStep
  BY <1>2 DEF WaitsForList, GpuStep, Submits
<1>3. CASE WaitSlot
  <2>1. thread = "running"
    BY <1>3 DEF WaitSlot, PresenterInv, CallsAreConsistent
  <2>. QED
    BY <1>3, <2>1 DEF WaitSlot, LendFence, Submits, submissionVars
<1>4. CASE \/ \E i \in Images : AcquireImage(i) \/ AcquireSuboptimal(i)
           \/ AcquireFails \/ WaitImage
           \/ BeginAcquire \/ Present \/ Discard \/ BeginRecreate
           \/ WaitIdle \/ RecreateFails
           \/ UNCHANGED vars
  BY <1>4 DEF AcquireImage, AcquireSuboptimal, AcquireFails, WaitImage,
              BeginAcquire, Present, Discard, BeginRecreate, WaitIdle,
              RecreateFails, vars, Submits
<1>5. CASE ResetCollects
  BY <1>5 DEF ResetCollects, Submits
<1>. QED
  BY <1>1, <1>2, <1>3, <1>4, <1>5 DEF Next, AcquireStep, RecreateStep

(* So the invariant of submission carries over.                            *)
LEMMA SubmissionCarries ==
  ASSUME PresenterInv, [Next]_vars
  PROVE  SubmissionInv'
<1>. USE DEF PresenterInv
<1>1. CASE Submits
  <2>1. frame \in SurfaceFences
    BY SlotFacts DEF PresenterTypeOK
  <2>2. [SubmissionNext]_submissionVars
    BY <1>1, <2>1 DEF Submits, SubmissionNext
  <2>. QED
    BY <2>2, SafetyStep
<1>2. ASSUME NEW c \in Commands, Render(c)
      PROVE  SubmissionInv'
  <2>1. /\ {frame} \in SUBSET Semaphores /\ {target} \in SUBSET Semaphores
        /\ Submit(c, frame, {frame}, {target})
    BY <1>2, SlotFacts
       DEF Render, HoldsSurface, PresenterTypeOK, AcquireSemaphore,
           PresentSemaphore
  <2>2. frame \in armed \cup {c}
    BY <2>1 DEF Submit
  <2>3. TypeOK'
    <3>1. TypeOK
      BY DEF PresenterTypeOK
    <3>. QED
      BY <2>1, <2>2, <3>1, SubmitType
  <2>. QED
    BY <2>1, <2>2, <2>3, SubmitStep
<1>3. CASE EngineStep
  <2>1. UNCHANGED <<command, pools, held, used, referenced, pending, fence,
                    queue, armed, thread>>
    BY <1>3 DEF EngineStep
  <2>2. semaphore' \in [Semaphores -> {"unsignaled", "signaled"}]
    BY <1>3 DEF EngineStep, SignalAcquire, ExecutePresent, PresenterTypeOK, TypeOK
  <2>3. TypeOK'
    BY <2>1, <2>2 DEF PresenterTypeOK, TypeOK
  <2>4. InFlightWorkIsHeld' /\ FencesAreUsedOnce'
    BY <2>1 DEF SubmissionInv, InFlightWorkIsHeld, FencesAreUsedOnce
  <2>5. NothingLeaks'
    BY <2>1 DEF SubmissionInv, NothingLeaks, PendingCommands
  <2>6. WaitAllHangsOnlyOnArmedFences'
    BY <2>1 DEF SubmissionInv, WaitAllHangsOnlyOnArmedFences, Signaled, QueuedFences
  <2>7. Ownership'
    BY <2>1 DEF SubmissionInv, Ownership, OwnsFence, PendingCommands, QueuedFences
  <2>. QED
    BY <2>3, <2>4, <2>5, <2>6, <2>7 DEF SubmissionInv
<1>4. CASE EndRecreate
  <2>1. /\ UNCHANGED <<command, pools, held, used, referenced, pending, queue,
                       thread>>
        /\ queue = <<>> /\ pending = {} /\ armed' = {}
        /\ \A f \in Fences :
             fence'[f] = IF f \in SurfaceFences THEN "signaled" ELSE fence[f]
    BY <1>4, SlotFacts DEF EndRecreate, ResetIsAlone, PresenterTypeOK, TypeOK
  <2>2. TypeOK'
    BY <1>4, <2>1, SlotFacts DEF EndRecreate, PresenterTypeOK, TypeOK
  <2>3. DOMAIN queue' = {}
    BY <2>1
  <2>4. NothingLeaks'
    BY <2>1, FencesAreDistinct
       DEF SubmissionInv, NothingLeaks, PendingCommands, Fences
  <2>. QED
    BY <2>1, <2>2, <2>3, <2>4
       DEF SubmissionInv, InFlightWorkIsHeld, FencesAreUsedOnce,
           WaitAllHangsOnlyOnArmedFences, Ownership, OwnsFence, Signaled,
           PendingCommands, QueuedFences
<1>. QED
  BY <1>1, <1>2, <1>3, <1>4, SubmissionSteps

-----------------------------------------------------------------------------
(* The parts of the invariant that are the presenter's own.                *)

(* The types of the presenter's own variables.                             *)
LEMMA PresenterTypeStep ==
  ASSUME PresenterInv, [Next]_vars
  PROVE  PresenterTypeOK'
<1>. USE DEF PresenterInv, PresenterTypeOK
<1>1. TypeOK'
  BY SubmissionCarries DEF SubmissionInv
<1>2. ASSUME NEW i \in Images, NEW slot \in Slots \cup {NoSlot}
      PROVE  Append(engine, [image |-> i, slot |-> slot])
               \in Seq([image : Images, slot : Slots \cup {NoSlot}])
  <2>1. [image |-> i, slot |-> slot] \in [image : Images, slot : Slots \cup {NoSlot}]
    OBVIOUS
  <2>. QED
    BY <2>1, AppendElements
<1>3. NextSlot \in Slots
  BY SlotFacts DEF NextSlot
<1>4. ASSUME NEW i \in Images, AcquireImage(i) \/ AcquireSuboptimal(i)
      PROVE  PresenterTypeOK'
  BY <1>1, <1>2, <1>4 DEF AcquireImage, AcquireSuboptimal, Release, Calls
<1>5. CASE WaitSlot \/ AcquireFails \/ BeginAcquire
  BY <1>1, <1>5 DEF WaitSlot, AcquireFails, BeginAcquire, Calls
<1>6. CASE WaitImage
  BY <1>1, <1>6 DEF WaitImage, Calls, CallsAreConsistent
<1>7. CASE Present
  BY <1>1, <1>2, <1>3, <1>7 DEF Present, Presentation, Calls, HoldsSurface
<1>8. CASE Discard \/ BeginRecreate \/ WaitIdle \/ ResetCollects \/ RecreateFails
  BY <1>1, <1>8
     DEF Discard, BeginRecreate, WaitIdle, ResetCollects, RecreateFails, Calls
<1>9. CASE EndRecreate
  BY <1>1, <1>9, SlotFacts, EmptySeq DEF EndRecreate, Calls
<1>10. CASE EngineStep
  <2>1. engine' \in Seq([image : Images, slot : Slots \cup {NoSlot}])
    BY <1>10, RemoveElement DEF EngineStep
  <2>. QED
    BY <1>1, <1>10, <2>1 DEF EngineStep
<1>11. CASE \/ \E c \in Commands : Render(c)
            \/ UseCommandBuffers \/ WaitsForList \/ GpuStep
            \/ UNCHANGED vars
  <2>1. UNCHANGED windowVars
    BY <1>11 DEF Render, UseCommandBuffers, WaitsForList, GpuStep, vars
  <2>. QED
    BY <1>1, <2>1 DEF windowVars
<1>. QED
  BY <1>4, <1>5, <1>6, <1>7, <1>8, <1>9, <1>10, <1>11
     DEF Next, AcquireStep, RecreateStep

(* Where the thread stands in a call, and that a reset is alone.           *)
LEMMA CallsStep ==
  ASSUME PresenterInv, [Next]_vars
  PROVE  CallsAreConsistent' /\ ResetIsAlone'
<1>. USE DEF PresenterInv, PresenterTypeOK, CallsAreConsistent, ResetIsAlone,
             HoldsSurface
<1>1. ASSUME NEW i \in Images, AcquireImage(i) \/ AcquireSuboptimal(i)
      PROVE  CallsAreConsistent' /\ ResetIsAlone'
  BY <1>1, ImagesAreFinite DEF AcquireImage, AcquireSuboptimal, submissionVars
<1>2. CASE WaitSlot
  BY <1>2 DEF WaitSlot, ArmFence
<1>3. CASE AcquireFails \/ BeginAcquire \/ BeginRecreate \/ Discard \/ Present
  BY <1>3 DEF AcquireFails, BeginAcquire, BeginRecreate, Discard, Present, Idle,
              submissionVars
<1>4. CASE WaitImage
  BY <1>4 DEF WaitImage, submissionVars
<1>5. CASE WaitIdle \/ ResetCollects \/ RecreateFails
  BY <1>5 DEF WaitIdle, ResetCollects, BeginWaitAll, RecreateFails, submissionVars
<1>6. CASE EndRecreate
  BY <1>6 DEF EndRecreate
<1>7. CASE EngineStep
  BY <1>7 DEF EngineStep
<1>8. CASE (\E c \in Commands : Render(c)) \/ UseCommandBuffers
  BY <1>8 DEF Render, UseCommandBuffers, windowVars
<1>9. CASE WaitsForList
  <2>1. /\ thread = "waitAll" /\ thread' = "running" /\ pending' = {}
        /\ UNCHANGED <<queue, armed, call, frame, target, imageFence>>
    BY <1>9 DEF WaitsForList, EndWaitAll, Reclaim, windowVars
  <2>. QED
    BY <2>1
<1>10. CASE GpuStep
  BY <1>10 DEF GpuStep, CompleteBatch, windowVars
<1>11. CASE UNCHANGED vars
  BY <1>11 DEF vars, submissionVars, windowVars
<1>. QED
  BY <1>1, <1>2, <1>3, <1>4, <1>5, <1>6, <1>7, <1>8, <1>9, <1>10, <1>11
     DEF Next, AcquireStep, RecreateStep

(* Batches stay the frames of the slots that their images were given to:   *)
(* an image changes slots when the queue is done with its last frame.      *)
LEMMA BatchesStep ==
  ASSUME PresenterInv, [Next]_vars
  PROVE  BatchesAreOfFrames'
<1>. USE DEF PresenterInv, PresenterTypeOK
<1>. DEFINE IsOfFrame(batch) ==
              \/ RendersFrame(batch)
              \/ batch.fence \in Commands /\ batch.waits = {} /\ batch.signals = {}
<1>1. /\ DOMAIN queue = 1 .. Len(queue) /\ queue \in Seq(Batch)
      /\ \A n \in DOMAIN queue : queue[n] \in Batch
  BY LenProperties, ElementOfSeq DEF TypeOK
<1>2. ASSUME UNCHANGED <<queue, imageFence>>
      PROVE  BatchesAreOfFrames'
  BY <1>2 DEF BatchesAreOfFrames, RendersFrame
<1>3. ASSUME NEW c \in Commands, NEW f \in armed \cup {c},
             NEW waits \in SUBSET Semaphores, NEW signals \in SUBSET Semaphores,
             Submit(c, f, waits, signals), UNCHANGED imageFence,
             IsOfFrame([command |-> c, fence |-> f,
                        waits |-> waits, signals |-> signals])
      PROVE  BatchesAreOfFrames'
  <2>. DEFINE batch == [command |-> c, fence |-> f,
                        waits |-> waits, signals |-> signals]
              last == Len(queue) + 1
  <2>1. batch \in Batch
    BY DEF Batch, Fences, TypeOK
  <2>2. /\ DOMAIN queue' = DOMAIN queue \cup {last}
        /\ \A n \in DOMAIN queue : queue'[n] = queue[n]
        /\ queue'[last] = batch
    BY <1>1, <1>3, <2>1, AppendElements DEF Submit
  <2>3. IsOfFrame(batch)
    BY <1>3
  <2>. HIDE DEF batch
  <2>. QED
    BY <1>3, <2>2, <2>3 DEF BatchesAreOfFrames, RendersFrame
<1>4. ASSUME NEW c \in Commands, Render(c)
      PROVE  BatchesAreOfFrames'
  <2>1. /\ frame \in Slots /\ target \in Images /\ imageFence[target] = frame
        /\ {frame} \in SUBSET Semaphores /\ {target} \in SUBSET Semaphores
        /\ Submit(c, frame, {frame}, {target})
        /\ UNCHANGED imageFence
    BY <1>4, SlotFacts
       DEF Render, HoldsSurface, AcquireSemaphore, PresentSemaphore, windowVars,
           CallsAreConsistent
  <2>2. RendersFrame([command |-> c, fence |-> frame,
                      waits |-> {frame}, signals |-> {target}])
    BY <2>1 DEF RendersFrame
  <2>3. frame \in armed \cup {c}
    BY <2>1 DEF Submit
  <2>. QED
    BY <1>3, <2>1, <2>2, <2>3
<1>5. CASE UseCommandBuffers
  <2>1. UNCHANGED imageFence
    BY <1>5 DEF UseCommandBuffers, windowVars
  <2>2. ASSUME NEW c \in Commands, Submit(c, c, {}, {})
        PROVE  BatchesAreOfFrames'
    <3>1. IsOfFrame([command |-> c, fence |-> c, waits |-> {}, signals |-> {}])
      OBVIOUS
    <3>. QED
      BY <1>3, <2>1, <2>2, <3>1
  <2>3. CASE queue' = queue
    BY <1>2, <2>1, <2>3
  <2>. QED
    BY <1>5, <2>2, <2>3
       DEF UseCommandBuffers, InitCommandBuffer, SubmitFails,
           DestroyCommandBuffer, CollectAfterSubmit, BeginWaitAll
<1>6. CASE GpuStep
  <2>1. /\ UNCHANGED imageFence
        /\ \A n \in DOMAIN queue' : n + 1 \in DOMAIN queue /\ queue'[n] = queue[n + 1]
    BY <1>1, <1>6, TailElements DEF GpuStep, CompleteBatch, windowVars
  <2>. QED
    BY <2>1 DEF BatchesAreOfFrames, RendersFrame
<1>7. CASE WaitImage
  <2>. SUFFICES ASSUME NEW n \in DOMAIN queue, RendersFrame(queue[n])
                PROVE  RendersFrame(queue[n])'
    BY <1>7 DEF WaitImage, BatchesAreOfFrames, submissionVars, RendersFrame
  <2>1. /\ queue' = queue /\ target \in Images
        /\ imageFence' = [imageFence EXCEPT ![target] = frame]
    BY <1>7 DEF WaitImage, submissionVars, CallsAreConsistent
  <2>2. PICK i \in Images : /\ queue[n].signals = {i}
                            /\ imageFence[i] = queue[n].fence
    BY DEF RendersFrame
  <2>3. fence[queue[n].fence] = "unsignaled"
    BY DEF SubmissionInv, FencesAreUsedOnce
  <2>4. i = target => queue[n].fence = frame
    BY <1>7, <2>2, <2>3, SlotFacts
       DEF WaitImage, ImageIsIdle, FenceIsSignaled, RendersFrame
  <2>5. imageFence'[i] = queue[n].fence
    BY <2>1, <2>2, <2>4
  <2>. QED
    BY <2>1, <2>2, <2>5 DEF RendersFrame
<1>8. CASE EndRecreate
  <2>1. DOMAIN queue' = {}
    BY <1>8 DEF EndRecreate, ResetIsAlone
  <2>. QED
    BY <2>1 DEF BatchesAreOfFrames
<1>9. CASE \/ WaitSlot
           \/ \E i \in Images : AcquireImage(i) \/ AcquireSuboptimal(i)
           \/ AcquireFails \/ BeginAcquire \/ Present \/ Discard \/ BeginRecreate
           \/ WaitIdle \/ ResetCollects \/ RecreateFails
           \/ WaitsForList \/ EngineStep \/ UNCHANGED vars
  <2>1. UNCHANGED <<queue, imageFence>>
    BY <1>9
       DEF WaitSlot, ArmFence, AcquireImage, AcquireSuboptimal, AcquireFails,
           BeginAcquire, Present, Discard, BeginRecreate, WaitIdle,
           ResetCollects, BeginWaitAll, RecreateFails, WaitsForList, EndWaitAll,
           EngineStep, vars, submissionVars, windowVars
  <2>. QED
    BY <1>2, <2>1
<1>. QED
  BY <1>4, <1>5, <1>6, <1>7, <1>8, <1>9 DEF Next, AcquireStep, RecreateStep

(* The invariant of the acquire semaphores.                                *)
SlotsInv == IdleSlotsAreClean /\ OneSignalPerSlot

(* A step that leaves the engine, the semaphores and the batches alone and *)
(* makes no slot idle.                                                     *)
SlotsAreLeft ==
  /\ UNCHANGED <<queue, engine, semaphore>>
  /\ \A s \in Slots : fence'[s] = "signaled" => fence[s] = "signaled"
  /\ call' = "acquireImage" =>
       fence[frame'] = "signaled" \/ (call = "acquireImage" /\ frame' = frame)

(* Such a step keeps the invariant of the slots. *)
LEMMA LeftSlots ==
  ASSUME PresenterInv, frame' \in Slots, SlotsAreLeft
  PROVE  SlotsInv'
  BY DEF PresenterInv, SlotsInv, SlotsAreLeft, IdleSlotsAreClean,
         OneSignalPerSlot, Clean

(* Most steps do.                                                          *)
LEMMA LeavingSteps ==
  ASSUME PresenterInv, [Next]_vars
  PROVE  \/ SlotsAreLeft
         \/ \E i \in Images : AcquireImage(i) \/ AcquireSuboptimal(i)
         \/ \E c \in Commands : Render(c)
         \/ /\ \E c \in Commands : Submit(c, c, {}, {})
            /\ call = "none" /\ UNCHANGED windowVars
         \/ Present \/ EndRecreate \/ GpuStep \/ EngineStep
<1>. USE DEF PresenterInv, PresenterTypeOK
<1>1. CASE WaitSlot
  <2>1. /\ UNCHANGED <<queue, engine, semaphore, frame>>
        /\ fence[frame] = "signaled"
        /\ \A s \in Slots : fence'[s] = "signaled" => fence[s] = "signaled"
    BY <1>1, SlotFacts DEF WaitSlot, ArmFence, FenceIsSignaled, TypeOK, Fences
  <2>. QED
    BY <2>1 DEF SlotsAreLeft
<1>2. CASE \/ AcquireFails \/ WaitImage \/ BeginAcquire \/ Discard
           \/ BeginRecreate \/ WaitIdle \/ ResetCollects \/ RecreateFails
           \/ UNCHANGED vars
  BY <1>2
     DEF AcquireFails, WaitImage, BeginAcquire, Discard, BeginRecreate,
         WaitIdle, ResetCollects, BeginWaitAll, RecreateFails, vars,
         submissionVars, windowVars, SlotsAreLeft
<1>3. CASE UseCommandBuffers \/ WaitsForList
  <2>1. UNCHANGED windowVars
    BY <1>3 DEF UseCommandBuffers, WaitsForList
  <2>2. ASSUME NEW completed \in SUBSET pending, Reclaim(completed),
               NEW s \in Slots
        PROVE  fence'[s] = fence[s]
    <3>1. \A p \in completed : p.fence = s => ~OwnsFence(p)
      BY SlotFacts DEF OwnsFence, TypeOK, Submission
    <3>. QED
      BY <2>2, <3>1, SlotFacts DEF Reclaim, Fences
  <2>3. Completed \in SUBSET pending
    BY DEF Completed
  <2>4. \/ \E c \in Commands : Submit(c, c, {}, {})
        \/ UNCHANGED <<queue, semaphore>> /\ \A s \in Slots : fence'[s] = fence[s]
    BY <1>3, <2>2, <2>3
       DEF UseCommandBuffers, WaitsForList, InitCommandBuffer, SubmitFails,
           DestroyCommandBuffer, CollectAfterSubmit, BeginWaitAll, EndWaitAll
  <2>5. CASE \E c \in Commands : Submit(c, c, {}, {})
    <3>1. UseCommandBuffers
      BY <1>3, <2>5 DEF WaitsForList, EndWaitAll, Submit
    <3>. QED
      BY <2>1, <2>5, <3>1 DEF UseCommandBuffers
  <2>. QED
    BY <2>1, <2>4, <2>5 DEF SlotsAreLeft, windowVars
<1>. QED
  BY <1>1, <1>2, <1>3 DEF Next, AcquireStep, RecreateStep

(* An acquire adds its signal to a slot that is clean.                     *)
LEMMA AcquireKeepsSlots ==
  ASSUME PresenterInv, NEW i \in Images, AcquireImage(i) \/ AcquireSuboptimal(i)
  PROVE  SlotsInv'
<1>. USE DEF PresenterInv, PresenterTypeOK
<1>. DEFINE last == Len(engine) + 1
<1>1. /\ call = "acquireImage" /\ call' # "acquireImage"
      /\ UNCHANGED <<queue, semaphore, fence, frame>>
      /\ engine' = Append(engine, Release(i, frame))
  BY DEF AcquireImage, AcquireSuboptimal, submissionVars
<1>2. /\ DOMAIN engine' = DOMAIN engine \cup {last}
      /\ \A n \in DOMAIN engine : engine'[n] = engine[n]
      /\ engine'[last].slot = frame
  <2>1. Release(i, frame) \in [image : Images, slot : Slots \cup {NoSlot}]
    BY DEF Release
  <2>. QED
    BY <1>1, <2>1, AppendElements DEF Release
<1>3. fence[frame] # "signaled"
  BY <1>1 DEF CallsAreConsistent, SubmissionInv, Ownership
<1>4. Clean(frame)
  BY <1>1 DEF IdleSlotsAreClean
<1>. HIDE DEF last
<1>5. IdleSlotsAreClean'
  BY <1>1, <1>2, <1>3 DEF IdleSlotsAreClean, Clean
<1>6. OneSignalPerSlot'
  BY <1>1, <1>2, <1>4 DEF OneSignalPerSlot, Clean
<1>. QED
  BY <1>5, <1>6 DEF SlotsInv

(* A batch waits for the semaphore of a slot that is not idle.             *)
LEMMA SubmitKeepsSlots ==
  ASSUME PresenterInv, NEW c \in Commands, NEW f \in armed \cup {c},
         NEW waits \in SUBSET Semaphores, NEW signals \in SUBSET Semaphores,
         Submit(c, f, waits, signals), UNCHANGED windowVars, call = "none",
         \A s \in waits : fence[s] = "unsignaled"
  PROVE  SlotsInv'
<1>. USE DEF PresenterInv, PresenterTypeOK
<1>. DEFINE batch == [command |-> c, fence |-> f,
                      waits |-> waits, signals |-> signals]
            last == Len(queue) + 1
<1>1. batch \in Batch /\ batch.waits = waits
  BY DEF Batch, Fences, TypeOK
<1>2. /\ DOMAIN queue' = DOMAIN queue \cup {last}
      /\ \A n \in DOMAIN queue : queue'[n] = queue[n]
      /\ queue'[last] = batch
      /\ semaphore' = semaphore
      /\ \A s \in Slots : fence'[s] = fence[s]
  BY <1>1, AppendElements, SlotFacts DEF Submit, TypeOK, Fences
<1>. HIDE DEF batch, last
<1>3. IdleSlotsAreClean'
  BY <1>1, <1>2 DEF IdleSlotsAreClean, Clean, windowVars
<1>4. OneSignalPerSlot'
  BY <1>2 DEF OneSignalPerSlot, windowVars
<1>. QED
  BY <1>3, <1>4 DEF SlotsInv

(* A presentation is no slot's signal.                                     *)
LEMMA PresentKeepsSlots ==
  ASSUME PresenterInv, Present
  PROVE  SlotsInv'
<1>. USE DEF PresenterInv, PresenterTypeOK
<1>. DEFINE last == Len(engine) + 1
<1>1. /\ call' = "none" /\ target \in Images
      /\ UNCHANGED <<queue, semaphore, fence>>
      /\ engine' = Append(engine, Presentation(target))
  BY DEF Present, HoldsSurface, submissionVars
<1>2. /\ DOMAIN engine' = DOMAIN engine \cup {last}
      /\ \A n \in DOMAIN engine : engine'[n] = engine[n]
      /\ engine'[last].slot \notin Slots
  <2>1. Presentation(target) \in [image : Images, slot : Slots \cup {NoSlot}]
    BY <1>1 DEF Presentation
  <2>. QED
    BY <1>1, <2>1, AppendElements, SlotFacts DEF Presentation
<1>. HIDE DEF last
<1>3. IdleSlotsAreClean'
  BY <1>1, <1>2 DEF IdleSlotsAreClean, Clean
<1>4. OneSignalPerSlot'
  BY <1>1, <1>2 DEF OneSignalPerSlot
<1>. QED
  BY <1>3, <1>4 DEF SlotsInv

(* The batch of a frame consumes the one signal of its slot, and makes the *)
(* slot idle.                                                              *)
LEMMA GpuKeepsSlots ==
  ASSUME PresenterInv, GpuStep
  PROVE  SlotsInv'
<1>. USE DEF PresenterInv, PresenterTypeOK
<1>0. PICK batch, f : batch = queue[1] /\ f = batch.fence
  OBVIOUS
<1>1. /\ 1 \in DOMAIN queue /\ Head(queue) = batch
      /\ \A n \in DOMAIN queue' : /\ n + 1 \in DOMAIN queue /\ n + 1 # 1
                                  /\ queue'[n] = queue[n + 1]
  BY <1>0, TailElements DEF GpuStep, CompleteBatch, TypeOK
<1>2. /\ \A s \in batch.waits : semaphore[s] = "signaled"
      /\ fence' = [fence EXCEPT ![f] = "signaled"]
      /\ \A s \in Slots : semaphore'[s] = IF s \in batch.signals THEN "signaled"
                                          ELSE IF s \in batch.waits THEN "unsignaled"
                                          ELSE semaphore[s]
      /\ UNCHANGED <<call, frame, engine>>
  BY <1>0, <1>1, SlotFacts DEF GpuStep, CompleteBatch, windowVars
<1>3. \A s \in Slots \ {f} : fence'[s] = fence[s]
  BY <1>2, SlotFacts DEF TypeOK, Fences
<1>4. /\ batch.signals \cap Slots = {}
      /\ batch.waits \subseteq {f}
      /\ f \in Slots => batch.waits = {f}
  BY <1>0, <1>1, SlotFacts DEF BatchesAreOfFrames, RendersFrame
<1>5. \A n \in DOMAIN queue' : f \notin queue'[n].waits
  <2>1. \A n \in DOMAIN queue : n # 1 => queue[n].fence # f
    BY <1>0, <1>1 DEF SubmissionInv, FencesAreUsedOnce
  <2>2. \A n \in DOMAIN queue : queue[n].waits \subseteq {queue[n].fence}
    BY DEF BatchesAreOfFrames, RendersFrame
  <2>. QED
    BY <1>1, <2>1, <2>2
<1>6. f \in Slots => Clean(f)'
  BY <1>2, <1>4, <1>5 DEF Clean, OneSignalPerSlot
<1>7. \A s \in Slots \ {f} : Clean(s) => Clean(s)'
  BY <1>1, <1>2, <1>4 DEF Clean
<1>8. IdleSlotsAreClean'
  BY <1>2, <1>3, <1>6, <1>7 DEF IdleSlotsAreClean
<1>9. OneSignalPerSlot'
  BY <1>2, <1>4 DEF OneSignalPerSlot
<1>. QED
  BY <1>8, <1>9 DEF SlotsInv

(* The engine gives a slot its one signal.                                 *)
LEMMA EngineKeepsSlots ==
  ASSUME PresenterInv, EngineStep
  PROVE  SlotsInv'
<1>. USE DEF PresenterInv, PresenterTypeOK
<1>1. PICK n \in 1 .. Len(engine) : /\ SignalAcquire(n) \/ ExecutePresent(n)
                                    /\ engine' = RemoveAt(engine, n)
  BY DEF EngineStep
<1>2. UNCHANGED <<queue, fence, call, frame>>
  BY DEF EngineStep
<1>3. /\ DOMAIN engine = 1 .. Len(engine) /\ Len(engine) \in Nat
      /\ n \in DOMAIN engine
      /\ engine[n] \in [image : Images, slot : Slots \cup {NoSlot}]
  BY <1>1, LenProperties, ElementOfSeq
<1>. DEFINE Before(m) == IF m < n THEN m ELSE m + 1
<1>4. \A m \in DOMAIN engine' : /\ Before(m) \in DOMAIN engine \ {n}
                                /\ engine'[m] = engine[Before(m)]
  BY <1>1, RemoveElement
<1>5. \A m, k \in DOMAIN engine' : Before(m) = Before(k) => m = k
  <2>1. engine' \in Seq([image : Images, slot : Slots \cup {NoSlot}])
    BY <1>1, RemoveElement
  <2>2. DOMAIN engine' \subseteq Int /\ n \in Int
    BY <1>3, <2>1, LenProperties
  <2>. QED
    BY <2>2
<1>. HIDE DEF Before
<1>6. \A s \in Slots :
        \/ semaphore'[s] = semaphore[s]
        \/ engine[n].slot = s
  BY <1>1, <1>3, SlotFacts
     DEF SignalAcquire, ExecutePresent, AcquireSemaphore, PresentSemaphore,
         TypeOK
<1>7. IdleSlotsAreClean'
  <2>. SUFFICES ASSUME NEW s \in Slots,
                       fence[s] = "signaled" \/ (call = "acquireImage" /\ s = frame)
                PROVE  Clean(s)'
    BY <1>2 DEF IdleSlotsAreClean
  <2>1. Clean(s)
    BY DEF IdleSlotsAreClean
  <2>. QED
    BY <1>2, <1>3, <1>4, <1>6, <2>1 DEF Clean
<1>8. OneSignalPerSlot'
  <2>1. \A s \in Slots, m, k \in DOMAIN engine' :
          engine'[m].slot = s /\ engine'[k].slot = s => m = k
    BY <1>4, <1>5 DEF OneSignalPerSlot
  <2>2. ASSUME NEW s \in Slots, semaphore'[s] = "signaled",
               NEW m \in DOMAIN engine'
        PROVE  engine'[m].slot # s
    BY <1>3, <1>4, <1>6, <2>2 DEF OneSignalPerSlot
  <2>. QED
    BY <2>1, <2>2 DEF OneSignalPerSlot
<1>. QED
  BY <1>7, <1>8 DEF SlotsInv

(* An idle slot is clean, and a slot has at most one signal on its way.    *)
LEMMA SlotsStep ==
  ASSUME PresenterInv, [Next]_vars
  PROVE  SlotsInv'
<1>. USE DEF PresenterInv, PresenterTypeOK
<1>1. CASE SlotsAreLeft
  <2>1. frame' \in Slots
    BY PresenterTypeStep
  <2>. QED
    BY <1>1, <2>1, LeftSlots
<1>2. CASE \E i \in Images : AcquireImage(i) \/ AcquireSuboptimal(i)
  BY <1>2, AcquireKeepsSlots
<1>3. ASSUME NEW c \in Commands, Render(c)
      PROVE  SlotsInv'
  <2>1. /\ Submit(c, frame, {frame}, {target}) /\ call = "none"
        /\ {frame} \in SUBSET Semaphores /\ {target} \in SUBSET Semaphores
        /\ UNCHANGED windowVars
    BY <1>3, SlotFacts
       DEF Render, HoldsSurface, AcquireSemaphore, PresentSemaphore
  <2>2. frame \in armed
    BY <2>1, SlotFacts DEF Submit
  <2>3. fence[frame] = "unsignaled"
    BY <2>2 DEF SubmissionInv, Ownership
  <2>. QED
    BY <2>1, <2>2, <2>3, SubmitKeepsSlots
<1>4. ASSUME NEW c \in Commands, Submit(c, c, {}, {}), UNCHANGED windowVars,
             call = "none"
      PROVE  SlotsInv'
  <2>1. c \in armed \cup {c} /\ {} \in SUBSET Semaphores
    OBVIOUS
  <2>. QED
    BY <1>4, <2>1, SubmitKeepsSlots
<1>5. CASE Present
  BY <1>5, PresentKeepsSlots
<1>6. CASE EndRecreate
  <2>1. /\ DOMAIN queue' = {} /\ DOMAIN engine' = {}
        /\ \A s \in Slots : semaphore'[s] = "unsignaled"
    BY <1>6, SlotFacts DEF EndRecreate, ResetIsAlone
  <2>. QED
    BY <2>1 DEF SlotsInv, IdleSlotsAreClean, OneSignalPerSlot, Clean
<1>7. CASE GpuStep
  BY <1>7, GpuKeepsSlots
<1>8. CASE EngineStep
  BY <1>8, EngineKeepsSlots
<1>. QED
  BY <1>1, <1>2, <1>3, <1>4, <1>5, <1>6, <1>7, <1>8, LeavingSteps

-----------------------------------------------------------------------------
(* The present semaphores: the order of what the engine has yet to do with *)
(* an image, against the writes of the image and its semaphore. Places are *)
(* those of the engine's operations.                                       *)

PresentedBetween(i, j, k) ==
  \E m \in DOMAIN engine : j < m /\ m < k /\ engine[m] = Presentation(i)

(* Whatever was acquired before place k is presented before it, and if the *)
(* image's semaphore is or will be signaled, something is.                 *)
Settled(i, k) ==
  /\ semaphore[i] = "signaled" \/ BatchSignals(i) # {} => PresentedBetween(i, 0, k)
  /\ \A j \in DOMAIN engine :
       j < k /\ engine[j].image = i /\ engine[j].slot # NoSlot
         => PresentedBetween(i, j, k)

(* What waits for the slot's semaphore finds that of the image unsignaled. *)
AwaitsImage(i, s) ==
  \/ \E k \in DOMAIN engine :
       /\ engine[k] = Release(i, s)
       /\ semaphore[i] = "signaled" => PresentedBetween(i, 0, k)
  \/ semaphore[s] = "signaled" /\ semaphore[i] = "unsignaled"

(* An image that was acquired with the slot and is yet to be rendered.     *)
Ready(i, s) ==
  \/ \E k \in DOMAIN engine :
       /\ engine[k] = Release(i, s)
       /\ \A j \in DOMAIN engine : engine[j].image = i => j <= k
       /\ Settled(i, k)
  \/ /\ semaphore[s] = "signaled" /\ semaphore[i] = "unsignaled"
     /\ BatchSignals(i) = {}

BatchesAwaitImages ==
  \A n \in DOMAIN queue : \A i \in queue[n].signals : AwaitsImage(i, queue[n].fence)

Unrendered == call = "waitImage" \/ (HoldsSurface /\ frame \in armed)

AcquiredImageIsReady == Unrendered => Ready(target, frame)

FreeImagesAreSettled == \A i \in Images \ acquired : Settled(i, Len(engine) + 1)

TargetIsAcquired == target # NoImage => target \in acquired

AlternationInv ==
  /\ BatchesAwaitImages
  /\ AcquiredImageIsReady
  /\ FreeImagesAreSettled
  /\ TargetIsAcquired

(* What the engine, the queue and the semaphores consist of.               *)
LEMMA OperationFacts ==
  ASSUME PresenterInv
  PROVE  /\ Len(engine) \in Nat /\ DOMAIN engine = 1 .. Len(engine)
         /\ \A n \in DOMAIN engine :
              engine[n] \in [image : Images, slot : Slots \cup {NoSlot}]
         /\ DOMAIN queue \subseteq Nat
         /\ \A n \in DOMAIN queue :
              /\ queue[n] \in Batch
              /\ queue[n].signals \subseteq Images
              /\ \A i \in queue[n].signals : /\ queue[n].signals = {i}
                                             /\ queue[n].waits = {queue[n].fence}
                                             /\ queue[n].fence \in Slots
                                             /\ imageFence[i] = queue[n].fence
         /\ \A s \in Slots \cup Images : semaphore[s] \in {"unsignaled", "signaled"}
<1>. USE DEF PresenterInv, PresenterTypeOK, TypeOK
<1>1. /\ Len(engine) \in Nat /\ DOMAIN engine = 1 .. Len(engine)
      /\ \A n \in DOMAIN engine :
           engine[n] \in [image : Images, slot : Slots \cup {NoSlot}]
  <2>1. engine \in Seq([image : Images, slot : Slots \cup {NoSlot}])
    OBVIOUS
  <2>2. Len(engine) \in Nat /\ DOMAIN engine = 1 .. Len(engine)
    BY <2>1, LenProperties
  <2>. QED
    BY <2>1, <2>2, ElementOfSeq
<1>2. DOMAIN queue \subseteq Nat /\ \A n \in DOMAIN queue : queue[n] \in Batch
  <2>1. queue \in Seq(Batch)
    OBVIOUS
  <2>2. Len(queue) \in Nat /\ DOMAIN queue = 1 .. Len(queue)
    BY <2>1, LenProperties
  <2>. QED
    BY <2>1, <2>2, ElementOfSeq
<1>. QED
  BY <1>1, <1>2, SlotFacts DEF BatchesAreOfFrames, RendersFrame

(* At most one batch on the queue renders an image.                        *)
LEMMA OneBatchPerImage ==
  ASSUME PresenterInv, NEW n \in DOMAIN queue, NEW m \in DOMAIN queue,
         NEW i, i \in queue[n].signals, i \in queue[m].signals
  PROVE  n = m
  BY OperationFacts DEF PresenterInv, SubmissionInv, FencesAreUsedOnce

(* A step of the thread that asks nothing of the queue and the engine, and *)
(* acquires nothing.                                                       *)
OperationsAreLeft ==
  /\ UNCHANGED <<queue, engine, semaphore, acquired>>
  /\ target' \in {target, NoImage}
  /\ Unrendered' => Unrendered /\ UNCHANGED <<target, frame>>

(* Such a step keeps the invariant.                                        *)
LEMMA LeftOperations ==
  ASSUME AlternationInv, OperationsAreLeft
  PROVE  AlternationInv'
<1>. USE DEF OperationsAreLeft, AlternationInv
<1>1. \A i, j, k : PresentedBetween(i, j, k) <=> PresentedBetween(i, j, k)'
  BY DEF PresentedBetween
<1>2. \A i, k : Settled(i, k) <=> Settled(i, k)'
  BY <1>1 DEF Settled, BatchSignals
<1>3. BatchesAwaitImages'
  BY <1>1 DEF BatchesAwaitImages, AwaitsImage
<1>4. AcquiredImageIsReady'
  BY <1>2 DEF AcquiredImageIsReady, Ready, BatchSignals
<1>5. FreeImagesAreSettled' /\ TargetIsAcquired'
  BY <1>2 DEF FreeImagesAreSettled, TargetIsAcquired
<1>. QED
  BY <1>3, <1>4, <1>5

(* Most steps are such steps.                                              *)
LEMMA OperationSteps ==
  ASSUME PresenterInv, [Next]_vars
  PROVE  \/ OperationsAreLeft
         \/ \E i \in Images : AcquireImage(i) \/ AcquireSuboptimal(i)
         \/ \E c \in Commands : Render(c)
         \/ /\ \E c \in Commands : Submit(c, c, {}, {})
            /\ UNCHANGED windowVars
         \/ Present \/ EndRecreate \/ GpuStep \/ EngineStep
<1>. USE DEF PresenterInv, CallsAreConsistent, OperationsAreLeft, Unrendered,
             HoldsSurface
<1>1. CASE WaitSlot
  BY <1>1 DEF WaitSlot, ArmFence
<1>2. CASE \/ AcquireFails \/ BeginAcquire \/ Discard \/ BeginRecreate
           \/ WaitIdle \/ RecreateFails
  BY <1>2
     DEF AcquireFails, BeginAcquire, Discard, BeginRecreate, WaitIdle,
         RecreateFails, submissionVars
<1>3. CASE WaitImage
  BY <1>3 DEF WaitImage, submissionVars
<1>4. CASE ResetCollects
  BY <1>4 DEF ResetCollects, BeginWaitAll, submissionVars
<1>5. CASE UseCommandBuffers \/ WaitsForList
  <2>1. UNCHANGED windowVars
    BY <1>5 DEF UseCommandBuffers, WaitsForList
  <2>2. \/ \E c \in Commands : Submit(c, c, {}, {})
        \/ UNCHANGED <<queue, semaphore, armed>>
    BY <1>5
       DEF UseCommandBuffers, WaitsForList, InitCommandBuffer, SubmitFails,
           DestroyCommandBuffer, CollectAfterSubmit, BeginWaitAll, EndWaitAll
  <2>. QED
    BY <2>1, <2>2 DEF windowVars
<1>6. CASE UNCHANGED vars
  BY <1>6 DEF vars, submissionVars, windowVars
<1>. QED
  BY <1>1, <1>2, <1>3, <1>4, <1>5, <1>6 DEF Next, AcquireStep, RecreateStep

(* Places of the engine's operations when another is asked for at the end. *)
LEMMA AskedOperation ==
  ASSUME PresenterInv,
         NEW o \in [image : Images, slot : Slots \cup {NoSlot}],
         engine' = Append(engine, o), queue' = queue, semaphore' = semaphore
  PROVE  /\ DOMAIN engine' = DOMAIN engine \cup {Len(engine) + 1}
         /\ Len(engine') = Len(engine) + 1
         /\ \A n \in DOMAIN engine : engine'[n] = engine[n] /\ n < Len(engine) + 1
         /\ engine'[Len(engine) + 1] = o
         /\ \A i, j, k : PresentedBetween(i, j, k) => PresentedBetween(i, j, k)'
         /\ \A i \in Images, k \in DOMAIN engine \cup {Len(engine) + 1} :
              Settled(i, k) => Settled(i, k)'
<1>1. /\ DOMAIN engine' = DOMAIN engine \cup {Len(engine) + 1}
      /\ \A n \in DOMAIN engine : engine'[n] = engine[n]
      /\ engine'[Len(engine) + 1] = o
  BY AppendElements DEF PresenterInv, PresenterTypeOK
<1>2. /\ Len(engine') = Len(engine) + 1 /\ Len(engine) \in Nat
      /\ \A n \in DOMAIN engine : n \in Nat /\ n < Len(engine) + 1
  BY OperationFacts DEF PresenterInv, PresenterTypeOK
<1>3. \A i, j, k : PresentedBetween(i, j, k) => PresentedBetween(i, j, k)'
  BY <1>1 DEF PresentedBetween
<1>4. ASSUME NEW i \in Images, NEW k \in DOMAIN engine \cup {Len(engine) + 1},
             Settled(i, k)
      PROVE  Settled(i, k)'
  <2>1. \A j \in DOMAIN engine' : j < k => j \in DOMAIN engine /\ engine'[j] = engine[j]
    BY <1>1, <1>2
  <2>. QED
    BY <1>3, <1>4, <2>1 DEF Settled, BatchSignals
<1>. QED
  BY <1>1, <1>2, <1>3, <1>4

(* An acquired image is ready: it was free, so everything before is        *)
(* presented.                                                              *)
LEMMA AcquireKeepsOrder ==
  ASSUME PresenterInv, AlternationInv,
         NEW i \in Images, AcquireImage(i) \/ AcquireSuboptimal(i)
  PROVE  AlternationInv'
<1>. USE DEF AlternationInv
<1>0. PICK last : last = Len(engine) + 1
  OBVIOUS
<1>1. /\ i \notin acquired /\ acquired' = acquired \cup {i}
      /\ UNCHANGED <<queue, semaphore, frame>>
      /\ engine' = Append(engine, Release(i, frame))
      /\ call' \in {"none", "waitImage"}
      /\ call' = "waitImage" => target' = i
      /\ target = NoImage /\ target' \in {NoImage, i}
      /\ ~HoldsSurface'
  BY ImagesAreFinite
     DEF AcquireImage, AcquireSuboptimal, submissionVars, PresenterInv,
         CallsAreConsistent, HoldsSurface
<1>2. Release(i, frame) \in [image : Images, slot : Slots \cup {NoSlot}]
  BY DEF Release, PresenterInv, PresenterTypeOK
<1>3. /\ DOMAIN engine' = DOMAIN engine \cup {last}
      /\ Len(engine') = last
      /\ \A n \in DOMAIN engine : engine'[n] = engine[n] /\ n < last
      /\ engine'[last] = Release(i, frame)
      /\ \A x, j, k : PresentedBetween(x, j, k) => PresentedBetween(x, j, k)'
      /\ \A x \in Images, k \in DOMAIN engine \cup {last} :
           Settled(x, k) => Settled(x, k)'
  BY <1>1, <1>2, <1>0, AskedOperation
<1>4. last \in Nat
  BY <1>0, OperationFacts
<1>5. BatchesAwaitImages'
  BY <1>1, <1>3 DEF BatchesAwaitImages, AwaitsImage
<1>6. Settled(i, last)
  BY <1>0, <1>1 DEF FreeImagesAreSettled
<1>7. Ready(i, frame)'
  BY <1>1, <1>3, <1>4, <1>6 DEF Ready, Release
<1>8. AcquiredImageIsReady'
  BY <1>1, <1>7 DEF AcquiredImageIsReady, Unrendered
<1>9. FreeImagesAreSettled'
  <2>. SUFFICES ASSUME NEW x \in Images \ acquired'
                PROVE  Settled(x, last + 1)'
    BY <1>3 DEF FreeImagesAreSettled
  <2>1. Settled(x, last)' /\ x # i
    BY <1>0, <1>1, <1>3 DEF FreeImagesAreSettled
  <2>2. \A j : PresentedBetween(x, j, last)' => PresentedBetween(x, j, last + 1)'
    BY <1>3, <1>4, OperationFacts DEF PresentedBetween
  <2>3. engine'[last].image = i
    BY <1>3 DEF Release
  <2>4. \A j \in DOMAIN engine' : engine'[j].image = x => j < last
    BY <1>3, <2>1, <2>3
  <2>. QED
    BY <2>1, <2>2, <2>4 DEF Settled
<1>10. TargetIsAcquired'
  BY <1>1 DEF TargetIsAcquired
<1>. QED
  BY <1>5, <1>8, <1>9, <1>10

(* A presented image is settled, whatever was asked for it before.         *)
LEMMA PresentKeepsOrder ==
  ASSUME PresenterInv, AlternationInv, Present
  PROVE  AlternationInv'
<1>. USE DEF AlternationInv
<1>0. PICK last : last = Len(engine) + 1
  OBVIOUS
<1>1. /\ target \in Images /\ acquired' = acquired \ {target}
      /\ UNCHANGED <<queue, semaphore>>
      /\ engine' = Append(engine, Presentation(target))
      /\ target' = NoImage /\ call' = "none"
  BY DEF Present, HoldsSurface, Idle, submissionVars, PresenterInv, PresenterTypeOK
<1>2. Presentation(target) \in [image : Images, slot : Slots \cup {NoSlot}]
  BY <1>1 DEF Presentation
<1>3. /\ DOMAIN engine' = DOMAIN engine \cup {last}
      /\ Len(engine') = last
      /\ \A n \in DOMAIN engine : engine'[n] = engine[n] /\ n < last
      /\ engine'[last] = Presentation(target)
      /\ \A x, j, k : PresentedBetween(x, j, k) => PresentedBetween(x, j, k)'
      /\ \A x \in Images, k \in DOMAIN engine \cup {last} :
           Settled(x, k) => Settled(x, k)'
  BY <1>1, <1>2, <1>0, AskedOperation
<1>4. last \in Nat /\ last > 0 /\ \A n \in DOMAIN engine' : n \in Nat
  BY <1>0, <1>3, OperationFacts
<1>5. BatchesAwaitImages'
  BY <1>1, <1>3 DEF BatchesAwaitImages, AwaitsImage
<1>6. AcquiredImageIsReady' /\ TargetIsAcquired'
  BY <1>1 DEF AcquiredImageIsReady, Unrendered, HoldsSurface, TargetIsAcquired
<1>7. ASSUME NEW x \in Images \ acquired'
      PROVE  Settled(x, last + 1)'
  <2>1. engine'[last].slot = NoSlot
    BY <1>3 DEF Presentation
  <2>2. CASE x = target
    <3>1. \A j \in DOMAIN engine \cup {0} : PresentedBetween(x, j, last + 1)'
      BY <1>3, <1>4, <2>2 DEF PresentedBetween
    <3>. QED
      BY <1>3, <2>1, <3>1 DEF Settled
  <2>3. CASE x # target
    <3>1. Settled(x, last)'
      BY <1>0, <1>1, <1>3, <2>3 DEF FreeImagesAreSettled
    <3>2. \A j : PresentedBetween(x, j, last)' => PresentedBetween(x, j, last + 1)'
      BY <1>4 DEF PresentedBetween
    <3>. QED
      BY <1>3, <2>1, <3>1, <3>2 DEF Settled
  <2>. QED
    BY <2>2, <2>3
<1>8. FreeImagesAreSettled'
  BY <1>3, <1>7 DEF FreeImagesAreSettled
<1>. QED
  BY <1>5, <1>6, <1>8

(* A batch that renders the target awaits it, and no free image.           *)
LEMMA SubmitKeepsOrder ==
  ASSUME PresenterInv, AlternationInv, NEW c \in Commands, UNCHANGED windowVars,
         \/ Submit(c, c, {}, {})
         \/ Submit(c, frame, {frame}, {target}) /\ HoldsSurface
  PROVE  AlternationInv'
<1>. USE DEF AlternationInv
<1>1. /\ target \in Images \cup {NoImage} /\ frame \in Slots /\ queue \in Seq(Batch)
      /\ Slots \subseteq Semaphores /\ Images \subseteq Semaphores
      /\ Slots \subseteq Fences /\ Commands \subseteq Fences
      /\ Slots \cap Commands = {} /\ armed \subseteq Slots
  BY SlotFacts DEF PresenterInv, PresenterTypeOK, TypeOK, Fences
<1>2. PICK f, waits, signals :
        /\ Submit(c, f, waits, signals)
        /\ \/ f = c /\ waits = {} /\ signals = {}
           \/ /\ f = frame /\ waits = {frame} /\ signals = {target}
              /\ HoldsSurface
  OBVIOUS
<1>. DEFINE batch == [command |-> c, fence |-> f,
                      waits |-> waits, signals |-> signals]
            last == Len(queue) + 1
<1>3. batch \in Batch /\ batch.fence = f /\ batch.signals = signals
  BY <1>1, <1>2 DEF Batch, HoldsSurface
<1>4. /\ DOMAIN queue' = DOMAIN queue \cup {last}
      /\ \A n \in DOMAIN queue : queue'[n] = queue[n]
      /\ queue'[last] = batch
      /\ semaphore' = semaphore /\ armed' = armed \ {f}
  BY <1>1, <1>2, <1>3, AppendElements DEF Submit
<1>. HIDE DEF batch, last
<1>5. UNCHANGED <<call, frame, target, acquired, engine>>
  BY DEF windowVars
<1>6. /\ \A i, j, k : PresentedBetween(i, j, k) <=> PresentedBetween(i, j, k)'
      /\ \A i, s : AwaitsImage(i, s) <=> AwaitsImage(i, s)'
  BY <1>4, <1>5 DEF PresentedBetween, AwaitsImage
<1>7. \A i : i \notin signals => BatchSignals(i)' = BatchSignals(i)
  BY <1>3, <1>4 DEF BatchSignals
<1>8. \A i, k : i \notin signals /\ Settled(i, k) => Settled(i, k)'
  BY <1>4, <1>5, <1>6, <1>7 DEF Settled
<1>9. BatchesAwaitImages'
  <2>1. ASSUME NEW i \in signals
        PROVE  AwaitsImage(i, f)'
    <3>1. /\ HoldsSurface /\ f = frame /\ i = target /\ frame \in armed
          /\ target \in Images
      BY <1>1, <1>2, <2>1 DEF Submit, HoldsSurface
    <3>2. Ready(target, frame)
      BY <3>1 DEF AcquiredImageIsReady, Unrendered
    <3>3. AwaitsImage(target, frame)
      BY <3>2 DEF Ready, AwaitsImage, Settled
    <3>. QED
      BY <1>6, <3>1, <3>3
  <2>. QED
    BY <1>3, <1>4, <1>6, <2>1 DEF BatchesAwaitImages
<1>10. AcquiredImageIsReady'
  <2>. SUFFICES ASSUME Unrendered' PROVE Ready(target, frame)'
    BY <1>5 DEF AcquiredImageIsReady
  <2>1. Unrendered /\ signals = {}
    <3>1. call = "waitImage" => frame \in armed /\ ~HoldsSurface
      BY DEF PresenterInv, CallsAreConsistent, HoldsSurface
    <3>2. f # frame
      <4>1. (call = "waitImage" /\ f = c) \/ frame \in armed \ {f}
        BY <1>2, <1>4, <1>5, <3>1 DEF Unrendered, HoldsSurface
      <4>. QED
        BY <1>1, <4>1
    <3>. QED
      BY <1>2, <1>4, <1>5, <3>2 DEF Unrendered, HoldsSurface
  <2>2. Ready(target, frame)
    BY <2>1 DEF AcquiredImageIsReady
  <2>. QED
    BY <1>4, <1>5, <1>7, <1>8, <2>1, <2>2 DEF Ready
<1>11. FreeImagesAreSettled'
  <2>1. signals \cap (Images \ acquired) = {}
    BY <1>2, <1>1 DEF TargetIsAcquired, HoldsSurface
  <2>. QED
    BY <1>5, <1>8, <2>1 DEF FreeImagesAreSettled
<1>12. TargetIsAcquired'
  BY <1>5 DEF TargetIsAcquired
<1>. QED
  BY <1>9, <1>10, <1>11, <1>12

(* A batch that completes signals the image it renders: until then what    *)
(* relies on the image's semaphore counted the batch.                      *)
LEMMA GpuKeepsOrder ==
  ASSUME PresenterInv, AlternationInv, GpuStep
  PROVE  AlternationInv'
<1>. USE DEF AlternationInv
<1>0. PICK batch : batch = queue[1]
  OBVIOUS
<1>1. /\ 1 \in DOMAIN queue /\ Head(queue) = batch
      /\ \A n \in DOMAIN queue' : /\ n + 1 \in DOMAIN queue /\ n + 1 # 1
                                  /\ queue'[n] = queue[n + 1]
  BY <1>0, TailElements DEF GpuStep, CompleteBatch, PresenterInv, PresenterTypeOK, TypeOK
<1>2. /\ \A s \in Slots \cup Images :
           semaphore'[s] = IF s \in batch.signals THEN "signaled"
                           ELSE IF s \in batch.waits THEN "unsignaled"
                           ELSE semaphore[s]
      /\ UNCHANGED <<call, frame, target, acquired, engine, armed>>
  BY <1>1, SlotFacts DEF GpuStep, CompleteBatch, windowVars
<1>3. /\ batch.waits \subseteq {batch.fence} \ Images
      /\ batch.signals \subseteq Images
  BY <1>0, <1>1, SlotFacts DEF PresenterInv, BatchesAreOfFrames, RendersFrame
<1>4. \A i : /\ BatchSignals(i)' # {} => BatchSignals(i) # {}
             /\ i \in batch.signals => BatchSignals(i) # {}
  BY <1>0, <1>1 DEF BatchSignals
<1>5. \A i, j, k : PresentedBetween(i, j, k) <=> PresentedBetween(i, j, k)'
  BY <1>2 DEF PresentedBetween
<1>6. ASSUME NEW i \in Images, NEW k, Settled(i, k)
      PROVE  Settled(i, k)'
  <2>1. semaphore'[i] = "signaled" => semaphore[i] = "signaled" \/ i \in batch.signals
    BY <1>2, <1>3
  <2>. QED
    BY <1>2, <1>4, <1>5, <1>6, <2>1 DEF Settled
<1>7. BatchesAwaitImages'
  <2>. SUFFICES ASSUME NEW n \in DOMAIN queue', NEW i \in queue'[n].signals
                PROVE  AwaitsImage(i, queue[n].fence)'
    BY DEF BatchesAwaitImages
  <2>1. PICK m : m = n + 1 /\ m \in DOMAIN queue /\ m # 1 /\ queue'[n] = queue[m]
    BY <1>1
  <2>2. PICK s : s = queue[m].fence
    OBVIOUS
  <2>3. /\ i \in Images /\ s \in Slots /\ i \notin batch.signals
        /\ s # batch.fence
    BY <1>0, <1>1, <2>1, <2>2, OneBatchPerImage, OperationFacts
       DEF PresenterInv, SubmissionInv, FencesAreUsedOnce
  <2>4. semaphore'[i] = semaphore[i] /\ semaphore'[s] = semaphore[s]
    BY <1>2, <1>3, <2>3, SlotFacts
  <2>5. AwaitsImage(i, s)
    BY <2>1, <2>2 DEF BatchesAwaitImages
  <2>6. AwaitsImage(i, s)'
    BY <1>2, <1>5, <2>4, <2>5 DEF AwaitsImage
  <2>. QED
    BY <2>1, <2>2, <2>6
<1>8. AcquiredImageIsReady'
  <2>. SUFFICES ASSUME Unrendered PROVE Ready(target, frame)'
    BY <1>2 DEF AcquiredImageIsReady, Unrendered, HoldsSurface
  <2>1. target \in Images /\ frame \in armed /\ frame \in Slots
    BY DEF Unrendered, HoldsSurface, PresenterInv, PresenterTypeOK, CallsAreConsistent
  <2>2. frame # batch.fence
    BY <1>0, <1>1, <2>1 DEF PresenterInv, SubmissionInv, Ownership, QueuedFences
  <2>3. semaphore'[frame] = semaphore[frame]
    BY <1>2, <1>3, <2>1, <2>2, SlotFacts
  <2>4. target \notin batch.signals => semaphore'[target] = semaphore[target]
    BY <1>2, <1>3, <2>1
  <2>5. Ready(target, frame)
    BY DEF AcquiredImageIsReady
  <2>. QED
    BY <1>2, <1>4, <1>6, <2>1, <2>3, <2>4, <2>5 DEF Ready
<1>9. FreeImagesAreSettled' /\ TargetIsAcquired'
  BY <1>2, <1>6 DEF FreeImagesAreSettled, TargetIsAcquired
<1>. QED
  BY <1>7, <1>8, <1>9

(* The place that the operation at place p has when the n-th is done.      *)
Moved(n, p) == IF p < n THEN p ELSE p - 1

(* The operations that are left keep their order.                          *)
LEMMA RemovalOrder ==
  ASSUME PresenterInv, NEW n \in DOMAIN engine, engine' = RemoveAt(engine, n)
  PROVE  /\ Len(engine') = Len(engine) - 1
         /\ \A p \in DOMAIN engine \ {n} : /\ Moved(n, p) \in DOMAIN engine'
                                           /\ engine'[Moved(n, p)] = engine[p]
         /\ \A q \in DOMAIN engine' :
              \E p \in DOMAIN engine \ {n} : q = Moved(n, p)
         /\ \A p, q \in (DOMAIN engine \ {n}) \cup {0, Len(engine) + 1} :
              p < q <=> Moved(n, p) < Moved(n, q)
<1>. DEFINE l == Len(engine)
<1>1. /\ l \in Nat /\ DOMAIN engine = 1 .. l /\ n \in 1 .. l
      /\ engine \in Seq([image : Images, slot : Slots \cup {NoSlot}])
  BY OperationFacts DEF PresenterInv, PresenterTypeOK
<1>2. /\ engine' \in Seq([image : Images, slot : Slots \cup {NoSlot}])
      /\ DOMAIN engine' = 1 .. l - 1
      /\ \A m \in 1 .. l - 1 : engine'[m] = engine[IF m < n THEN m ELSE m + 1]
  BY <1>1, RemoveElement
<1>3. Len(engine') = l - 1
  <2>1. Len(engine') \in Nat /\ DOMAIN engine' = 1 .. Len(engine')
    BY <1>2, LenProperties
  <2>2. PICK x : x = Len(engine')
    OBVIOUS
  <2>. HIDE DEF l
  <2>3. x \in Nat /\ 1 .. x = 1 .. l - 1
    BY <1>2, <2>1, <2>2
  <2>. QED
    BY <1>1, <2>2, <2>3
<1>. HIDE DEF l
<1>4. \A p \in 1 .. l : p # n => /\ Moved(n, p) \in 1 .. l - 1
                                 /\ engine'[Moved(n, p)] = engine[p]
  <2>. SUFFICES ASSUME NEW p \in 1 .. l, p # n
                PROVE  /\ Moved(n, p) \in 1 .. l - 1
                       /\ engine'[Moved(n, p)] = engine[p]
    OBVIOUS
  <2>1. CASE p < n
    BY <1>1, <1>2, <2>1 DEF Moved
  <2>2. CASE p > n
    <3>1. p - 1 \in 1 .. l - 1 /\ ~(p - 1 < n) /\ p - 1 + 1 = p /\ ~(p < n)
      BY <1>1, <2>2
    <3>. QED
      BY <1>2, <3>1 DEF Moved
  <2>. QED
    BY <1>1, <2>1, <2>2
<1>5. ASSUME NEW q \in 1 .. l - 1
      PROVE  \E p \in 1 .. l \ {n} : q = Moved(n, p)
  <2>1. CASE q < n
    BY <1>1, <2>1 DEF Moved
  <2>2. CASE q >= n
    <3>1. q + 1 \in 1 .. l \ {n} /\ q = Moved(n, q + 1)
      BY <1>1, <2>2 DEF Moved
    <3>. QED
      BY <3>1
  <2>. QED
    BY <1>1, <2>1, <2>2
<1>6. \A p, q \in (1 .. l \ {n}) \cup {0, l + 1} :
        p < q <=> Moved(n, p) < Moved(n, q)
  BY <1>1 DEF Moved
<1>. QED
  BY <1>1, <1>2, <1>3, <1>4, <1>5, <1>6 DEF l

(* The first operation of an image is done: a presentation consumes the    *)
(* signal that it was counted for, and when the image is released nothing  *)
(* precedes it, so that its semaphore is unsignaled.                       *)
LEMMA EngineKeepsOrder ==
  ASSUME PresenterInv, AlternationInv, EngineStep
  PROVE  AlternationInv'
<1>. USE DEF AlternationInv
<1>1. PICK n \in 1 .. Len(engine) : /\ SignalAcquire(n) \/ ExecutePresent(n)
                                    /\ engine' = RemoveAt(engine, n)
  BY DEF EngineStep
<1>2. UNCHANGED <<queue, call, frame, target, acquired, armed>>
  BY DEF EngineStep
<1>3. PICK end : end = Len(engine) + 1
  OBVIOUS
<1>4. /\ n \in DOMAIN engine /\ n \in Nat /\ n >= 1 /\ n < end /\ end \in Nat
      /\ \A p \in DOMAIN engine : p \in Nat /\ p >= 1 /\ p < end
      /\ \A i \in Images, j \in DOMAIN engine :
           engine[j].image = i /\ engine[j].slot = NoSlot => engine[j] = Presentation(i)
  BY <1>1, <1>3, OperationFacts DEF Presentation
<1>. DEFINE Places == (DOMAIN engine \ {n}) \cup {0, end}
            New(p) == Moved(n, p)
<1>5. /\ Len(engine') + 1 = New(end) /\ New(0) = 0
      /\ \A p \in DOMAIN engine \ {n} : /\ New(p) \in DOMAIN engine'
                                        /\ engine'[New(p)] = engine[p]
                                        /\ New(p) > 0
      /\ \A q \in DOMAIN engine' : \E p \in DOMAIN engine \ {n} : q = New(p)
      /\ \A p, q \in Places : p < q <=> New(p) < New(q)
  <2>1. /\ Len(engine') = Len(engine) - 1 /\ Len(engine) \in Nat
        /\ \A p \in DOMAIN engine \ {n} : /\ New(p) \in DOMAIN engine'
                                          /\ engine'[New(p)] = engine[p]
        /\ \A q \in DOMAIN engine' : \E p \in DOMAIN engine \ {n} : q = New(p)
        /\ \A p, q \in Places : p < q <=> New(p) < New(q)
    BY <1>1, <1>3, <1>4, RemovalOrder, OperationFacts
  <2>2. New(0) = 0 /\ New(end) = end - 1
    BY <1>4 DEF Moved
  <2>3. \A p \in DOMAIN engine \ {n} : New(p) > New(0)
    <3>. HIDE DEF New
    <3>. QED
      BY <1>4, <2>1
  <2>. QED
    BY <1>3, <2>1, <2>2, <2>3
<1>6. \A j \in DOMAIN engine : engine[j].image = engine[n].image => j >= n
  BY <1>1, <1>4 DEF SignalAcquire, ExecutePresent, IsNext
<1>7. /\ \A i \in Images :
           IF engine[n] = Presentation(i)
           THEN semaphore[i] = "signaled" /\ semaphore'[i] = "unsignaled"
           ELSE semaphore'[i] = semaphore[i]
      /\ \A s \in Slots : semaphore[s] = "signaled" => semaphore'[s] = "signaled"
      /\ engine[n].slot \in Slots => semaphore'[engine[n].slot] = "signaled"
  <2>1. engine[n] \in [image : Images, slot : Slots \cup {NoSlot}]
    BY <1>4, OperationFacts
  <2>. QED
    BY <1>1, <1>4, <2>1, SlotFacts
       DEF SignalAcquire, ExecutePresent, AcquireSemaphore, PresentSemaphore,
           Presentation, PresenterInv, PresenterTypeOK, TypeOK
<1>. HIDE DEF New
<1>8. ASSUME NEW i \in Images, NEW j \in Places, NEW k \in Places,
             PresentedBetween(i, j, k), engine[n] = Presentation(i) => n < j
      PROVE  \E m \in DOMAIN engine' : /\ New(j) < m /\ m < New(k)
                                       /\ engine'[m] = Presentation(i)
  <2>1. PICK m \in DOMAIN engine : j < m /\ m < k /\ engine[m] = Presentation(i)
    BY <1>8 DEF PresentedBetween
  <2>2. m # n
    <3>1. j \in Nat /\ m \in Nat /\ n \in Nat
      BY <1>4
    <3>. QED
      BY <1>8, <2>1, <3>1
  <2>3. m \in Places
    BY <2>2
  <2>. QED
    BY <1>5, <2>1, <2>2, <2>3
<1>9. ASSUME NEW i \in Images, NEW k \in Places, NEW l, l = New(k), Settled(i, k),
             \A m \in BatchSignals(i), j \in DOMAIN engine :
               engine[j] = Release(i, queue[m].fence) => j < k
      PROVE  Settled(i, l)'
  <2>1. ASSUME NEW j \in DOMAIN engine \ {n}, j < k, engine[j].image = i,
               engine[j].slot # NoSlot
        PROVE  \E m \in DOMAIN engine' : /\ New(j) < m /\ m < l
                                         /\ engine'[m] = Presentation(i)
    <3>1. PresentedBetween(i, j, k)
      BY <1>9, <2>1 DEF Settled
    <3>2. engine[n] = Presentation(i) => n < j
      BY <1>4, <1>6, <2>1 DEF Presentation
    <3>. QED
      BY <1>8, <1>9, <3>1, <3>2
  <2>2. ASSUME semaphore'[i] = "signaled" \/ BatchSignals(i) # {}
        PROVE  \E m \in DOMAIN engine' : 0 < m /\ m < l /\ engine'[m] = Presentation(i)
    <3>1. CASE engine[n] # Presentation(i)
      <4>1. PresentedBetween(i, 0, k)
        BY <1>7, <1>9, <2>2, <3>1 DEF Settled
      <4>. QED
        BY <1>5, <1>8, <1>9, <3>1, <4>1
    <3>2. CASE engine[n] = Presentation(i)
      <4>1. semaphore[i] = "signaled" /\ semaphore'[i] = "unsignaled"
        BY <1>7, <3>2
      <4>2. PICK m \in BatchSignals(i) : TRUE
        BY <2>2, <4>1
      <4>3. m \in DOMAIN queue /\ i \in queue[m].signals /\ queue[m].fence \in Slots
        BY <4>2, OperationFacts DEF BatchSignals
      <4>4. PICK j \in DOMAIN engine : engine[j] = Release(i, queue[m].fence)
        BY <4>1, <4>3 DEF BatchesAwaitImages, AwaitsImage
      <4>5. /\ j # n /\ j < k /\ engine[j].image = i /\ engine[j].slot # NoSlot
        BY <1>9, <3>2, <4>2, <4>3, <4>4, SlotFacts DEF Release, Presentation
      <4>6. PICK q \in DOMAIN engine' : /\ New(j) < q /\ q < l
                                        /\ engine'[q] = Presentation(i)
        BY <2>1, <4>5
      <4>7. New(j) \in DOMAIN engine' /\ New(j) > 0
        BY <1>5, <4>5
      <4>8. \A p \in DOMAIN engine' : p \in Int
        <5>1. engine' \in Seq([image : Images, slot : Slots \cup {NoSlot}])
          BY <1>1, RemoveElement DEF PresenterInv, PresenterTypeOK
        <5>. QED
          BY <5>1, LenProperties
      <4>. QED
        BY <4>6, <4>7, <4>8
    <3>. QED
      BY <3>1, <3>2
  <2>3. \A j \in DOMAIN engine' : j < l =>
          \E p \in DOMAIN engine \ {n} : j = New(p) /\ p < k /\ engine'[j] = engine[p]
    BY <1>5, <1>9
  <2>. QED
    BY <1>2, <2>1, <2>2, <2>3 DEF Settled, PresentedBetween, BatchSignals
<1>10. ASSUME NEW i \in Images, PresentedBetween(i, 0, n)
       PROVE  engine[n].image # i
  BY <1>4, <1>6, <1>10 DEF PresentedBetween, Presentation
<1>11. ASSUME NEW i \in Images, NEW s \in Slots, AwaitsImage(i, s)
       PROVE  AwaitsImage(i, s)'
  <2>1. CASE semaphore[s] = "signaled" /\ semaphore[i] = "unsignaled"
    BY <1>7, <2>1 DEF AwaitsImage
  <2>2. ASSUME NEW k \in DOMAIN engine, engine[k] = Release(i, s),
               semaphore[i] = "signaled" => PresentedBetween(i, 0, k)
        PROVE  AwaitsImage(i, s)'
    <3>1. CASE k = n
      <4>1. semaphore[i] = "unsignaled" /\ engine[n] # Presentation(i)
        BY <1>10, <2>2, <3>1, OperationFacts, SlotFacts DEF Release, Presentation
      <4>. QED
        BY <1>7, <2>2, <3>1, <4>1 DEF AwaitsImage, Release
    <3>2. CASE k # n
      <4>1. PICK l : l = New(k)
        OBVIOUS
      <4>2. semaphore'[i] = "signaled" =>
              \E m \in DOMAIN engine' : 0 < m /\ m < l /\ engine'[m] = Presentation(i)
        <5>. SUFFICES ASSUME semaphore'[i] = "signaled"
                      PROVE  \E m \in DOMAIN engine' :
                               0 < m /\ m < l /\ engine'[m] = Presentation(i)
          OBVIOUS
        <5>1. semaphore[i] = "signaled" /\ engine[n] # Presentation(i)
          BY <1>7
        <5>. QED
          BY <1>5, <1>8, <2>2, <3>2, <4>1, <5>1
      <4>3. l \in DOMAIN engine' /\ engine'[l] = Release(i, s)
        BY <1>5, <2>2, <3>2, <4>1
      <4>. QED
        BY <4>2, <4>3 DEF AwaitsImage, PresentedBetween, Release
    <3>. QED
      BY <3>1, <3>2
  <2>. QED
    BY <1>11, <2>1, <2>2 DEF AwaitsImage
<1>12. BatchesAwaitImages'
  <2>. SUFFICES ASSUME NEW m \in DOMAIN queue, NEW i \in queue[m].signals
                PROVE  AwaitsImage(i, queue[m].fence)'
    BY <1>2 DEF BatchesAwaitImages
  <2>1. PICK s : s = queue[m].fence
    OBVIOUS
  <2>2. i \in Images /\ s \in Slots /\ AwaitsImage(i, s)
    BY <2>1, OperationFacts DEF BatchesAwaitImages
  <2>3. AwaitsImage(i, s)'
    BY <1>11, <2>2
  <2>. QED
    BY <1>2, <2>1, <2>3
<1>13. AcquiredImageIsReady'
  <2>. SUFFICES ASSUME Unrendered PROVE Ready(target, frame)'
    BY <1>2 DEF AcquiredImageIsReady, Unrendered, HoldsSurface
  <2>0. PICK i, s : i = target /\ s = frame
    OBVIOUS
  <2>1. i \in Images /\ s \in armed /\ s \in Slots
    BY <2>0 DEF Unrendered, HoldsSurface, PresenterInv, PresenterTypeOK,
                CallsAreConsistent
  <2>2. Ready(i, s)
    BY <2>0 DEF AcquiredImageIsReady
  <2>3. BatchSignals(i)' = BatchSignals(i)
    BY <1>2 DEF BatchSignals
  <2>4. ASSUME semaphore[s] = "signaled", semaphore[i] = "unsignaled",
               BatchSignals(i) = {}
        PROVE  Ready(i, s)'
    BY <1>7, <2>1, <2>3, <2>4 DEF Ready
  <2>5. ASSUME NEW k \in DOMAIN engine, engine[k] = Release(i, s), Settled(i, k),
               \A j \in DOMAIN engine : engine[j].image = i => j <= k
        PROVE  Ready(i, s)'
    <3>1. CASE k = n
      <4>1. /\ semaphore[i] = "unsignaled" /\ BatchSignals(i) = {}
            /\ engine[n] # Presentation(i)
        BY <1>10, <2>1, <2>5, <3>1, OperationFacts, SlotFacts
           DEF Settled, Release, Presentation
      <4>. QED
        BY <1>7, <2>1, <2>3, <2>5, <3>1, <4>1 DEF Ready, Release
    <3>2. CASE k # n
      <4>1. PICK l : l = New(k)
        OBVIOUS
      <4>2. \A m \in BatchSignals(i), j \in DOMAIN engine :
              engine[j] = Release(i, queue[m].fence) => j < k
        <5>. SUFFICES ASSUME NEW m \in BatchSignals(i), NEW j \in DOMAIN engine,
                             engine[j] = Release(i, queue[m].fence)
                      PROVE  j < k
          OBVIOUS
        <5>1. queue[m].fence # s
          BY <2>1 DEF BatchSignals, PresenterInv, SubmissionInv, Ownership, QueuedFences
        <5>2. j <= k /\ j # k
          BY <2>5, <5>1 DEF Release
        <5>. QED
          BY <1>4, <5>2
      <4>3. Settled(i, l)'
        BY <1>9, <2>1, <2>5, <3>2, <4>1, <4>2
      <4>4. l \in DOMAIN engine' /\ engine'[l] = Release(i, s)
        BY <1>5, <2>5, <3>2, <4>1
      <4>5. \A q \in DOMAIN engine' : engine'[q].image = i => q <= l
        <5>. SUFFICES ASSUME NEW q \in DOMAIN engine', engine'[q].image = i
                      PROVE  q <= l
          OBVIOUS
        <5>1. PICK p \in DOMAIN engine \ {n} : q = New(p)
          BY <1>5
        <5>2. p <= k
          BY <1>5, <2>5, <5>1
        <5>3. p = k \/ p < k
          BY <1>4, <5>2
        <5>4. q \in Int /\ l \in Int
          <6>1. engine' \in Seq([image : Images, slot : Slots \cup {NoSlot}])
            BY <1>1, RemoveElement DEF PresenterInv, PresenterTypeOK
          <6>. QED
            BY <4>4, <6>1, LenProperties
        <5>. QED
          BY <1>5, <3>2, <4>1, <5>1, <5>3, <5>4
      <4>. QED
        BY <4>3, <4>4, <4>5 DEF Ready, Release
    <3>. QED
      BY <3>1, <3>2
  <2>6. Ready(i, s)'
    <3>1. \/ \E k \in DOMAIN engine :
               /\ engine[k] = Release(i, s) /\ Settled(i, k)
               /\ \A j \in DOMAIN engine : engine[j].image = i => j <= k
          \/ semaphore[s] = "signaled" /\ semaphore[i] = "unsignaled" /\ BatchSignals(i) = {}
      BY <2>2 DEF Ready
    <3>. QED
      BY <2>4, <2>5, <3>1
  <2>. QED
    BY <1>2, <2>0, <2>6
<1>14. FreeImagesAreSettled'
  <2>. SUFFICES ASSUME NEW i \in Images \ acquired
                PROVE  Settled(i, Len(engine) + 1)'
    BY <1>2 DEF FreeImagesAreSettled
  <2>1. PICK l : l = New(end)
    OBVIOUS
  <2>2. Settled(i, end)
    BY <1>3 DEF FreeImagesAreSettled
  <2>3. Settled(i, l)'
    BY <1>4, <1>9, <2>1, <2>2
  <2>. QED
    BY <1>5, <2>1, <2>3
<1>15. TargetIsAcquired'
  BY <1>2 DEF TargetIsAcquired
<1>. QED
  BY <1>12, <1>13, <1>14, <1>15

(* The order of the engine's operations is kept by every step.             *)
LEMMA OrderStep ==
  ASSUME PresenterInv, AlternationInv, [Next]_vars
  PROVE  AlternationInv'
<1>1. ASSUME NEW c \in Commands, Render(c)
      PROVE  AlternationInv'
  <2>1. /\ Submit(c, frame, {frame}, {target}) /\ HoldsSurface
        /\ UNCHANGED windowVars
    BY <1>1 DEF Render, AcquireSemaphore, PresentSemaphore
  <2>. QED
    BY <2>1, SubmitKeepsOrder
<1>2. ASSUME NEW c \in Commands, Submit(c, c, {}, {}), UNCHANGED windowVars
      PROVE  AlternationInv'
  BY <1>2, SubmitKeepsOrder
<1>3. CASE EndRecreate
  <2>1. /\ DOMAIN queue' = {} /\ DOMAIN engine' = {} /\ target' = NoImage
        /\ \A i \in Images : semaphore'[i] = "unsignaled"
        /\ call' = "none"
    BY <1>3, SlotFacts
       DEF EndRecreate, PresenterInv, ResetIsAlone, CallsAreConsistent
  <2>. QED
    BY <2>1
       DEF AlternationInv, BatchesAwaitImages, AcquiredImageIsReady, Unrendered,
           HoldsSurface, FreeImagesAreSettled, Settled, BatchSignals,
           TargetIsAcquired
<1>. QED
  BY <1>1, <1>2, <1>3, OperationSteps, LeftOperations, AcquireKeepsOrder,
     PresentKeepsOrder, GpuKeepsOrder, EngineKeepsOrder

-----------------------------------------------------------------------------
(* Theorems.                                                               *)

(* The invariant holds when the window has its first presenter.            *)
LEMMA PresenterInit == Init => PresenterInv
<1>. SUFFICES ASSUME Init PROVE PresenterInv
  OBVIOUS
<1>1. SubmissionInv
  BY SafetyInit DEF Init
<1>2. DOMAIN queue = {} /\ DOMAIN engine = {}
  BY DEF Init, SubmissionInit
<1>3. PresenterTypeOK
  BY <1>1, SlotFacts, EmptySeq DEF Init, SubmissionInv, PresenterTypeOK, Calls
<1>4. CallsAreConsistent /\ ResetIsAlone
  BY DEF Init, CallsAreConsistent, ResetIsAlone, HoldsSurface
<1>5. BatchesAreOfFrames
  BY <1>2 DEF BatchesAreOfFrames
<1>6. IdleSlotsAreClean /\ OneSignalPerSlot
  BY <1>2, SlotFacts
     DEF Init, SubmissionInit, IdleSlotsAreClean, OneSignalPerSlot, Clean
<1>. QED
  BY <1>1, <1>3, <1>4, <1>5, <1>6 DEF PresenterInv

(* Every step of the window, the presenter, the driver and the engine keeps *)
(* the invariant.                                                          *)
LEMMA PresenterStep == PresenterInv /\ [Next]_vars => PresenterInv'
<1>. SUFFICES ASSUME PresenterInv, [Next]_vars PROVE PresenterInv'
  OBVIOUS
<1>. QED
  BY PresenterTypeStep, SubmissionCarries, CallsStep, BatchesStep, SlotsStep
     DEF PresenterInv, SlotsInv

(* The inductive invariant of presentation holds in every reachable state, *)
(* and with it that of submission: the two compose.                        *)
THEOREM PresenterInvariantHolds == Spec => []PresenterInv
  BY PresenterInit, PresenterStep, PTL DEF Spec

(* AcquireNextSurface resets a fence and reuses a semaphore of a slot whose *)
(* last frame the GPU and the engine are done with, however many images    *)
(* there are and whatever failed before.                                   *)
THEOREM SlotsAreDoneWhenReused == Spec => []SlotIsDoneWhenReused
<1>1. PresenterInv => SlotIsDoneWhenReused
  BY DEF PresenterInv, PresenterTypeOK, SubmissionInv, Ownership,
         IdleSlotsAreClean, Clean, SlotIsDoneWhenReused, AcquireSemaphore,
         BatchWaits
<1>. QED
  BY <1>1, PresenterInvariantHolds, PTL

(* What the engine has yet to do with each image stays in step with the    *)
(* image's semaphore and with the batches that render it.                  *)
THEOREM OrderOfOperationsHolds == Spec => []AlternationInv
<1>1. Init => AlternationInv
  <2>. SUFFICES ASSUME Init PROVE AlternationInv
    OBVIOUS
  <2>1. DOMAIN queue = {} /\ DOMAIN engine = {}
    BY DEF Init, SubmissionInit
  <2>2. \A i \in Images : semaphore[i] = "unsignaled"
    BY SlotFacts DEF Init, SubmissionInit
  <2>. QED
    BY <2>1, <2>2
       DEF Init, AlternationInv, BatchesAwaitImages, AcquiredImageIsReady,
           Unrendered, HoldsSurface, FreeImagesAreSettled, Settled,
           BatchSignals, TargetIsAcquired
<1>2. PresenterInv /\ AlternationInv /\ [Next]_vars => AlternationInv'
  BY OrderStep
<1>. QED
  BY <1>1, <1>2, PresenterInvariantHolds, PTL DEF Spec

(* A batch that runs signals a semaphore that its last presentation has    *)
(* waited for: one semaphore per image suffices, however the presentations *)
(* lag behind, whatever fails and whichever surfaces are dropped.          *)
THEOREM PresentSemaphoresDoAlternate == Spec => []PresentSemaphoresAlternate
<1>1. PresenterInv /\ AlternationInv => PresentSemaphoresAlternate
  <2>. SUFFICES ASSUME PresenterInv, AlternationInv, queue # <<>>,
                       \A s \in Head(queue).waits : semaphore[s] = "signaled",
                       NEW i \in Head(queue).signals
                PROVE  semaphore[i] = "unsignaled"
    BY DEF PresentSemaphoresAlternate
  <2>1. 1 \in DOMAIN queue /\ Head(queue) = queue[1]
    BY TailElements DEF PresenterInv, PresenterTypeOK, TypeOK
  <2>2. PICK s \in Slots : queue[1].fence = s /\ queue[1].waits = {s}
    BY <2>1, OperationFacts
  <2>3. semaphore[s] = "signaled" /\ AwaitsImage(i, s)
    BY <2>1, <2>2 DEF AlternationInv, BatchesAwaitImages
  <2>4. \A k \in DOMAIN engine : engine[k].slot # s
    BY <2>3 DEF PresenterInv, OneSignalPerSlot
  <2>. QED
    BY <2>3, <2>4 DEF AwaitsImage, Release
<1>. QED
  BY <1>1, PresenterInvariantHolds, OrderOfOperationsHolds, PTL

(* The image of a surface that is yet to be rendered has no write of an    *)
(* earlier frame on the queue: image_in_flight_fences_ suffices.           *)
THEOREM HandedOutImagesAreIdle == Spec => []HandedOutImageIsIdle
<1>1. PresenterInv => HandedOutImageIsIdle
  <2>. SUFFICES ASSUME PresenterInv, HoldsSurface, frame \in armed,
                       NEW n \in DOMAIN queue, target \in queue[n].signals
                PROVE  FALSE
    BY DEF HandedOutImageIsIdle, BatchSignals, PresentSemaphore
  <2>1. queue[n].fence = frame
    BY DEF PresenterInv, BatchesAreOfFrames, RendersFrame, CallsAreConsistent
  <2>. QED
    BY <2>1 DEF PresenterInv, SubmissionInv, Ownership, QueuedFences
<1>. QED
  BY <1>1, PresenterInvariantHolds, PTL

(* Reset destroys the fences and semaphores of a presenter when nothing    *)
(* that was submitted refers to them.                                      *)
THEOREM ResetsDestroyNothingInUse == Spec => []ResetDestroysNothingInUse
<1>1. PresenterInv => ResetDestroysNothingInUse
  BY DEF PresenterInv, ResetIsAlone, ResetDestroysNothingInUse
<1>. QED
  BY <1>1, PresenterInvariantHolds, PTL

(* Also when the presenter lends the fences of its slots, and resets them  *)
(* itself, no fence guards two submissions at once.                        *)
THEOREM FencesStayUsedOnceThere == Spec => []FencesAreUsedOnce
  BY PresenterInvariantHolds, PTL DEF PresenterInv, SubmissionInv

-----------------------------------------------------------------------------
(* TextureManager: the inductive invariant                                 *)

Places == {"idle", "query", "upload", "commit", "reset", "fetch", "returned",
           "clear", "arena"}

TexturesTypeOK ==
  /\ made \subseteq Textures
  /\ ref \in [Textures -> SUBSET {"app", "frame", "cache"}]
  /\ handler \in [Textures -> {"absent", "created", "uploaded"}]
  /\ gpuRef \in [Textures -> SUBSET {"map", "queue", "frame"}]
  /\ content \in [Textures -> Pixmaps \cup {None}]
  /\ pendingPixmap \in [Textures -> Pixmaps \cup {None}]
  /\ stored \in [Textures -> Pixmaps \cup {None}]
  /\ cache \in [Pixmaps -> Textures \cup {None}]
  /\ drop \in [Textures -> {"no", "locked", "dropped"}]
  /\ gpu \in [at : Places, texture : Textures \cup {None}, image : Pixmaps \cup {None}]
  /\ killer \in [Textures -> {"nobody", "app", "gpu"}]
  /\ context \in BOOLEAN

UnmadeTexturesAreBlank ==
  \A t \in Textures \ made :
    /\ ref[t] = {} /\ handler[t] = "absent" /\ drop[t] = "no"
    /\ pendingPixmap[t] = None /\ stored[t] = None

(* ~TextureImpl runs when nobody holds the texture any more.               *)
DroppedTexturesAreDead == \A t \in Textures : drop[t] # "no" => ref[t] = {}

(* While the GPU thread asks for a GPU texture, the frame or the cache     *)
(* holds the texture; only textures of the application have an image to    *)
(* commit, and between the upload of the image and its reset no other      *)
(* thread undoes the upload.                                               *)
DrawHoldsItsTexture ==
  /\ gpu.at \in {"query", "upload", "commit", "reset", "fetch"} =>
       /\ gpu.texture \in Textures
       /\ IF gpu.image = None THEN "frame" \in ref[gpu.texture]
          ELSE cache[gpu.image] = gpu.texture
  /\ At("upload") => gpu.image # None
  /\ gpu.at \in {"commit", "reset"} => gpu.image = None
  /\ At("reset") => handler[gpu.texture] = "uploaded"

(* The texture of a pixmap is its alone, and the application cannot reach  *)
(* it.                                                                     *)
CachedTexturesHoldPixmaps ==
  \A p \in Pixmaps : \A t \in Cached(p) :
    /\ t \in made /\ ref[t] = {"cache"} /\ pendingPixmap[t] = None
    /\ handler[t] = "uploaded" => content[t] = p
    /\ \A q \in Pixmaps : cache[q] = t => q = p

ContextOutlivesDraws ==
  ~context => At("idle") /\ \A t \in Textures : "frame" \notin gpuRef[t]

ManagerInv ==
  /\ TexturesTypeOK
  /\ UnmadeTexturesAreBlank
  /\ DroppedTexturesAreDead
  /\ DrawHoldsItsTexture
  /\ CachedTexturesHoldPixmaps
  /\ ContextOutlivesDraws
  /\ EntriesFollowTextures
  /\ PixmapsAreDrawnRight
  /\ GPUTexturesDieOnTheGPUThread

-----------------------------------------------------------------------------
(* Helpers of several steps.                                               *)

(* What SaveGPUTexture does to its texture, and to no other.               *)
LEMMA Saving ==
  ASSUME TexturesTypeOK, NEW t \in Textures, NEW p \in Pixmaps \cup {None},
         SaveGPUTexture(t, p)
  PROVE  /\ handler' \in [Textures -> {"absent", "created", "uploaded"}]
         /\ gpuRef' \in [Textures -> SUBSET {"map", "queue", "frame"}]
         /\ content' \in [Textures -> Pixmaps \cup {None}]
         /\ \A u \in Textures \ {t} : /\ handler'[u] = handler[u]
                                      /\ content'[u] = content[u]
         /\ handler'[t] \in {"created", "uploaded"}
         /\ handler[t] = "uploaded" => handler'[t] = "uploaded" /\ content'[t] = content[t]
         /\ handler[t] # "uploaded" /\ handler'[t] = "uploaded" => content'[t] = p
  BY DEF SaveGPUTexture, TexturesTypeOK

(* The uploads of the GPU thread: of a pixmap to the texture the cache has *)
(* for it, of the pending image to a texture that the frame holds, and     *)
(* those of the application.                                               *)
Saves ==
  \E t \in Textures, p \in Pixmaps \cup {None} :
    /\ context /\ t \in made /\ ref[t] # {}
    /\ SaveGPUTexture(t, p)
    /\ \A q \in Pixmaps : cache[q] = t => q = p
    /\ UNCHANGED <<made, ref, pendingPixmap, killer, stored, cache, drop, drawn, context>>

(* Whoever saves holds the texture.                                        *)
LEMMA SavingSteps ==
  ASSUME ManagerInv,
         \/ UploadPixmap \/ CommitDeferredImageUpload
         \/ \E t \in Textures, p \in Pixmaps : UploadImage(t, p)
  PROVE  Saves
<1>. USE NoneIsNothing
     DEF ManagerInv, TexturesTypeOK, UnmadeTexturesAreBlank, DrawHoldsItsTexture,
         CachedTexturesHoldPixmaps, ContextOutlivesDraws, At, Cached
<1>1. CASE UploadPixmap
  <2>1. PICK t, p : t = gpu.texture /\ p = gpu.image
    OBVIOUS
  <2>2. /\ context /\ t \in Textures /\ p \in Pixmaps /\ t = cache[p]
        /\ SaveGPUTexture(t, p)
        /\ UNCHANGED <<made, ref, pendingPixmap, killer, stored, cache, drop, drawn, context>>
    BY <1>1, <2>1 DEF UploadPixmap
  <2>3. t \in made /\ ref[t] = {"cache"} /\ \A q \in Pixmaps : cache[q] = t => q = p
    BY <2>2
  <2>4. ref[t] # {}
    BY <2>3
  <2>5. /\ context /\ t \in made /\ ref[t] # {}
        /\ SaveGPUTexture(t, p)
        /\ \A q \in Pixmaps : cache[q] = t => q = p
        /\ UNCHANGED <<made, ref, pendingPixmap, killer, stored, cache, drop, drawn, context>>
    BY <2>2, <2>3, <2>4
  <2>. QED
    BY <2>2, <2>5 DEF Saves
<1>2. CASE CommitDeferredImageUpload
  BY <1>2 DEF CommitDeferredImageUpload, Saves
<1>3. ASSUME NEW t \in Textures, NEW p \in Pixmaps, UploadImage(t, p)
      PROVE  Saves
  BY <1>3 DEF UploadImage, Saves
<1>. QED
  BY <1>1, <1>2, <1>3

-----------------------------------------------------------------------------
(* Each part of the invariant is kept by every step.                       *)

(* Types.                                                                  *)
LEMMA TypesStep ==
  ASSUME ManagerInv, [TexturesNext]_managerVars
  PROVE  TexturesTypeOK'
<1>. USE DEF ManagerInv, TexturesTypeOK, Places
<1>1. ASSUME NEW t \in Textures, NEW p \in Pixmaps,
             CreateTexture(t) \/ WrapTexture(t, p) \/ DeferredUploadImage(t, p)
      PROVE  TexturesTypeOK'
  BY <1>1 DEF CreateTexture, WrapTexture, DeferredUploadImage
<1>2. ASSUME NEW t \in Textures,
             CreateTexture(t) \/ ReleaseTexture(t) \/ DropTexture(t) \/ DrawTexture(t)
      PROVE  TexturesTypeOK'
  BY <1>2 DEF CreateTexture, ReleaseTexture, DropTexture, DropTextures, DrawTexture
<1>3. ASSUME NEW holders, NEW by \in {"app", "gpu"},
             ReleaseGPUTextures(holders, by)
      PROVE  /\ gpuRef' \in [Textures -> SUBSET {"map", "queue", "frame"}]
             /\ killer' \in [Textures -> {"nobody", "app", "gpu"}]
  BY <1>3 DEF ReleaseGPUTextures
<1>4. ASSUME NEW t \in Textures, FinishDrop(t)
      PROVE  TexturesTypeOK'
  BY <1>3, <1>4 DEF FinishDrop
<1>5. ASSUME NEW p \in Pixmaps, DrawPixmap(p)
      PROVE  TexturesTypeOK'
  BY <1>5 DEF DrawPixmap, Cached
<1>6. CASE QueryState \/ ResetPending \/ FetchGPUTexture \/ ReturnFromUpload
  BY <1>6
     DEF QueryState, ResetPending, FetchGPUTexture, ReturnFromUpload, Go, GpuIdle,
         textureVars
<1>7. CASE \/ UploadPixmap \/ CommitDeferredImageUpload
           \/ \E t \in Textures, p \in Pixmaps : UploadImage(t, p)
  <2>1. gpu' \in [at : Places, texture : Textures \cup {None}, image : Pixmaps \cup {None}]
    BY <1>7 DEF UploadPixmap, CommitDeferredImageUpload, UploadImage, Go
  <2>2. Saves
    BY <1>7, SavingSteps
  <2>. QED
    BY <2>1, <2>2, Saving DEF Saves
<1>8. CASE ClearTextureCache \/ ResetArena
  BY <1>8 DEF ClearTextureCache, ResetArena, DropTextures, Go, GpuIdle
<1>9. CASE ClearReleaseQueue \/ DestroyContext
  BY <1>3, <1>9, ZenonT(50) DEF ClearReleaseQueue, DestroyContext, Go
<1>10. CASE UNCHANGED managerVars
  BY <1>10 DEF managerVars, textureVars
<1>. QED
  BY <1>1, <1>2, <1>4, <1>5, <1>6, <1>7, <1>8, <1>9, <1>10
     DEF TexturesNext, App, Draw, Flush, Upload

(* Nothing happens to a texture before it is made, and a texture whose     *)
(* destructor runs has no holder to bring it back.                         *)
LEMMA LivesStep ==
  ASSUME ManagerInv, [TexturesNext]_managerVars
  PROVE  UnmadeTexturesAreBlank' /\ DroppedTexturesAreDead'
<1>. USE NoneIsNothing
     DEF ManagerInv, TexturesTypeOK, UnmadeTexturesAreBlank, DroppedTexturesAreDead
<1>1. ASSUME NEW t \in Textures, NEW p \in Pixmaps,
             WrapTexture(t, p) \/ DeferredUploadImage(t, p)
      PROVE  UnmadeTexturesAreBlank' /\ DroppedTexturesAreDead'
  <2>1. CASE WrapTexture(t, p)
    BY <2>1 DEF WrapTexture
  <2>2. CASE DeferredUploadImage(t, p)
    BY <2>2 DEF DeferredUploadImage
  <2>. QED
    BY <1>1, <2>1, <2>2
<1>2. ASSUME NEW t \in Textures,
             CreateTexture(t) \/ ReleaseTexture(t) \/ DropTexture(t) \/ FinishDrop(t)
      PROVE  UnmadeTexturesAreBlank' /\ DroppedTexturesAreDead'
  BY <1>2 DEF CreateTexture, ReleaseTexture, DropTexture, DropTextures, FinishDrop,
              Dies
<1>3. ASSUME NEW t \in Textures, DrawTexture(t)
      PROVE  UnmadeTexturesAreBlank' /\ DroppedTexturesAreDead'
  BY <1>3 DEF DrawTexture
<1>4. ASSUME NEW p \in Pixmaps, DrawPixmap(p)
      PROVE  UnmadeTexturesAreBlank' /\ DroppedTexturesAreDead'
  BY <1>4 DEF DrawPixmap, Cached
<1>5. CASE QueryState \/ FetchGPUTexture \/ ReturnFromUpload \/ ClearReleaseQueue
  BY <1>5 DEF QueryState, FetchGPUTexture, ReturnFromUpload, ClearReleaseQueue,
              textureVars
<1>6. CASE ResetPending
  BY <1>6 DEF ResetPending, At, DrawHoldsItsTexture
<1>7. CASE \/ UploadPixmap \/ CommitDeferredImageUpload
           \/ \E t \in Textures, p \in Pixmaps : UploadImage(t, p)
  <2>1. Saves
    BY <1>7, SavingSteps
  <2>. QED
    BY <2>1, Saving DEF Saves
<1>8. CASE ClearTextureCache \/ ResetArena \/ DestroyContext
  BY <1>8 DEF ClearTextureCache, ResetArena, DestroyContext, DropTextures
<1>9. CASE UNCHANGED managerVars
  BY <1>9 DEF managerVars, textureVars
<1>. QED
  BY <1>1, <1>2, <1>3, <1>4, <1>5, <1>6, <1>7, <1>8, <1>9
     DEF TexturesNext, App, Draw, Flush, Upload

(* A draw keeps its texture to its end: the application's threads cannot   *)
(* drop it under the GPU thread.                                           *)
LEMMA DrawsStep ==
  ASSUME ManagerInv, [TexturesNext]_managerVars
  PROVE  DrawHoldsItsTexture'
<1>. USE NoneIsNothing
     DEF ManagerInv, TexturesTypeOK, DroppedTexturesAreDead, DrawHoldsItsTexture, At
<1>1. ASSUME NEW t \in Textures, NEW p \in Pixmaps,
             WrapTexture(t, p) \/ DeferredUploadImage(t, p)
      PROVE  DrawHoldsItsTexture'
  BY <1>1 DEF WrapTexture, DeferredUploadImage, UnmadeTexturesAreBlank
<1>2. ASSUME NEW t \in Textures,
             CreateTexture(t) \/ ReleaseTexture(t) \/ DropTexture(t)
      PROVE  DrawHoldsItsTexture'
  BY <1>2 DEF CreateTexture, ReleaseTexture, DropTexture, DropTextures,
              UnmadeTexturesAreBlank
<1>3. ASSUME NEW t \in Textures, FinishDrop(t)
      PROVE  DrawHoldsItsTexture'
  BY <1>3 DEF FinishDrop, ContextOutlivesDraws
<1>4. ASSUME NEW t \in Textures, DrawTexture(t)
      PROVE  DrawHoldsItsTexture'
  BY <1>4 DEF DrawTexture
<1>5. ASSUME NEW p \in Pixmaps, DrawPixmap(p)
      PROVE  DrawHoldsItsTexture'
  BY <1>5 DEF DrawPixmap, Cached
<1>6. CASE QueryState
  BY <1>6 DEF QueryState, Go, textureVars, CachedTexturesHoldPixmaps, Cached
<1>7. CASE UploadPixmap \/ CommitDeferredImageUpload
  BY <1>7 DEF UploadPixmap, CommitDeferredImageUpload, Go
<1>8. CASE ResetPending
  BY <1>8 DEF ResetPending, Go
<1>9. CASE \/ FetchGPUTexture \/ ReturnFromUpload \/ ResetArena \/ DestroyContext
           \/ \E t \in Textures, p \in Pixmaps : UploadImage(t, p)
  BY <1>9 DEF FetchGPUTexture, ReturnFromUpload, ResetArena, DestroyContext,
              UploadImage, GpuIdle
<1>10. CASE ClearTextureCache \/ ClearReleaseQueue
  BY <1>10 DEF ClearTextureCache, ClearReleaseQueue, Go
<1>11. CASE UNCHANGED managerVars
  BY <1>11 DEF managerVars, textureVars
<1>. QED
  BY <1>1, <1>2, <1>3, <1>4, <1>5, <1>6, <1>7, <1>8, <1>9, <1>10, <1>11
     DEF TexturesNext, App, Draw, Flush, Upload

(* Nobody else uses the texture of a pixmap while the cache has it.        *)
LEMMA CacheStep ==
  ASSUME ManagerInv, [TexturesNext]_managerVars
  PROVE  CachedTexturesHoldPixmaps'
<1>. USE NoneIsNothing
     DEF ManagerInv, TexturesTypeOK, CachedTexturesHoldPixmaps, Cached
<1>1. ASSUME NEW t \in Textures, NEW p \in Pixmaps,
             WrapTexture(t, p) \/ DeferredUploadImage(t, p)
      PROVE  CachedTexturesHoldPixmaps'
  <2>1. CASE WrapTexture(t, p)
    BY <2>1 DEF WrapTexture
  <2>2. CASE DeferredUploadImage(t, p)
    <3>1. \A q \in Pixmaps : t \notin Cached(q)
      <4>1. ref[t] = {"app"}
        BY <2>2 DEF DeferredUploadImage
      <4>2. ref[t] # {"cache"}
        <5>1. "cache" \notin {"app"}
          OBVIOUS
        <5>. QED
          BY <4>1, <5>1
      <4>. QED
        BY <4>2
    <3>2. \A u \in Textures \ {t} : pendingPixmap'[u] = pendingPixmap[u]
      BY <2>2 DEF DeferredUploadImage
    <3>3. UNCHANGED <<made, ref, handler, content, cache>>
      BY <2>2 DEF DeferredUploadImage
    <3>. QED
      BY <3>1, <3>2, <3>3
  <2>. QED
    BY <1>1, <2>1, <2>2
<1>2. ASSUME NEW t \in Textures,
             CreateTexture(t) \/ ReleaseTexture(t) \/ DropTexture(t) \/ FinishDrop(t)
      PROVE  CachedTexturesHoldPixmaps'
  BY <1>2 DEF CreateTexture, ReleaseTexture, DropTexture, DropTextures, FinishDrop
<1>3. ASSUME NEW t \in Textures, DrawTexture(t)
      PROVE  CachedTexturesHoldPixmaps'
  BY <1>3 DEF DrawTexture
<1>4. ASSUME NEW p \in Pixmaps, DrawPixmap(p)
      PROVE  CachedTexturesHoldPixmaps'
  <2>1. CASE \E t \in Cached(p) : UNCHANGED <<made, ref, handler, cache>>
    BY <1>4, <2>1 DEF DrawPixmap
  <2>2. ASSUME NEW t \in Textures \ made, Cached(p) = {},
               made' = made \cup {t},
               ref' = [ref EXCEPT ![t] = {"cache"}],
               handler' = [handler EXCEPT ![t] = "created"],
               cache' = [cache EXCEPT ![p] = t]
        PROVE  CachedTexturesHoldPixmaps'
    <3>1. UNCHANGED <<content, pendingPixmap>>
      BY <1>4 DEF DrawPixmap
    <3>2. \A q \in Pixmaps : cache[q] # t
      OBVIOUS
    <3>3. pendingPixmap[t] = None
      BY DEF UnmadeTexturesAreBlank
    <3>. QED
      BY <2>2, <3>1, <3>2, <3>3
  <2>. QED
    BY <1>4, <2>1, <2>2 DEF DrawPixmap
<1>5. CASE QueryState \/ FetchGPUTexture \/ ReturnFromUpload \/ ClearReleaseQueue
  BY <1>5 DEF QueryState, FetchGPUTexture, ReturnFromUpload, ClearReleaseQueue,
              textureVars
<1>6. CASE ResetPending
  BY <1>6 DEF ResetPending
<1>7. CASE \/ UploadPixmap \/ CommitDeferredImageUpload
           \/ \E t \in Textures, p \in Pixmaps : UploadImage(t, p)
  <2>1. Saves
    BY <1>7, SavingSteps
  <2>. QED
    BY <2>1, Saving DEF Saves
<1>8. CASE ClearTextureCache \/ ResetArena \/ DestroyContext
  BY <1>8 DEF ClearTextureCache, ResetArena, DestroyContext, DropTextures, Dies
<1>9. CASE UNCHANGED managerVars
  BY <1>9 DEF managerVars, textureVars
<1>. QED
  BY <1>1, <1>2, <1>3, <1>4, <1>5, <1>6, <1>7, <1>8, <1>9
     DEF TexturesNext, App, Draw, Flush, Upload

(* The entries of the map follow the textures.                             *)
LEMMA EntriesStep ==
  ASSUME ManagerInv, [TexturesNext]_managerVars
  PROVE  EntriesFollowTextures'
<1>. USE NoneIsNothing
     DEF ManagerInv, TexturesTypeOK, UnmadeTexturesAreBlank, DroppedTexturesAreDead,
         EntriesFollowTextures
<1>1. ASSUME NEW t \in Textures, NEW p \in Pixmaps,
             WrapTexture(t, p) \/ DeferredUploadImage(t, p)
      PROVE  EntriesFollowTextures'
  <2>1. CASE WrapTexture(t, p)
    <3>1. /\ t \notin made /\ made' = made \cup {t}
          /\ ref' = [ref EXCEPT ![t] = {"app"}]
          /\ handler' = [handler EXCEPT ![t] = "uploaded"]
          /\ UNCHANGED <<pendingPixmap, stored, drop, context>>
      BY <2>1 DEF WrapTexture
    <3>. QED
      BY <3>1, SMTT(40)
  <2>2. CASE DeferredUploadImage(t, p)
    BY <2>2 DEF DeferredUploadImage
  <2>. QED
    BY <1>1, <2>1, <2>2
<1>2. ASSUME NEW t \in Textures, CreateTexture(t) \/ DrawTexture(t)
      PROVE  EntriesFollowTextures'
  <2>1. CASE CreateTexture(t)
    BY <2>1, SMTT(40) DEF CreateTexture
  <2>2. CASE DrawTexture(t)
    BY <2>2 DEF DrawTexture
  <2>. QED
    BY <1>2, <2>1, <2>2
<1>3. ASSUME NEW t \in Textures, ReleaseTexture(t)
      PROVE  EntriesFollowTextures'
  BY <1>3 DEF ReleaseTexture, Dies, ManagerLives
<1>4. ASSUME NEW t \in Textures, DropTexture(t) \/ FinishDrop(t)
      PROVE  EntriesFollowTextures'
  <2>1. CASE DropTexture(t)
    BY <2>1 DEF DropTexture, DropTextures
  <2>2. CASE FinishDrop(t)
    BY <2>2 DEF FinishDrop
  <2>. QED
    BY <1>4, <2>1, <2>2
<1>5. ASSUME NEW p \in Pixmaps, DrawPixmap(p)
      PROVE  EntriesFollowTextures'
  <2>1. CASE \E t \in Cached(p) : UNCHANGED <<made, ref, handler, cache>>
    BY <1>5, <2>1 DEF DrawPixmap
  <2>2. ASSUME NEW t \in Textures \ made,
               made' = made \cup {t},
               ref' = [ref EXCEPT ![t] = {"cache"}],
               handler' = [handler EXCEPT ![t] = "created"]
        PROVE  EntriesFollowTextures'
    <3>1. UNCHANGED <<pendingPixmap, stored, drop, context>>
      BY <1>5 DEF DrawPixmap
    <3>. QED
      BY <2>2, <3>1, SMTT(40)
  <2>. QED
    BY <1>5, <2>1, <2>2 DEF DrawPixmap
<1>6. CASE QueryState \/ FetchGPUTexture \/ ReturnFromUpload \/ ClearReleaseQueue
  BY <1>6 DEF QueryState, FetchGPUTexture, ReturnFromUpload, ClearReleaseQueue,
              textureVars
<1>7. CASE ResetPending
  BY <1>7 DEF ResetPending, DrawHoldsItsTexture, At
<1>8. CASE \/ UploadPixmap \/ CommitDeferredImageUpload
           \/ \E t \in Textures, p \in Pixmaps : UploadImage(t, p)
  <2>1. Saves
    BY <1>8, SavingSteps
  <2>. QED
    BY <2>1, Saving DEF Saves
<1>9. CASE ClearTextureCache \/ ResetArena
  <2>1. CASE ClearTextureCache
    BY <2>1 DEF ClearTextureCache, DropTextures, Dies
  <2>2. CASE ResetArena
    BY <2>2 DEF ResetArena, Dies
  <2>. QED
    BY <1>9, <2>1, <2>2
<1>10. CASE DestroyContext
  BY <1>10 DEF DestroyContext
<1>11. CASE UNCHANGED managerVars
  BY <1>11 DEF managerVars, textureVars
<1>. QED
  BY <1>1, <1>2, <1>3, <1>4, <1>5, <1>6, <1>7, <1>8, <1>9, <1>10, <1>11
     DEF TexturesNext, App, Draw, Flush, Upload

(* A draw takes the content of its GPU texture, which is its pixmap's.     *)
LEMMA DrawnStep ==
  ASSUME ManagerInv, [TexturesNext]_managerVars
  PROVE  PixmapsAreDrawnRight'
<1>1. CASE FetchGPUTexture
  BY <1>1, NoneIsNothing
     DEF FetchGPUTexture, ManagerInv, TexturesTypeOK, DrawHoldsItsTexture,
         CachedTexturesHoldPixmaps, Cached, At, PixmapsAreDrawnRight
<1>2. CASE drawn' \in {drawn, {}}
  BY <1>2 DEF ManagerInv, PixmapsAreDrawnRight
<1>3. FetchGPUTexture \/ drawn' \in {drawn, {}}
  BY DEF TexturesNext, App, Draw, Flush, Upload, CreateTexture, WrapTexture,
         DeferredUploadImage, ReleaseTexture, DropTexture, FinishDrop, DrawTexture,
         DrawPixmap, UploadPixmap, QueryState, CommitDeferredImageUpload,
         ResetPending, UploadImage, ReturnFromUpload, ClearTextureCache,
         ClearReleaseQueue, ResetArena, DestroyContext, managerVars
<1>. QED
  BY <1>1, <1>2, <1>3

(* SeqWithout a context the GPU thread is done, and the last holder of the    *)
(* manager leaves no GPU texture behind.                                   *)
LEMMA ThreadsStep ==
  ASSUME ManagerInv, [TexturesNext]_managerVars
  PROVE  ContextOutlivesDraws' /\ GPUTexturesDieOnTheGPUThread'
<1>. USE DEF ManagerInv, TexturesTypeOK, ContextOutlivesDraws,
             GPUTexturesDieOnTheGPUThread, ManagerLives, At
<1>1. ASSUME NEW t \in Textures, NEW p \in Pixmaps,
             WrapTexture(t, p) \/ DeferredUploadImage(t, p)
      PROVE  ContextOutlivesDraws' /\ GPUTexturesDieOnTheGPUThread'
  BY <1>1 DEF WrapTexture, DeferredUploadImage
<1>2. ASSUME NEW t \in Textures,
             CreateTexture(t) \/ ReleaseTexture(t) \/ DrawTexture(t)
      PROVE  ContextOutlivesDraws' /\ GPUTexturesDieOnTheGPUThread'
  BY <1>2 DEF CreateTexture, ReleaseTexture, DrawTexture
<1>3. ASSUME NEW t \in Textures, DropTexture(t)
      PROVE  ContextOutlivesDraws' /\ GPUTexturesDieOnTheGPUThread'
  BY <1>3 DEF DropTexture, DropTextures
<1>4. ASSUME NEW t \in Textures, FinishDrop(t)
      PROVE  ContextOutlivesDraws' /\ GPUTexturesDieOnTheGPUThread'
  <2>1. CASE context \/ \E u \in Textures \ {t} : drop[u] # "no"
    BY <1>4, <2>1 DEF FinishDrop
  <2>2. CASE ~(context \/ \E u \in Textures \ {t} : drop[u] # "no")
    <3>1. \A u \in Textures : gpuRef'[u] = {}
      BY <1>4, <2>2 DEF FinishDrop, ReleaseGPUTextures
    <3>. QED
      BY <1>4, <2>2, <3>1 DEF FinishDrop
  <2>. QED
    BY <2>1, <2>2
<1>5. ASSUME NEW p \in Pixmaps, DrawPixmap(p)
      PROVE  ContextOutlivesDraws' /\ GPUTexturesDieOnTheGPUThread'
  BY <1>5 DEF DrawPixmap
<1>6. CASE QueryState \/ ResetPending \/ FetchGPUTexture \/ ReturnFromUpload
  BY <1>6 DEF QueryState, ResetPending, FetchGPUTexture, ReturnFromUpload,
              textureVars
<1>7. CASE \/ UploadPixmap \/ CommitDeferredImageUpload
           \/ \E t \in Textures, p \in Pixmaps : UploadImage(t, p)
  BY <1>7, SavingSteps DEF Saves
<1>8. CASE ClearTextureCache \/ ClearReleaseQueue \/ ResetArena
  BY <1>8 DEF ClearTextureCache, ClearReleaseQueue, ResetArena, ReleaseGPUTextures,
              DropTextures
<1>9. CASE DestroyContext
  <2>1. CASE \E t \in Textures : drop[t] # "no"
    BY <1>9, <2>1 DEF DestroyContext
  <2>2. CASE \A t \in Textures : drop[t] = "no"
    <3>1. \A u \in Textures : gpuRef'[u] = {}
      BY <1>9, <2>2 DEF DestroyContext, ReleaseGPUTextures
    <3>. QED
      BY <1>9, <2>2, <3>1 DEF DestroyContext
  <2>. QED
    BY <2>1, <2>2
<1>10. CASE UNCHANGED managerVars
  BY <1>10 DEF managerVars, textureVars
<1>. QED
  BY <1>1, <1>2, <1>3, <1>4, <1>5, <1>6, <1>7, <1>8, <1>9, <1>10
     DEF TexturesNext, App, Draw, Flush, Upload

-----------------------------------------------------------------------------
(* Theorems.                                                               *)

(* The inductive invariant of the manager, the textures and the GPU thread *)
(* holds in every reachable state.                                         *)
THEOREM ManagerInvariantHolds == TexturesSpec => []ManagerInv
<1>1. TexturesInit => ManagerInv
  BY DEF TexturesInit, GpuIdle, ManagerInv, TexturesTypeOK, Places,
         UnmadeTexturesAreBlank, DroppedTexturesAreDead, DrawHoldsItsTexture,
         CachedTexturesHoldPixmaps, Cached, ContextOutlivesDraws, At,
         EntriesFollowTextures, PixmapsAreDrawnRight,
         GPUTexturesDieOnTheGPUThread, ManagerLives
<1>2. ManagerInv /\ [TexturesNext]_managerVars => ManagerInv'
  <2>. SUFFICES ASSUME ManagerInv, [TexturesNext]_managerVars PROVE ManagerInv'
    OBVIOUS
  <2>. QED
    BY TypesStep, LivesStep, DrawsStep, CacheStep, EntriesStep, DrawnStep, ThreadsStep
       DEF ManagerInv
<1>. QED
  BY <1>1, <1>2, PTL DEF TexturesSpec

(* The CHECK of GetGPUTexture holds, no entry outlives its texture, and a  *)
(* texture without a GPU texture keeps the image that was stored for it,   *)
(* whichever threads create, upload, draw and drop how many textures.      *)
THEOREM EntriesDoFollowTextures == TexturesSpec => []EntriesFollowTextures
  BY ManagerInvariantHolds, PTL DEF ManagerInv

(* A pixmap is drawn from a GPU texture that holds it, whatever else the   *)
(* GPU thread and the application upload in between.                       *)
THEOREM PixmapsAreAllDrawnRight == TexturesSpec => []PixmapsAreDrawnRight
  BY ManagerInvariantHolds, PTL DEF ManagerInv

(* While the context lives only the GPU thread destroys GPU textures, and  *)
(* the last holder of the manager leaves none behind.                      *)
THEOREM GPUTexturesAllDieRight == TexturesSpec => []GPUTexturesDieOnTheGPUThread
  BY ManagerInvariantHolds, PTL DEF ManagerInv
=============================================================================
