------------------------------- MODULE GpuWork -------------------------------
(***************************************************************************)
(* What the Vulkan backend promises the rest of the renderer: an object    *)
(* may be dropped at any time, and yet none is destroyed while work that   *)
(* uses it runs on the GPU.                                                *)
(***************************************************************************)

CONSTANTS Commands, Resources

VARIABLES
  live,     \* resources that exist
  running   \* work on the GPU: which command buffer, using what

vars == <<live, running>>

InUse == UNION {job.uses : job \in running}

TypeOK ==
  /\ live \subseteq Resources
  /\ running \subseteq [command : Commands, uses : SUBSET Resources]

Init ==
  /\ live = {}
  /\ running = {}

Create(r) ==
  /\ r \notin live
  /\ live' = live \cup {r}
  /\ UNCHANGED running

Start(c, uses) ==
  /\ \A job \in running : job.command # c
  /\ uses \subseteq live
  /\ running' = running \cup {[command |-> c, uses |-> uses]}
  /\ UNCHANGED live

Finish(job) ==
  /\ running' = running \ {job}
  /\ UNCHANGED live

Destroy(dropped) ==
  /\ dropped \cap InUse = {}
  /\ live' = live \ dropped
  /\ UNCHANGED running

Next ==
  \/ \E r \in Resources : Create(r)
  \/ \E c \in Commands, uses \in SUBSET live : Start(c, uses)
  \/ \E job \in running : Finish(job)
  \/ \E dropped \in SUBSET live : Destroy(dropped)

Spec == Init /\ [][Next]_vars

=============================================================================
