---------------------------- MODULE MCGpuObjects ----------------------------
(* Small instances of the three views.                                     *)
EXTENDS GpuObjects, MCVulkanImages
=============================================================================
