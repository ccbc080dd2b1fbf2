------------------------- MODULE MCVulkanPresenter -------------------------
(* A small instance of VulkanPresenter.                                    *)
EXTENDS VulkanPresenter
=============================================================================
