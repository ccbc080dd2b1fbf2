-------------------------- MODULE MCScalerContexts --------------------------
EXTENDS ScalerContexts
=============================================================================
