--------------------------- MODULE MCGpuLifecycle ---------------------------
EXTENDS GpuLifecycle
=============================================================================
