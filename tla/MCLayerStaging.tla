-------------------------- MODULE MCLayerStaging --------------------------
(* Two memories of two layers over four buffers: both can be staged at     *)
(* once, and a third copy goes into what one of them gave back.            *)
EXTENDS LayerStaging
=============================================================================
