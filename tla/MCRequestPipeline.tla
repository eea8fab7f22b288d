-------------------------- MODULE MCRequestPipeline --------------------------
(* Model checking instance of RequestPipeline.                              *)
EXTENDS RequestPipeline

CONSTANTS dev, ops

MCNamespaces == {dev, ops}
=============================================================================
