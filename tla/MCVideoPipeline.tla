-------------------------- MODULE MCVideoPipeline --------------------------
(* Instances of VideoPipeline for TLC.                                     *)
EXTENDS PipelineRelay

CONSTANTS p1, p2, p3

MCPbufs == {p1, p2, p3}
=============================================================================
