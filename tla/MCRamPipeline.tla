---------------------------- MODULE MCRamPipeline ----------------------------
(* RamPipeline with three tensors, two workers and two runs over one output. *)
EXTENDS RamPipeline
=============================================================================
