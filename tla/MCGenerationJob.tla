-------------------------- MODULE MCGenerationJob --------------------------
(* Instances of GenerationJob for TLC, with its inductive invariant.       *)
EXTENDS GenerationJobInv
=============================================================================
