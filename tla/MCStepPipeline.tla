---------------------------- MODULE MCStepPipeline ----------------------------
(* Interchangeable addresses and geometries for StepPipeline.                *)
EXTENDS StepPipeline, TLC

Symmetry == Permutations(Addrs) \cup Permutations(Shapes)
===============================================================================
