-------------------------- MODULE MCMemoryService --------------------------
(* Model values and symmetry for the runs of MemoryService.                *)
EXTENDS MemoryService, TLC

HandlerSymmetry == Permutations(Handlers)
=============================================================================
