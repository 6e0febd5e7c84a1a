-------------------------- MODULE MCStagingLifecycle --------------------------
(* Instances of StagingLifecycle for TLC: the sets hold interchangeable      *)
(* model values, so safety runs may use their permutations as symmetry.      *)
EXTENDS StagingLifecycle, TLC

Symmetry == Permutations(CmdBufs) \cup Permutations(Batches)
              \cup Permutations(Syncs) \cup Permutations(Threads)
=============================================================================
