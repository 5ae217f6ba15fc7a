---------------------------- MODULE MC_Lifecycle ----------------------------
(* Instantiates RamDiskLifecycle for TLC: two heap addresses, one file     *)
(* name in two spellings, two handle slots, the same scaled byte counts as *)
(* MC_RamDisk, and no attach/detach threads.                               *)
EXTENDS RamDiskLifecycle, TLC

CONSTANTS n1, n2, x, X

MCNodeIds == {n1, n2}
MCNames == {x, X}
MCFold == [nm \in MCNames |-> "x"]

\* O_RDONLY, O_RDONLY|O_DIR, O_WRONLY, O_WRONLY|O_TRUNC.
MCOpenModes ==
    { [acc |-> "RDONLY", dir |-> FALSE, append |-> FALSE, trunc |-> FALSE],
      [acc |-> "RDONLY", dir |-> TRUE,  append |-> FALSE, trunc |-> FALSE],
      [acc |-> "WRONLY", dir |-> FALSE, append |-> FALSE, trunc |-> FALSE],
      [acc |-> "WRONLY", dir |-> FALSE, append |-> FALSE, trunc |-> TRUE] }

MCSymmetry == Permutations(MCNodeIds)

=============================================================================
