---------------------------- MODULE MC_RamDisk ----------------------------
(* Instantiates RamDisk for TLC: three heap addresses, names x and X that   *)
(* differ only in case plus y, handle table of FS_RAMDISK_MAX_FILES = 3     *)
(* (slots 1 and 2), and byte counts scaled so that every branch of write,   *)
(* read and seek is taken.                                                  *)
EXTENDS RamDisk, TLC

CONSTANTS n1, n2, x, X, y, t1, t2

MCNodeIds == {n1, n2}
MCNames == {x, X, y}
MCFold == [nm \in MCNames |-> IF nm = y THEN "y" ELSE "x"]

\* One file name in two spellings: runs with attach/detach threads race
\* them against clients on a single file.
MCOneName == {x, X}
MCOneFold == [nm \in MCOneName |-> "x"]

\* Open flags: O_RDONLY, O_RDONLY|O_DIR, O_WRONLY, O_WRONLY|O_APPEND,
\* O_WRONLY|O_TRUNC, and the refused O_RDWR|O_DIR.
MCOpenModes ==
    { [acc |-> "RDONLY", dir |-> FALSE, append |-> FALSE, trunc |-> FALSE],
      [acc |-> "RDONLY", dir |-> TRUE,  append |-> FALSE, trunc |-> FALSE],
      [acc |-> "WRONLY", dir |-> FALSE, append |-> FALSE, trunc |-> FALSE],
      [acc |-> "WRONLY", dir |-> FALSE, append |-> TRUE,  trunc |-> FALSE],
      [acc |-> "WRONLY", dir |-> FALSE, append |-> FALSE, trunc |-> TRUE],
      [acc |-> "RDWR",   dir |-> TRUE,  append |-> FALSE, trunc |-> FALSE] }

\* A seek offset past MaxCap exercises the clamp.
MCSeekOffsets == {-1, 1, 5}

MCSymmetry == Permutations(MCNodeIds)

\* Heap addresses and, for runs with two bridge threads, the threads.
MCSymmetry2 == Permutations(MCNodeIds) \cup Permutations({t1, t2})

\* States that differ only in memory no later step reads are merged: the
\* fields of a free fh[] slot (open rewrites all of them before use) and
\* those of a freed node other than le_next (create rewrites them; readdir
\* through a dangling cursor still follows le_next).
MCView ==
    << live, head, next,
       [n \in live |-> <<name[n], size[n], cap[n], data[n], openfor[n], usage[n]>>],
       <<openfor[Root], usage[Root]>>,
       [h \in Handles |-> IF fh[h].file = NULL THEN NULL ELSE fh[h]],
       thr, mapped >>
=============================================================================
