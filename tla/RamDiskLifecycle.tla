-------------------------- MODULE RamDiskLifecycle --------------------------
(***************************************************************************)
(* fs_ramdisk_init and fs_ramdisk_shutdown composed with the VFS handlers *)
(* of RamDisk.                                                             *)
(*                                                                         *)
(* The two static pointers root and rootdir are the file system's notion  *)
(* of "initialised": both functions test rootdir != NULL.  A pointer is    *)
(* "null", "live" (points at allocated memory) or "freed" (dangling).      *)
(* Handlers reach the file system in two ways: new calls by path go       *)
(* through the VFS name manager and need /ram registered; calls on a       *)
(* descriptor already open go straight to the handler table.  shutdown     *)
(* takes no lock: its loop over the root list is one step per node, and    *)
(* handlers (atomic under rd_mutex) may run between those steps.           *)
(*                                                                         *)
(* Quiesce selects the usage the shutdown code assumes: it is called when *)
(* no descriptor is open and no other thread calls the file system while  *)
(* it runs.  With Quiesce FALSE, other threads keep running.              *)
(***************************************************************************)
EXTENDS Naturals, FiniteSets

CONSTANTS NodeIds, Root, NULL, Names, Fold, RootPath, Nested, MaxFiles,
          OpenModes, InitCap, Slack, PlaceholderCap, MaxCap, WriteCounts,
          ReadCounts, SeekOffsets, AttachSizes, AllocCanFail, Threads,
          BridgeOps, MmapCalls,
          Quiesce       \* shutdown only runs with no descriptor open and
                        \* no concurrent caller

VARIABLES live, head, next, name, size, cap, data, openfor, usage, fh, thr,
          mapped,
          rootdir,      \* the static rd_dir_t *rootdir
          rootp,        \* the static rd_file_t *root
          registered,   \* /ram is in the name manager (nmmgr_handler_add)
          mtx,          \* rd_mutex: "none", "init" or "destroyed"
          sd,           \* fs_ramdisk_shutdown: "idle", in its loop "walk", or
                        \* "undefined" after it used freed memory
          f1            \* the loop's f1

RD == INSTANCE RamDisk

Ptr == {"null", "live", "freed"}
lifeVars == <<rootdir, rootp, registered, mtx, sd, f1>>
storeVars == <<live, head, next, name, size, cap, data, openfor, usage, fh, thr,
               mapped>>
vars == <<storeVars, lifeVars>>

TypeOK ==
    /\ RD!TypeOK
    /\ rootdir \in Ptr /\ rootp \in Ptr
    /\ registered \in BOOLEAN
    /\ mtx \in {"none", "init", "destroyed"}
    /\ sd \in {"idle", "walk", "undefined"}
    /\ f1 \in NodeIds \cup {NULL}

\* Program start: static storage is zero.  root and rootdir are NULL, fh[]
\* is zeroed, nothing is allocated or registered.
Init ==
    /\ RD!Init
    /\ rootdir = "null" /\ rootp = "null"
    /\ registered = FALSE /\ mtx = "none"
    /\ sd = "idle" /\ f1 = NULL

ZeroSlot == [file |-> NULL, dir |-> FALSE, ptr |-> 0, omode |-> RD!ZeroMode]

-----------------------------------------------------------------------------
(* fs_ramdisk_init                                                         *)

\* Every allocation succeeded: root named "/", an empty root list, fh[]
\* zeroed, the mutex initialised and /ram registered.
InitComplete ==
    /\ rootdir' = "live" /\ rootp' = "live"
    /\ head' = NULL
    /\ openfor' = [openfor EXCEPT ![Root] = "NOTHING"]
    /\ usage' = [usage EXCEPT ![Root] = 0]
    /\ fh' = [h \in RD!Handles |-> ZeroSlot]
    /\ mtx' = "init" /\ registered' = TRUE
    /\ UNCHANGED <<live, next, name, size, cap, data, thr, mapped, sd, f1>>

\* fs_ramdisk_init.  The failure paths free what they allocated but do not
\* reset the pointers: rootdir is left dangling (and root too when strdup
\* failed).
FsInit ==
    /\ sd = "idle"
    /\ \/ rootdir # "null" /\ UNCHANGED vars
       \/ /\ rootdir = "null"
          /\ \/ AllocCanFail /\ UNCHANGED vars
             \/ /\ AllocCanFail
                /\ rootdir' = "freed"
                /\ \E r \in {"null", "freed"} : rootp' = r
                /\ UNCHANGED <<storeVars, registered, mtx, sd, f1>>
             \/ InitComplete

-----------------------------------------------------------------------------
(* Seeded faults for mutation runs (see RamDisk).                          *)

\* The loop started at LIST_NEXT(LIST_FIRST(rootdir)) (NoLeakAfterShutdown).
ShutdownBeginAtSecond ==
    /\ sd = "idle" /\ rootdir # "null"
    /\ Quiesce => \A h \in RD!Handles : fh[h].file = NULL
    /\ \/ rootdir = "live" /\ sd' = "walk"
          /\ f1' = IF head = NULL THEN NULL ELSE next[head]
       \/ rootdir = "freed" /\ sd' = "undefined" /\ UNCHANGED f1
    /\ UNCHANGED <<storeVars, rootdir, rootp, registered, mtx>>

\* shutdown without nmmgr_handler_remove (ReachableAllocated).
ShutdownTailStaysRegistered ==
    /\ sd = "walk" /\ f1 = NULL
    /\ rootdir' = "freed" /\ rootp' = "freed"
    /\ mtx' = "destroyed" /\ sd' = "idle"
    /\ UNCHANGED <<storeVars, f1, registered>>

-----------------------------------------------------------------------------
(* fs_ramdisk_shutdown, one step per statement group.                       *)

\* The "initted" test and f1 = LIST_FIRST(rootdir).  Nothing resets
\* rootdir to NULL, so after a failed init or a completed shutdown a
\* freed rootdir passes the test: LIST_FIRST then reads freed memory (never
\* set by LIST_INIT after a failed init), and whatever it reads, the code
\* ends in free(rootdir) on freed memory.  The behaviour is undefined and
\* the model follows it no further.
ShutdownBegin ==
    /\ sd = "idle" /\ rootdir # "null"
    /\ Quiesce => \A h \in RD!Handles : fh[h].file = NULL
    /\ \/ rootdir = "live" /\ sd' = "walk" /\ f1' = head
       \/ rootdir = "freed" /\ sd' = "undefined" /\ UNCHANGED f1
    /\ UNCHANGED <<storeVars, rootdir, rootp, registered, mtx>>

\* One turn of the loop: f2 = LIST_NEXT(f1); free name, data and node;
\* f1 = f2.  Nothing is unlinked.
ShutdownFree ==
    /\ sd = "walk" /\ f1 # NULL
    /\ live' = live \ {f1}
    /\ f1' = next[f1]
    /\ UNCHANGED <<head, next, name, size, cap, data, openfor, usage, fh, thr,
                   mapped, rootdir, rootp, registered, mtx, sd>>

\* After the loop: free rootdir, root's name and root, destroy rd_mutex,
\* remove /ram from the name manager.  The pointers keep their values.
\* The walk began on a live rootdir, and only a complete init makes
\* rootdir live, so root is live here and root->name is safe to read.
ShutdownTail ==
    /\ sd = "walk" /\ f1 = NULL
    /\ rootdir' = "freed" /\ rootp' = "freed"
    /\ mtx' = "destroyed" /\ registered' = FALSE
    /\ sd' = "idle"
    /\ UNCHANGED <<storeVars, f1>>

-----------------------------------------------------------------------------
(* Callers of the VFS handlers                                              *)

\* After undefined behaviour the program's state is not modelled further.
Undefined == sd = "undefined" /\ UNCHANGED vars

\* Whether other threads may call the file system now.
Callers == Quiesce => sd = "idle"

\* open and unlink by path are routed through the name manager.
PathCall ==
    /\ registered /\ Callers
    /\ RD!ClientOpen \/ RD!ClientUnlink
    /\ UNCHANGED lifeVars

\* read, write, seek, close, readdir, rewinddir on an open descriptor.
DescriptorCall ==
    /\ Callers
    /\ RD!ClientStep
    /\ UNCHANGED lifeVars

Next == FsInit \/ ShutdownBegin \/ ShutdownFree \/ ShutdownTail
        \/ PathCall \/ DescriptorCall \/ Undefined

Spec == Init /\ [][Next]_vars

-----------------------------------------------------------------------------
(* Properties                                                              *)

\* The nodes LIST_FOREACH visits from the root list head.  The walk stops
\* at a node seen before, since le_next links of freed nodes may cycle.
RECURSIVE Chain(_, _)
Chain(f, seen) == IF f = NULL \/ f \in seen THEN seen
                  ELSE Chain(next[f], seen \cup {f})

\* Whatever a handler can reach is usable: while /ram is registered and
\* callers are about,
\* rootdir, root and every node on the root list are allocated and
\* rd_mutex is initialised; at any time, the node behind every open
\* descriptor is allocated.  It fails if shutdown frees a node a handler
\* can still reach, or unregisters too late.
ReachableAllocated ==
    /\ registered /\ Callers => /\ rootdir = "live" /\ rootp = "live" /\ mtx = "init"
                                  /\ Chain(head, {}) \subseteq live
    /\ \A h \in RD!Handles :
          fh[h].file \in live \cup {NULL} \cup (IF rootp = "live" THEN {Root} ELSE {})

\* Once shutdown has run to the end, no file node is left allocated: the
\* root list that shutdown walks holds every file that open created and
\* unlink did not free.
NoLeakAfterShutdown ==
    sd = "idle" /\ rootdir = "freed" => live = {}

\* The test "rootdir != NULL" that fs_ramdisk_init and fs_ramdisk_shutdown
\* use for "initialised" holds exactly when /ram is mounted, so init after
\* shutdown mounts /ram again and a second shutdown does nothing.
InitTestMeansMounted ==
    (rootdir # "null") <=> registered

=============================================================================
