------------------------------ MODULE RamDisk ------------------------------
(***************************************************************************)
(* The ramdisk file system of KallistiOS, kernel/fs/fs_ramdisk.c.          *)
(*                                                                         *)
(* State: the node store (rd_file_t records at heap addresses NodeIds,     *)
(* linked into the root directory's intrusive list through le_next), the   *)
(* handle table fh[], and the threads running fs_ramdisk_attach and        *)
(* fs_ramdisk_detach.  Every VFS handler takes rd_mutex for its whole body *)
(* (mutex_lock_scoped), so each one is a single atomic action here.        *)
(* attach and detach do not hold rd_mutex between the ramdisk_open,        *)
(* ramdisk_close and ramdisk_unlink calls they make: each unlocked stretch *)
(* is a step of its own, and other threads run in between.                *)
(*                                                                         *)
(* Data abstraction: a buffer is "buf" or "null" (malloc failed); names    *)
(* are model values compared through Fold (strncasecmp); byte counts are   *)
(* scaled down (InitCap, Slack, PlaceholderCap stand for 1024, 4096, 64).  *)
(* mkdir is not implemented, so Root is the only directory and every node  *)
(* in NodeIds is a file (ramdisk_create_file is only called with dir = 0). *)
(***************************************************************************)
EXTENDS Naturals, FiniteSets, FiniteSetsExt

CONSTANTS
    NodeIds,        \* heap addresses an rd_file_t can be allocated at
    Root,           \* the root node allocated by fs_ramdisk_init
    NULL,
    Names,          \* file names a caller may pass (no '/')
    Fold,           \* Fold[nm]: nm as strncasecmp sees it
    RootPath,       \* the path "" (or "/"): the root directory
    Nested,         \* a path "d/x" whose first component must be a directory
    MaxFiles,       \* FS_RAMDISK_MAX_FILES
    OpenModes,      \* the flag sets callers pass to open
    InitCap,        \* the 1024-byte first data block of a file
    Slack,          \* the 4096 extra bytes write asks realloc for
    PlaceholderCap, \* the 64-byte block detach leaves behind
    MaxCap,         \* model bound: the largest data block a write grows to
    WriteCounts, ReadCounts, SeekOffsets, AttachSizes,
    AllocCanFail,   \* whether malloc/realloc may return NULL
    Threads,        \* threads calling fs_ramdisk_attach / fs_ramdisk_detach
    BridgeOps,      \* which of "attach", "detach" those threads call
    MmapCalls       \* whether clients call mmap on their handles

Paths == Names \cup {RootPath, Nested}
Handles == 1..(MaxFiles - 1)            \* fh[0] is never handed out
Nodes == NodeIds \cup {Root}

\* The flag word of open: O_MODE_MASK part and O_DIR, O_APPEND, O_TRUNC.
Mode == [acc : {"RDONLY", "WRONLY", "RDWR"}, dir : BOOLEAN,
         append : BOOLEAN, trunc : BOOLEAN]
ZeroMode == [acc |-> "RDONLY", dir |-> FALSE, append |-> FALSE, trunc |-> FALSE]
Writable(m) == m.acc # "RDONLY"

ASSUME /\ Root \notin NodeIds /\ NULL \notin Nodes \cup Names
       /\ Fold \in [Names -> STRING] /\ OpenModes \subseteq Mode
       /\ MaxFiles >= 2 /\ PlaceholderCap < InitCap /\ InitCap <= MaxCap
       /\ BridgeOps \subseteq {"attach", "detach"}

AllocResult == IF AllocCanFail THEN {"buf", "null"} ELSE {"buf"}

PCs == {"idle", "att_install", "att_close", "det_take", "det_close", "det_unlink"}

VARIABLES
    live,       \* NodeIds currently allocated (files in the root list)
    head,       \* rootdir->lh_first
    next,       \* next[f]: f->dirlist.le_next (kept after free)
    name,       \* f->name
    size,       \* f->size
    cap,        \* f->datasize
    data,       \* f->data: "buf" or "null"
    openfor,    \* f->openfor
    usage,      \* f->usage
    fh,         \* the handle table fh[]
    thr,        \* attach/detach callers: pc and locals fn, fd, f
    mapped      \* the pointer the caller of mmap(h) keeps: "none",
                \* "valid" (into the block) or "stale" (block replaced)

nodeVars == <<live, head, next, name, size, cap, data, openfor, usage>>
vars == <<nodeVars, fh, thr, mapped>>

Slot == [file : Nodes \cup {NULL}, dir : BOOLEAN,
         ptr : (0..MaxCap) \cup NodeIds \cup {NULL}, omode : Mode]

TypeOK ==
    /\ live \subseteq NodeIds
    /\ head \in NodeIds \cup {NULL}
    /\ next \in [NodeIds -> NodeIds \cup {NULL}]
    /\ name \in [NodeIds -> Names \cup {NULL}]
    /\ size \in [NodeIds -> 0..MaxCap]
    /\ cap \in [NodeIds -> 0..MaxCap]
    /\ data \in [NodeIds -> {"buf", "null"}]
    /\ openfor \in [Nodes -> {"NOTHING", "READ", "WRITE"}]
    /\ usage \in [Nodes -> 0..(MaxFiles - 1)]
    /\ fh \in [Handles -> Slot]
    /\ thr \in [Threads -> [pc : PCs, fn : Paths, fd : Handles \cup {NULL},
                            f : NodeIds \cup {NULL}]]
    /\ mapped \in [Handles -> {"none", "valid", "stale"}]

\* fs_ramdisk_init has run: empty root list, zeroed handle table.
Init ==
    /\ live = {}
    /\ head = NULL
    /\ next = [n \in NodeIds |-> NULL]
    /\ name = [n \in NodeIds |-> NULL]
    /\ size = [n \in NodeIds |-> 0]
    /\ cap = [n \in NodeIds |-> 0]
    /\ data = [n \in NodeIds |-> "null"]
    /\ openfor = [n \in Nodes |-> "NOTHING"]
    /\ usage = [n \in Nodes |-> 0]
    /\ fh = [h \in Handles |-> [file |-> NULL, dir |-> FALSE, ptr |-> 0,
                                omode |-> ZeroMode]]
    /\ thr = [t \in Threads |-> [pc |-> "idle", fn |-> RootPath, fd |-> NULL,
                                 f |-> NULL]]
    /\ mapped = [h \in Handles |-> "none"]

-----------------------------------------------------------------------------
(* Seeded faults.  Each replaces one definition below in a mutation run   *)
(* and stands for a plausible slip in the C code; the property named      *)
(* must then fail.                                                         *)

\* strcmp-style lookup instead of strncasecmp (UniqueNames).
CaseSensitiveMatch(f, nm) == name[f] = nm
\* error_out that leaves the claimed slot pointing at the file (UseCountExact).
KeepSlot(slot) == slot
\* open without "if(f->openfor == OPENFOR_READ) goto error_out" (ExclusionProtocol).
NoReaderCheck(f) == FALSE
\* write that forgets "if(size < ptr) size = ptr" (FileBounds).
KeepSize(s, p) == s
\* write that sets "size = ptr" without the "if(size < ptr)" test
\* (FileStoreRefinement).
SizeToPos(s, p) == p
\* seek without its bounds check (TypeOK).
NoClamp(p, s) == p

-----------------------------------------------------------------------------
(* Path resolution: ramdisk_find and ramdisk_find_path.                    *)

\* Case-insensitive name comparison of ramdisk_find.
Match(f, nm) == Fold[name[f]] = Fold[nm]

\* LIST_FOREACH over the root list: the first child whose name matches.
RECURSIVE FindFrom(_, _)
FindFrom(f, nm) == IF f = NULL THEN NULL
                   ELSE IF Match(f, nm) THEN f ELSE FindFrom(next[f], nm)

\* ramdisk_find_path(rootdir, path, dir).  An empty terminal segment yields
\* the initial f = NULL; the first segment of Nested would have to be a
\* directory and no child of the root is one; a child found while a
\* directory was asked for is a file, so it is refused as well.
FindPath(path, dir) == IF path \in Names /\ ~dir THEN FindFrom(head, path)
                       ELSE NULL

\* f's data block is freed, moved or handed away: a pointer that mmap
\* returned on a handle of f no longer points into f's block.
Invalidate(f) ==
    mapped' = [h \in Handles |-> IF fh[h].file = f /\ mapped[h] = "valid"
                                 THEN "stale" ELSE mapped[h]]

-----------------------------------------------------------------------------
(* ramdisk_open                                                            *)

FreeHandles == {h \in Handles : fh[h].file = NULL}

\* The slot after "Fill the basic fd structure".
Filled(h, f, mode) == [fh[h] EXCEPT !.file = f, !.dir = mode.dir, !.omode = mode]

\* error_out: only the file field of a claimed slot is cleared.
ErrorOut(slot) == [slot EXCEPT !.file = NULL]

\* The second exclusion check, made for writers only.
ReaderBlocksWriter(f) == openfor[f] = "READ"

\* Steps 280-342 on an existing node f: kind check, free slot, exclusion,
\* commit.  fd is the handle returned, or NULL.
Admit(f, mode, fd) ==
    LET h == Min(FreeHandles) IN
    \/ /\ f = Root /\ ~mode.dir
       /\ fd = NULL /\ UNCHANGED <<nodeVars, fh, mapped>>
    \/ /\ f # Root \/ mode.dir
       /\ \/ /\ FreeHandles = {} \/ openfor[f] = "WRITE"
             /\ fd = NULL /\ UNCHANGED <<nodeVars, fh, mapped>>
          \/ /\ FreeHandles # {} /\ openfor[f] # "WRITE"
             /\ ~Writable(mode)
             /\ fd = h
             /\ fh' = [fh EXCEPT ![h] = [Filled(h, f, mode) EXCEPT
                                         !.ptr = IF mode.dir THEN head ELSE 0]]
             /\ openfor' = [openfor EXCEPT ![f] = "READ"]
             /\ usage' = [usage EXCEPT ![f] = @ + 1]
             /\ UNCHANGED <<live, head, next, name, size, cap, data, mapped>>
          \/ /\ FreeHandles # {} /\ openfor[f] # "WRITE"
             /\ Writable(mode) /\ ReaderBlocksWriter(f)
             /\ fd = NULL
             /\ fh' = [fh EXCEPT ![h] = ErrorOut(Filled(h, f, mode))]
             /\ UNCHANGED <<nodeVars, mapped>>
          \/ /\ FreeHandles # {} /\ openfor[f] # "WRITE"
             /\ Writable(mode) /\ ~ReaderBlocksWriter(f)
             /\ fd = h
             /\ fh' = [fh EXCEPT ![h] = [Filled(h, f, mode) EXCEPT
                                         !.ptr = IF mode.append THEN size[f] ELSE 0]]
             /\ openfor' = [openfor EXCEPT ![f] = "WRITE"]
             /\ usage' = [usage EXCEPT ![f] = @ + 1]
             /\ IF mode.trunc /\ ~mode.append
                   THEN /\ \E d \in AllocResult : data' = [data EXCEPT ![f] = d]
                        /\ cap' = [cap EXCEPT ![f] = InitCap]
                        /\ size' = [size EXCEPT ![f] = 0]
                        /\ Invalidate(f)
                   ELSE UNCHANGED <<data, cap, size, mapped>>
             /\ UNCHANGED <<live, head, next, name>>

\* ramdisk_create_file(rootdir, path, 0) followed by the rest of open on the
\* new node (openfor NOTHING, usage 0, so only the slot search can fail).
CreateFile(path, mode, fd) ==
    \/ /\ path = Nested \/ live = NodeIds \/ AllocCanFail
       /\ fd = NULL /\ UNCHANGED <<nodeVars, fh, mapped>>
    \/ /\ path \in Names
       /\ \E n \in NodeIds \ live :
            /\ fd = IF FreeHandles = {} THEN NULL ELSE Min(FreeHandles)
            /\ live' = live \cup {n}
            /\ head' = n
            /\ next' = [next EXCEPT ![n] = head]
            /\ name' = [name EXCEPT ![n] = path]
            /\ size' = [size EXCEPT ![n] = 0]
            /\ cap' = [cap EXCEPT ![n] = InitCap]
            /\ \E d \in IF fd # NULL /\ mode.trunc /\ ~mode.append
                          THEN AllocResult ELSE {"buf"} :
                 data' = [data EXCEPT ![n] = d]
            /\ openfor' = [openfor EXCEPT ![n] = IF fd = NULL THEN "NOTHING"
                                                                ELSE "WRITE"]
            /\ usage' = [usage EXCEPT ![n] = IF fd = NULL THEN 0 ELSE 1]
            /\ fh' = IF fd = NULL THEN fh
                     ELSE [fh EXCEPT ![fd] = [Filled(fd, n, mode) EXCEPT !.ptr = 0]]
            /\ UNCHANGED mapped

\* ramdisk_open(path, mode) returning fd (a handle, or NULL on error).
Open(path, mode, fd) ==
    \/ /\ mode.dir /\ Writable(mode)
       /\ fd = NULL /\ UNCHANGED <<nodeVars, fh, mapped>>
    \/ /\ ~(mode.dir /\ Writable(mode))
       /\ \/ path = RootPath /\ Admit(Root, mode, fd)
          \/ /\ path # RootPath /\ FindPath(path, mode.dir) # NULL
             /\ Admit(FindPath(path, mode.dir), mode, fd)
          \/ /\ path # RootPath /\ FindPath(path, mode.dir) = NULL
             /\ ~Writable(mode)
             /\ fd = NULL /\ UNCHANGED <<nodeVars, fh, mapped>>
          \/ /\ path # RootPath /\ FindPath(path, mode.dir) = NULL
             /\ Writable(mode)
             /\ CreateFile(path, mode, fd)

-----------------------------------------------------------------------------
(* ramdisk_close, read, write, seek, readdir, rewinddir, unlink            *)

\* The usage drop of ramdisk_close: openfor is cleared with the last user.
Release(f) ==
    /\ usage' = [usage EXCEPT ![f] = @ - 1]
    /\ openfor' = [openfor EXCEPT ![f] = IF usage[f] = 1 THEN "NOTHING" ELSE @]

\* ramdisk_close on a handle in use (a free one is ignored).
CloseHandle(h) ==
    /\ fh[h].file # NULL
    /\ fh' = [fh EXCEPT ![h].file = NULL]
    /\ mapped' = [mapped EXCEPT ![h] = "none"]
    /\ Release(fh[h].file)
    /\ UNCHANGED <<live, head, next, name, size, cap, data>>

\* The bytes ramdisk_read copies: the request, cut at end of file.
ReadCount(p, n, s) == IF p + n > s THEN s - p ELSE n

\* ramdisk_read.  With ptr > size the cut s - p wraps to a huge size_t and
\* the memcpy runs off memory: the machine stops, so there is no step.
Read(h, n) ==
    LET f == fh[h].file IN
    /\ f # NULL /\ ~fh[h].dir
    /\ fh[h].ptr <= size[f]
    /\ fh' = [fh EXCEPT ![h].ptr = @ + ReadCount(@, n, size[f])]
    /\ UNCHANGED <<nodeVars, mapped>>

\* The file size after writing up to byte p.
Extend(s, p) == IF s < p THEN p ELSE s

\* ramdisk_write: grow the block to ptr + n + Slack when it is too small
\* (realloc may fail: -1, nothing changed), copy, move ptr, extend size.
\* realloc of a NULL block allocates one.  A write into a NULL block that
\* is not grown is undefined; the build keeps running.
Write(h, n) ==
    LET f == fh[h].file
        p == fh[h].ptr
        copy == /\ fh' = [fh EXCEPT ![h].ptr = p + n]
                /\ size' = [size EXCEPT ![f] = Extend(@, p + n)]
    IN
    /\ f # NULL /\ ~fh[h].dir /\ openfor[f] = "WRITE"
    /\ \/ /\ p + n <= cap[f]
          /\ copy
          /\ UNCHANGED <<live, head, next, name, cap, data, openfor, usage, mapped>>
       \/ /\ p + n > cap[f] /\ p + n + Slack <= MaxCap
          /\ cap' = [cap EXCEPT ![f] = p + n + Slack]
          /\ data' = [data EXCEPT ![f] = "buf"]
          /\ Invalidate(f) \/ UNCHANGED mapped
          /\ copy
          /\ UNCHANGED <<live, head, next, name, openfor, usage>>
       \/ /\ p + n > cap[f] /\ p + n + Slack <= MaxCap /\ AllocCanFail
          /\ UNCHANGED <<nodeVars, fh, mapped>>

\* The "check bounds" clamp at the end of ramdisk_seek.
Clamp(p, s) == IF p > s THEN s ELSE p

\* ramdisk_seek; an EINVAL return changes nothing.
Seek(h, whence, off) ==
    LET f == fh[h].file
        p == fh[h].ptr
        target == CASE whence = "SET" -> off
                    [] whence = "CUR" -> p + off
                    [] whence = "END" -> size[f] + off
    IN
    /\ f # NULL /\ ~fh[h].dir
    /\ \/ /\ target < 0
          /\ UNCHANGED <<nodeVars, fh, mapped>>
       \/ /\ target >= 0
          /\ fh' = [fh EXCEPT ![h].ptr = Clamp(target, size[f])]
          /\ UNCHANGED <<nodeVars, mapped>>

\* ramdisk_mmap: the caller gets f->data of a file handle (NULL for a
\* NULL block, which gives it nothing to keep).
Mmap(h) ==
    /\ fh[h].file # NULL /\ ~fh[h].dir /\ data[fh[h].file] = "buf"
    /\ mapped' = [mapped EXCEPT ![h] = "valid"]
    /\ UNCHANGED <<nodeVars, fh>>

\* ramdisk_tell and ramdisk_total: the position and the logical size seen
\* through a file handle, -1 on a free or directory handle.
Tell(h) == IF fh[h].file # NULL /\ ~fh[h].dir THEN fh[h].ptr ELSE -1
Total(h) == IF fh[h].file # NULL /\ ~fh[h].dir THEN size[fh[h].file] ELSE -1

\* ramdisk_readdir: yield the node at the cursor and follow its le_next.
\* The cursor is a bare pointer; if that node was unlinked the link read
\* is from freed memory and returns whatever le_next last held.
Readdir(h) ==
    /\ fh[h].file # NULL /\ fh[h].ptr # NULL /\ fh[h].dir
    /\ fh' = [fh EXCEPT ![h].ptr = next[fh[h].ptr]]
    /\ UNCHANGED <<nodeVars, mapped>>

\* ramdisk_rewinddir: back to LIST_FIRST of the directory.
Rewinddir(h) ==
    /\ fh[h].file # NULL /\ fh[h].dir
    /\ fh' = [fh EXCEPT ![h].ptr = head]
    /\ UNCHANGED <<nodeVars, mapped>>

\* LIST_REMOVE from the root list; le_next of f itself is left as it was.
RemoveFromList(f) ==
    IF head = f THEN head' = next[f] /\ UNCHANGED next
    ELSE /\ next' = [next EXCEPT ![CHOOSE p \in live : next[p] = f] = next[f]]
         /\ UNCHANGED head

\* ramdisk_unlink(path): free the file if it exists and nobody has it open.
Unlink(path) ==
    LET f == FindPath(path, FALSE) IN
    \/ /\ IF f = NULL THEN TRUE ELSE usage[f] # 0
       /\ UNCHANGED <<nodeVars, mapped>>
    \/ /\ f # NULL /\ usage[f] = 0
       /\ live' = live \ {f}
       /\ RemoveFromList(f)
       /\ UNCHANGED <<name, size, cap, data, openfor, usage, mapped>>

-----------------------------------------------------------------------------
(* fs_ramdisk_attach and fs_ramdisk_detach                                 *)

Busy(t) == thr[t].pc \notin {"idle", "det_unlink"}
BridgeHandles == {thr[t].fd : t \in {u \in Threads : Busy(u)}}

\* attach: ramdisk_open(fn, O_WRONLY | O_TRUNC); -1 if that fails.
AttachOpen(t, path) ==
    /\ "attach" \in BridgeOps /\ thr[t].pc = "idle"
    /\ \E fd \in Handles \cup {NULL} :
         /\ Open(path, [acc |-> "WRONLY", dir |-> FALSE, append |-> FALSE,
                        trunc |-> TRUE], fd)
         /\ thr' = [thr EXCEPT ![t] = IF fd = NULL THEN @
                    ELSE [pc |-> "att_install", fn |-> path, fd |-> fd, f |-> NULL]]

\* attach, unlocked: free the block, install the caller's (size bytes).
AttachInstall(t) ==
    LET f == fh[thr[t].fd].file IN
    /\ thr[t].pc = "att_install"
    /\ \E sz \in AttachSizes :
         /\ cap' = [cap EXCEPT ![f] = sz]
         /\ size' = [size EXCEPT ![f] = sz]
    /\ data' = [data EXCEPT ![f] = "buf"]
    /\ Invalidate(f)
    /\ thr' = [thr EXCEPT ![t].pc = "att_close", ![t].f = f]
    /\ UNCHANGED <<live, head, next, name, openfor, usage, fh>>

\* attach: ramdisk_close(fd); return 0.
AttachClose(t) ==
    /\ thr[t].pc = "att_close"
    /\ CloseHandle(thr[t].fd)
    /\ thr' = [thr EXCEPT ![t].pc = "idle"]

\* detach: ramdisk_open(fn, O_RDONLY); -1 if that fails.
DetachOpen(t, path) ==
    /\ "detach" \in BridgeOps /\ thr[t].pc = "idle"
    /\ \E fd \in Handles \cup {NULL} :
         /\ Open(path, ZeroMode, fd)
         /\ thr' = [thr EXCEPT ![t] = IF fd = NULL THEN @
                    ELSE [pc |-> "det_take", fn |-> path, fd |-> fd, f |-> NULL]]

\* detach, unlocked: hand f->data and f->size to the caller and put a
\* fresh malloc(64) block of "size" 64 in their place.
DetachTake(t) ==
    LET f == fh[thr[t].fd].file IN
    /\ thr[t].pc = "det_take"
    /\ \E d \in AllocResult : data' = [data EXCEPT ![f] = d]
    /\ cap' = [cap EXCEPT ![f] = PlaceholderCap]
    /\ size' = [size EXCEPT ![f] = PlaceholderCap]
    /\ Invalidate(f)
    /\ thr' = [thr EXCEPT ![t].pc = "det_close", ![t].f = f]
    /\ UNCHANGED <<live, head, next, name, openfor, usage, fh>>

\* detach: ramdisk_close(fd).
DetachClose(t) ==
    /\ thr[t].pc = "det_close"
    /\ CloseHandle(thr[t].fd)
    /\ thr' = [thr EXCEPT ![t].pc = "det_unlink"]

\* detach: ramdisk_unlink(fn), result ignored; return 0.
DetachUnlink(t) ==
    /\ thr[t].pc = "det_unlink"
    /\ Unlink(thr[t].fn)
    /\ thr' = [thr EXCEPT ![t].pc = "idle"]
    /\ UNCHANGED fh

-----------------------------------------------------------------------------
(* Other threads calling the VFS handlers on handles they opened.          *)

ClientHandles == {h \in Handles : fh[h].file # NULL} \ BridgeHandles

ClientOpen ==
    \E path \in Paths, mode \in OpenModes, fd \in Handles \cup {NULL} :
        Open(path, mode, fd) /\ UNCHANGED thr

ClientStep ==
    /\ \E h \in ClientHandles :
         \/ CloseHandle(h)
         \/ \E n \in ReadCounts : Read(h, n)
         \/ \E n \in WriteCounts : Write(h, n)
         \/ \E w \in {"SET", "CUR", "END"}, off \in SeekOffsets : Seek(h, w, off)
         \/ Readdir(h)
         \/ Rewinddir(h)
         \/ MmapCalls /\ Mmap(h)
    /\ UNCHANGED thr

ClientUnlink ==
    \E path \in Paths : Unlink(path) /\ UNCHANGED <<fh, thr>>

Bridge(t) ==
    \/ \E path \in Paths : AttachOpen(t, path) \/ DetachOpen(t, path)
    \/ AttachInstall(t) \/ AttachClose(t)
    \/ DetachTake(t) \/ DetachClose(t) \/ DetachUnlink(t)

Next == ClientOpen \/ ClientStep \/ ClientUnlink \/ \E t \in Threads : Bridge(t)

Spec == Init /\ [][Next]_vars

-----------------------------------------------------------------------------
(* Properties                                                              *)

HandlesOn(n) == {h \in Handles : fh[h].file = n}

\* Spec invariant 1: f->usage counts the slots of fh[] that point at f, and
\* no slot points at a freed node.  open's error path after claiming a
\* slot, close, and unlink's usage test all have to agree for this.
UseCountExact ==
    /\ \A n \in live \cup {Root} : usage[n] = Cardinality(HandlesOn(n))
    /\ \A h \in Handles : fh[h].file \in live \cup {Root, NULL}

\* The openfor lock of ramdisk_open/ramdisk_close matches the open handles:
\* NOTHING exactly when none is open, WRITE only for a single writable
\* handle, READ only for read-only ones.  So a writer never shares a file.
ExclusionProtocol ==
    \A n \in live \cup {Root} :
        LET hs == HandlesOn(n) IN
        /\ (openfor[n] = "NOTHING") <=> (hs = {})
        /\ openfor[n] = "WRITE" => Cardinality(hs) = 1 /\ \A h \in hs : Writable(fh[h].omode)
        /\ openfor[n] = "READ" => \A h \in hs : ~Writable(fh[h].omode)

\* Spec invariant 3: for every file, size <= datasize, and what tell
\* returns on every handle of it is at most what total returns, whatever sequence of open (with
\* O_APPEND / O_TRUNC), write, seek, read, attach and detach ran.
FileBounds ==
    \A n \in live :
        /\ size[n] <= cap[n]
        /\ \A h \in HandlesOn(n) : Tell(h) <= Total(h)

\* Spec invariant 4: no two files of the root share a name under the
\* case-insensitive comparison that open and unlink look names up with.
UniqueNames ==
    \A m, n \in live : m # n => Fold[name[m]] # Fold[name[n]]

\* A directory handle's cursor is NULL or a node still in the directory:
\* readdir dereferences it (spec 9 leaves removal of that node open).
DirCursorLive ==
    \A h \in Handles : fh[h].file # NULL /\ fh[h].dir => fh[h].ptr \in live \cup {NULL}

\* Spec section 7: a failed allocation leaves the earlier state intact, so
\* no file ever has a NULL data block.
NoNullBuffer ==
    \A n \in live : data[n] = "buf"

\* Spec 5: a block mmap returned stays valid as long as no writing
\* operation is invoked on the file.  A read-only handle keeps writers out,
\* so no open, write, attach or detach may free, move or hand away the
\* block under a pointer that mmap returned on a read-only handle still
\* open.
MmapStableForReaders ==
    \A h \in Handles : mapped[h] = "stale" => Writable(fh[h].omode)

\* The nodes LIST_FOREACH visits from f: the files the directory lists.
\* The walk stops at a node seen before.
RECURSIVE ListFrom(_, _)
ListFrom(f, seen) == IF f = NULL \/ f \in seen THEN seen
                     ELSE ListFrom(next[f], seen \cup {f})

\* The directory as readdir, open and unlink see it: each listed node
\* with its name as the lookup compares it and its logical size.
Directory ==
    [n \in ListFrom(head, {}) |-> [key |-> Fold[name[n]], size |-> size[n]]]

Files == INSTANCE FileStore WITH Ids <- NodeIds, Keys <- {Fold[nm] : nm \in Names},
                                 files <- Directory

\* The root list, its case-insensitive lookup and the size bookkeeping of
\* open, write, unlink and attach implement a set of named files: every
\* step creates one file under a new name, deletes one, truncates one or
\* grows one, and leaves the others alone.
FileStoreRefinement == Files!Spec

\* When fs_ramdisk_detach returns, its ramdisk_unlink has removed exactly
\* the node whose data block it handed out (spec 4.4, scenario 2).
DetachUnlinksItsNode ==
    [][\A t \in Threads :
          thr[t].pc = "det_unlink" /\ thr'[t].pc = "idle" => live \ live' = {thr[t].f}]_vars

=============================================================================
