# TLA+ model of the KallistiOS ramdisk file system

This directory models `src/kernel/fs/fs_ramdisk.c`. That file is an in-memory
file system mounted at `/ram`. It keeps file data in heap blocks, and it is
the only runtime code in `src/`. The other files are build and toolchain
scripts (`environ.sh.master`, Makefiles, Dockerfiles, CI YAML) and are not
modelled.

## 1. Inventory

### Components and their state

| Component | State in the code | Operations that change it |
|---|---|---|
| Node store | `rd_file_t`: `name`, `size`, `datasize`, `data`, `type`, `openfor`, `usage`, `dirlist.le_next`; `root`, `rootdir` | `ramdisk_create_file`, `ramdisk_unlink`, `write` (realloc), `open` with `O_TRUNC`, attach, detach, init, shutdown |
| Path resolver | none; it walks the root list | `ramdisk_find`, `ramdisk_find_path`, `ramdisk_get_parent` (pure lookups) |
| Handle table | `fh[FS_RAMDISK_MAX_FILES]`: `file`, `dir`, `ptr`, `dirent`, `omode` | `open`, `close`, `read`, `write`, `seek`, `readdir`, `rewinddir` |
| Operation engine | `rd_mutex` | the VFS table `vh`. `mmap` hands out `f->data`. These change no state: `tell`, `total`, `stat`, `fstat`, `fcntl` |
| Attach bridge | locals of `fs_ramdisk_attach` and `fs_ramdisk_detach` | attach, detach |
| Lifecycle | `root`, `rootdir`, VFS registration | `fs_ramdisk_init`, `fs_ramdisk_shutdown` |

### How the components interact

Every VFS handler takes `rd_mutex` with `mutex_lock_scoped`. The lock is
held for the whole handler and released on every return. Handlers are
therefore atomic with respect to each other. There are two exceptions:

- Attach and detach call `ramdisk_open`, `ramdisk_close` and
  `ramdisk_unlink`, and each of those takes and releases the mutex. Between
  those calls, attach and detach read and write `f->data`, `f->datasize` and
  `f->size` with no lock held. Other threads run in those gaps.
- Shutdown takes no lock at all.

File handles are protected by the `openfor`/`usage` protocol in `open` and
`close`. It is a try-lock: at most one writer, or any number of readers, and
a refused open returns at once. A directory handle's cursor (`ptr`) is a raw
pointer to the next child node. No lock or reference count protects that node.

### Where the hard behaviour is

- Interleavings of threads between the unlocked steps of attach and detach.
- Allocation failures partway through an operation (`O_TRUNC`, detach's
  placeholder block, the parent-name copy, realloc in write).
- A raw cursor pointer that outlives the node it points to.
- uint32/size_t arithmetic at end of file: seek's clamp, read's cut, and
  write's growth test.
- Init and shutdown order: shutdown leaves `rootdir` set.

### What makes each component correct

- **Node store:** `usage` equals the number of handle slots on the node
  (`UseCountExact`). `size <= datasize` (`FileBounds`). The list with its
  lookup implements a set of named files whose sizes only grow or reset to 0
  (`FileStoreRefinement`). Names are unique
  under case-folding (`UniqueNames`). No file has a NULL block
  (`NoNullBuffer`).
- **Handle table and engine:** `openfor` matches the open handles, so a
  writer is always alone on its file (`ExclusionProtocol`). Every file
  position is within its file (`FileBounds`). A directory cursor is NULL or
  points to a node that is still linked (`DirCursorLive`).
- **Attach bridge:** attach keeps every position within its file
  (`FileBounds`) and the directory a set of named files
  (`FileStoreRefinement`). A detach that returns 0 has removed the file it
  emptied (`DetachUnlinksItsNode`). Both bridge calls reach the handle
  table only through `ramdisk_open` and `ramdisk_close`, so the handle and
  lock invariants of the engine run cover them.
- **Mmap and stat:** a block that `mmap` returned on a read-only handle
  stays in place while that handle is open (`MmapStableForReaders`).
  `st_blocks` is the number of 1024-byte blocks, rounded up
  (`StBlocksIsCeiling`).
- **Lifecycle:** anything a handler can reach is allocated
  (`ReachableAllocated`). A finished shutdown leaves no file allocated
  (`NoLeakAfterShutdown`). The "initted" test means `/ram` is mounted
  (`InitTestMeansMounted`).

The hazards, each with the source line where it happens, are listed in
`PROJECT.json` under `hazards`.

## 2. Modules

### `RamDisk.tla`: node store, path resolver, handle table, engine, bridge

| Code | Model |
|---|---|
| `rd_file_t` fields | functions over `NodeIds`: `name`, `size`, `cap` (datasize), `data` (`"buf"`/`"null"`), `openfor`, `usage`, `next` (le_next); `live` is the set of allocated nodes |
| `rootdir->lh_first` | `head` |
| `fh[]` | `fh`, one record per slot 1..MAX-1 |
| attach/detach locals | `thr[t]`: `pc`, `fn`, `fd`, `f` |
| `ramdisk_find`, `_find_path` | `Match`, `FindFrom` (RECURSIVE list walk), `FindPath` |
| `ramdisk_create_file` | `CreateFile` (with the rest of open on the new node) |
| `ramdisk_open` | `Open`, decomposed by its early returns; `Admit`, `Filled`, `ErrorOut`, `ReaderBlocksWriter` |
| `ramdisk_close` | `CloseHandle`, `Release` |
| `ramdisk_read` / `_write` / `_seek` | `Read`/`ReadCount`, `Write`/`Extend`, `Seek`/`Clamp` |
| `ramdisk_readdir` / `_rewinddir` | `Readdir`, `Rewinddir` |
| `ramdisk_unlink` | `Unlink`, `RemoveFromList` |
| `fs_ramdisk_attach` | `AttachOpen` → `AttachInstall` → `AttachClose` |
| `fs_ramdisk_detach` | `DetachOpen` → `DetachTake` → `DetachClose` → `DetachUnlink` |
| other threads using the VFS | `ClientOpen`, `ClientStep`, `ClientUnlink` on handles they own |
| `ramdisk_mmap` | `Mmap`; `mapped[h]` is the pointer its caller keeps, which `Invalidate` marks stale when open with `O_TRUNC`, a write's realloc (moved or not), attach or detach replaces the block |

Abstractions:

- **Directories.** `mkdir` is not implemented, and `ramdisk_create_file` is
  only ever called with `dir = 0`. So the root is the only directory, and
  `Nested` stands for any path with a `/` in it. Such a path never
  resolves.
- **Names.** Names are model values. `Fold` maps each to what
  `strncasecmp` compares.
- **Buffer contents.** Only whether a block is NULL is tracked.
- **Byte counts.** They are scaled down: `InitCap = 2`, `Slack = 1`,
  `PlaceholderCap = 1` stand for 1024, 4096 and 64, and the order between
  them is kept. `MaxCap` is a model bound in the guard of write's realloc
  branch.
- **Overflow.** Integer width is not modelled here; `ByteArith` checks
  seek's word arithmetic on its own. Positions are at most the
  size of a file, and files live in RAM (16 MiB), so `ptr + bytes` cannot
  wrap in uint32. The one wrap that can happen is `size - ptr` in read when
  `ptr > size`. The model treats that as a crash (no step). The invariant
  `FileBounds` catches the state that leads to it.
- **Undefined behaviour.** A write into a NULL block that is not grown
  continues. Readdir through a freed node follows the `le_next` the node
  held when it was freed.

### `MC_RamDisk.tla` and the configurations

`MC_RamDisk.tla` gives the constants their values:

- two heap addresses, so a freed address can be reused;
- names `x` and `X`, which fold to the same name, and `y`;
- six open-flag combinations;
- seek offsets -1, 1 and 5; 5 lies beyond MaxCap and exercises the clamp.

It also defines the symmetry over heap addresses and a `VIEW`. The VIEW
merges states that differ only in memory no later step reads: the fields of
a free slot, and the fields of a freed node other than `le_next`. `SYMMETRY`
is used only with safety properties.

| Run | cfg | Expect | Checks | Shows |
|---|---|---|---|---|
| engine | `MC_engine.cfg` | pass | UseCountExact, ExclusionProtocol, FileBounds, UniqueNames | all handler interleavings on three names, malloc allowed to fail: 114k states |
| attach | `MC_attach.cfg` | pass | FileBounds, MmapStableForReaders, FileStoreRefinement | attach's unlocked block install keeps every position within its file: attach holds the write lock. With clients calling mmap, no handler and no attach moves a block under a reader's pointer. The directory implements `FileStore` |
| bridge | `MC_bridge.cfg` | pass | TypeOK | with attach and detach beside clients, every field stays within its type; seek's clamp keeps positions at most `MaxCap` (the mutant without the clamp breaks it). It is the passing run that fires the detach steps |
| dir_cursor | `MC_dircursor.cfg` | violation | DirCursorLive | create x; open "" with O_DIR (the cursor is x); close x; unlink x → the cursor points at freed memory |
| detach_bounds | `MC_detach_bounds.cfg` | violation | FileBounds | a reader at offset 2; detach sets size = 64 (here 1) → the reader is past EOF, and its next read underflows |
| detach_unlink | `MC_detach_unlink.cfg` | violation | DetachUnlinksItsNode | a reader holds x; detach returns 0, but its unlink failed and x remains with a 64-byte uninitialized block |
| trunc_null | `MC_trunc_null.cfg` | violation | NoNullBuffer | open(x, O_WRONLY\|O_TRUNC) when malloc fails → a file with a NULL block |
| mmap_detach | `MC_mmap_detach.cfg` | violation | MmapStableForReaders | a reader mmaps x; detach opens x read-only beside it and hands the block away |

Bounds, and why they are enough:

- **Handles.** `FS_RAMDISK_MAX_FILES = 3` gives two usable slots. That
  covers two handles on one file (reader and reader, reader and writer) and
  a full table.
- **Node addresses.** Two addresses cover unlink followed by create at the
  same address.
- **Bridge threads.** The bridge runs use one bridge thread racing clients
  on one file. With two bridge threads the state space passes 500k states
  and the run exceeds five minutes.
- **Mutants.** Every property of the passing runs is broken by a seeded
  fault that stands for a plausible slip in the C code. The seeded faults
  are at the top of `RamDisk.tla`.

The attach and mmap_detach runs use one file name in two spellings. One
file is raced by the bridge thread and the two handle slots.

### `FileStore.tla`: what the directory promises

`FileStore` is the spec's view of the directory: files with a name (up to
case) and a logical size, indexed by where they live. Four actions change
it:

- `Create`: a new empty file under a name no file has;
- `Delete`: remove one file;
- `Truncate`: set one file's size to 0;
- `Grow`: raise one file's size.

Nothing else changes a size, and no step touches two files. The refinement
mapping is `Directory` in `RamDisk`: every node reachable from the list head
(`ListFrom`, the walk of `LIST_FOREACH`), with its folded name and its
`size`.

`FileStoreRefinement == Files!Spec` is checked in the attach run, with
clients and an attach thread. Two seeded faults show what it adds to the
invariants:

- A write that sets `size = ptr` without the `size < ptr` test keeps
  `FileBounds` but breaks the refinement: a short overwrite truncates.
- A case-sensitive lookup creates a second file under a taken name.

It is not checked in the engine run, which takes eleven minutes with it.
The detach runs would fail it by design: detach sets the size to 64.

`FileBounds` is stated with `Tell` and `Total`, the values
`ramdisk_tell` and `ramdisk_total` return.

### `ByteArith.tla`: `st_blocks` and the seek arithmetic at full width

`RamDisk` scales byte counts down, so the arithmetic on bytes is checked
here on its own. The variable sweeps `datasize` over 0..5121, which crosses
every block boundary up to five blocks. The run `bytearith`
(`MC_bytearith.cfg`, pass, 5,122 states) checks two invariants:

- `StBlocksIsCeiling`. `stat` and `fstat` compute `datasize >> 10`, plus
  one if `datasize & 0x3ff` (with `Bitwise`). The result must equal
  `(datasize + 1023) \div 1024`.
- `SeekMatchesReference`. `SeekWord` is the switch of `ramdisk_seek`
  (lines 447-485) in word arithmetic:
  - `ptr` and the size are unsigned, so `ptr += offset` is reduced modulo
    2^Width (`U32`);
  - `(uint32)-offset` negates in the word (`Neg32`), and `-INT_MIN` gives
    `INT_MIN` back, as the two's-complement build does;
  - a refused seek returns -1.

  `SeekReference` is the seek in whole numbers: target = base + offset,
  -1 if negative, the size if past the end. The two must agree for every
  whence (an invalid one included), the positions 0, 1, size-1 and size,
  and the offsets INT_MIN, INT_MIN+1, -size-1, -size, -size+1, -1, 0, 1,
  size and INT_MAX.

TLC's integers are 32-bit, so 2^32 cannot be computed. The word width is
therefore the constant `Width`, and the run uses 16. The comparisons and
the wrap are the same at every width. The model keeps sizes below
2^(Width-1), as the 16 MiB of the machine keeps them below 2^31. The
mutant `RefusedAtEqual` (`>=` for `>`) refuses a seek back to exactly
byte 0, and the run catches it.

### `RamDiskLifecycle.tla`: init and shutdown

This module instantiates `RamDisk` (`RD == INSTANCE RamDisk`) and adds the
static pointers and the registration:

| Code | Model |
|---|---|
| `static rd_file_t *root`, `rd_dir_t *rootdir` | `rootp`, `rootdir` ∈ {"null", "live", "freed"} |
| `nmmgr_handler_add` / `_remove` | `registered` |
| `mutex_init` / `mutex_destroy` | `mtx` |
| `fs_ramdisk_init` | `FsInit`: the "initted" test, the three allocation failures (lines 813-827), and `InitComplete` |
| `fs_ramdisk_shutdown` | `ShutdownBegin` (test, `f1 = LIST_FIRST`; on a freed `rootdir`, `sd = "undefined"`), `ShutdownFree` (one loop turn, no unlink), `ShutdownTail` (frees, destroy, remove) |
| calls by path (name manager) | `PathCall`: open and unlink, only while `/ram` is registered |
| calls on a descriptor | `DescriptorCall`: the fd-based handlers, whatever the registration |

Nothing resets `rootdir` or `root` to NULL. After a failed init or a
completed shutdown, a freed `rootdir` passes the "initted" test at line
853. `LIST_FIRST` at line 858 then reads freed memory, which `LIST_INIT`
never set after a failed init. Whatever it reads, line 868 frees `rootdir`
a second time. The model stops such a shutdown in `sd = "undefined"` and
follows it no further (`Undefined` stutters there). `ShutdownTail` is
reached only from a walk that began on a live `rootdir`, and then `root` is
live too, so `free(root->name)` is safe.

Shutdown takes no lock, so handlers may run between its steps. The constant
`Quiesce` selects the use the shutdown code assumes: it starts only with no
descriptor open, and no other thread calls while it runs.

| Run | cfg | Expect | Checks | Shows |
|---|---|---|---|---|
| lifecycle | `MC_lifecycle.cfg` | pass | ReachableAllocated, NoLeakAfterShutdown | with `Quiesce`, init (allocations may fail), handlers, and repeated init and shutdown calls (45k states): a completed shutdown frees every file, and nothing a handler reaches is freed while `/ram` is registered |
| shutdown_race | `MC_shutdown_race.cfg` | violation | ReachableAllocated | without `Quiesce`: shutdown begins, a thread opens the root, shutdown frees it |
| remount | `MC_remount.cfg` | violation | InitTestMeansMounted | init, shutdown: `rootdir` is freed but not NULL while `/ram` is unregistered, so init does nothing |

No fairness is assumed and no liveness property is checked. The loop of
a first shutdown walks a list that no caller changes under `Quiesce`. A
repeated shutdown is undefined behaviour before its loop starts. The
lifecycle run uses one handle slot (`MaxFiles = 2`) and no symmetry.
`shutdown_race` and `remount` keep the symmetry and `MaxFiles = 3`.

The handlers themselves never wait: `open` fails rather than blocks, and
`rd_mutex` is held for one handler. So the liveness of attach and detach
holds by the shape of their code. Each of their steps is enabled whenever
the thread is at it, and no property is spent on it.

## 3. Plan

Done: the engine, the bridge, allocation failure and the directory cursor
(sitting 1). The lifecycle,
`mmap`, `stat`/`fstat` and `st_blocks` (sitting 2). The `FileStore`
refinement, `tell`/`total`, and a review of the hazards (sitting 3).
The seek arithmetic at full word width, in `ByteArith` (sitting 4).
A review against the source (sitting 5) removed properties that repeated
the engine run's invariants in the attach and bridge runs: the bridge calls
reach the handle table only through `ramdisk_open` and `ramdisk_close`.
It also removed the `RWTryLock` refinement, which followed from
`ExclusionProtocol` and `UseCountExact`, and `ShutdownReturns`, whose
repeated-shutdown case is undefined behaviour (see `RamDiskLifecycle`).

Next:

1. Larger bridge instances: two bridge threads. Tried in sitting 3 with
   `MC_bridge.cfg` and `Threads = {t1, t2}`. The invariants held in every
   configuration tried, but each run took too long:

   | Configuration | States | Time |
   |---|---|---|
   | full bridge cfg | 375k | 12 minutes |
   | without the try-lock refinement or allocation failure | 270k | 3.5 minutes |
   | detach only | 244k | 2.5 minutes |

   A registered run needs a `VIEW` that drops more, or a thread symmetry
   that TLC applies as a group.
2. Shutdown without `Quiesce` under fairness. A file created at a freed
   address during the walk can make the list cyclic, so the loop never
   ends. This would be a liveness violation run.
3. A readdir history property: every child present from `rewinddir` to the
   end is yielded exactly once. A cursor into an unlinked node is already
   caught by `DirCursorLive`. Any other failure would need an insertion
   behind the cursor, and inserts go at the head.

## 4. Not modelled

- `tell`, `total`, `stat`, `fstat` and `fcntl` read the handle or node
  and change nothing. Only `st_blocks` is checked, in `ByteArith`. One
  difference is seen by reading the code, not by a run: `fstat` on a
  directory sets `S_IFDIR` without the execute bits that `stat` and the
  spec give (line 691). `stat("/")` leaves `st_blksize` 0 (lines 595-602).
- `errno` values and the `dirent` scratch area.
- Byte contents of files.
- The VFS name manager and the fs.c descriptor layer. They are external
  collaborators.
- Build files.
