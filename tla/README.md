# A TLA+ model of retro-fuse

retro-fuse mounts the disks of V6, V7, 2.9BSD and 2.11BSD Unix through FUSE. It
does not reimplement their filesystems: it compiles the kernels' own sources
(`ancient-src/`) into a user process and calls them from FUSE handlers
(`src/*fs.c`). What can go wrong is what could go wrong in 1975 (a full disk, a
failed read, a crash between two writes), and what the port changed: there is
one thread, `sleep()` returns at once, the disk is a file that answers
synchronously, types have other widths, and the calls the old kernels did not
have (`mkdir`, `rmdir`, `rename`) are sequences of the system calls they had.

This directory models that in TLA+, checks it with TLC and proves part of it
with TLAPS. Paths below are relative to `src/` of this project, the repository;
in them `ken/` and `dmr/` stand for `ancient-src/v6/ken/` and
`ancient-src/v6/dmr/`, `v7/`, `bsd29/` and `bsd211/` for the directories of that
name in `ancient-src/`, and `ufs_*.c` for files of `bsd211/sys/`.

## 1. The system

| Component | Code | State | Operations | What is hard | What makes it correct |
|---|---|---|---|---|---|
| Command line, startup | `src/fusecommon.c`, `main` of `src/v6fuse.c` and its copies | options, id tables | fill the tables, make a volume, mount it | the order of these | see the next two |
| Id maps | `src/idmap.c` | two growing tables | add, translate both ways | widths and signs | both directions agree |
| mkfs | `v6fs_mkfs`, `v7fs_mkfs`, ... | a new volume | `initfreelist` | ends of the spans | every data block freed once |
| Calls | `src/v6fs.c`, `v7fs.c`, `bsd29fs.c`, `bsd211fs.c`, and the `retrofuse_` operations above them | none between calls | one function per FUSE operation | sequences of system calls, each of which may fail and leave things held | what was held is given back; success means the effect |
| Names, V6 to 2.9BSD | `ken/nami.c`, `sys2.c`, `sys4.c`, and their successors | directories, `i_nlink` | `namei`, `link`, `mknod`, `unlink` | full disk in the middle, the limit of a link count | a tree; links cover entries |
| Names, 2.11BSD | `ufs_namei.c`, `ufs_syscalls.c`, `ufs_inode.c` | directories of records, name cache, hashed slots | `namei`, `link`, `unlink`, `mkdir`, `rmdir`, `rename` | stale cache entries, directories in motion, compaction | a tree; the cache agrees with it; records tile blocks |
| Files | `ken/rdwri.c`, `fio.c`, `sys2.c` and successors | descriptors, offsets, contents | open, read, write, truncate, close | holes, widths of offsets, failures between blocks | a store of byte sequences |
| Block map | `bmap`, `itrunc` of each kernel | `i_addr`, indirect blocks | map or allocate; free all, or the end | an allocation that fails half way down | each block in one place |
| Inode table | `iget.c`, `ufs_inode.c`, `ialloc`/`ifree` | slots, `s_inode` | `iget`, `iput`, `iupdat`, `ialloc`, `ifree`, `update` | stale hints, crashes, reads that fail | one slot per inode; none freed while named |
| Free list | `alloc.c`, `ufs_alloc.c` | `s_free`, index blocks, `s_tfree` | `alloc`, `free`, `getfs`, `update`, `statfs` | a list that lives in the blocks it lists | exactly the blocks nobody owns |
| Buffer cache | `dmr/bio.c`, `v7/dev/bio.c`, `bsd29/dev/bio.c`, `ufs_bio.c` | buffer headers, hash chains, available lists | `bread` ... `bflush`, `fsync` | delayed writes, read-ahead, errors | a memory of blocks; every call returns |
| Virtual disk | `src/dskio.c`, the strategy routines | the image | read, write, size | errors, silence outside the disk | - |

A FUSE operation goes down this table: `v6fs.c` sets up the kernel's `u` area
(path, buffer, ids), clears `u_error` and calls a system call; that resolves
paths with `namei`, gets inodes with `iget`, maps and allocates blocks with
`bmap` and `alloc`, and reaches the image through the buffer cache. Nothing
calls back up: errors travel in `u.u_error` and in `B_ERROR`. All state is
shared by plain globals; the only actors are the one thread (`fuse_loop`), the
disk's errors and the death of the process. So a call never meets another; it
meets what earlier calls left, and itself: since `sleep()` returns at once, a
call that waits for a lock or a buffer of its own never ends.

`PROJECT.json` lists the hazards of each part, line by line, with the properties
that are about them.

## 2. The modules

| Module | Models | Abstract specification | Instance |
|---|---|---|---|
| `FreeList` | V6's `alloc`, `free`, `badblock`, `getfs`, superblock save and remount, the count of `v6fs_statfs` | `FreeSet`: the set of blocks nobody owns | |
| `FreeListBSD` | the later kernels' lists beside it: `s_tfree`, the superblock saved before an index block is handed out | `FreeSet` | `MCFreeList` |
| `FreeListProofs` | theorems about `FreeList`, and about the lists of all kernels | | |
| `ListFacts` | lemmas on lists without repetitions | | |
| `BufCache` | the caches of the four kernels over `v6adapt.c` and `dskio.c` | `BlockStore`: a memory with explicit persistence | its own cfgs |
| `BufCacheProofs` | theorems about `BufCache`; that it implements `BlockStore` | | |
| `InodeTable` | `iget`, `iput`, `iupdat`, `ialloc`, `ifree`, inodes in `update`, of V6 and V7, 2.9BSD, 2.11BSD | | `MCInodeTable` |
| `InodeTableProofs` | theorems about `InodeTable` | | |
| `FileMap` | `bmap`, `itrunc`, of V6, of V7 and 2.9BSD, of 2.11BSD | | `MCFileMap`, with 2.11BSD's nested `indirtrunc` as it is written |
| `FileMapProofs` | theorems about `FileMap` | | |
| `FileIO` | open, close, read, write, truncate, of the four kernels | `FileStore`: files as byte sequences | `MCFileIO` |
| `FileIOProofs` | theorems about `FileIO`; that it implements `FileStore` | | |
| `Namespace` | `mkdir`, `rmdir`, `rename`, `link`, `unlink`, `mknod` of `v6fs.c`, `v7fs.c`, `bsd29fs.c` over the system calls | `FileTree`: atomic calls on a tree | `MCNamespace` |
| `NamespaceProofs` | theorems about `Namespace`; that it implements `FileTree` | | |
| `Names211` | the system calls on names of 2.11BSD, its name cache and inode slots | `FileTree` | `MCNames211` |
| `DirBlocks` | the records of a 2.11BSD directory: search, `direnter`, `dirremove`, `dirrewrite`, `dirempty`, listing | `Directory`: a set of entries | `MCDirBlocks` |
| `CallState` | what a call holds: references, locks, buffers, descriptors; sets of states | | |
| `KernelCalls` | the kernel functions V6, V7 and 2.9BSD share, with their differences as parameters | | |
| `FrontEnd` | the functions of `v6fs.c` and its copies over them | | |
| `V6Calls`, `V7Calls`, `Bsd29Calls` | the two above with each kernel's differences; 2.9BSD's symbolic links | | |
| `Bsd211Calls` | 2.11BSD's own `namei`, system calls and `bsd211fs.c` | | |
| `Calls` | the operations the host asks for, one after the other, on a volume of each kernel | | its own cfg |
| `InitFreeList` | `v6fs_initfreelist`, `v7fs_initfreelist` and its copies | | |
| `IdMap` | `idmap.c` and the narrowing of each filesystem | | |
| `Startup` | `main`: composes the two above | | its own cfg |
| `StartupProofs` | theorems about the three above | | |

`FreeSet`, `BlockStore`, `FileStore`, `FileTree` and `Directory` are what the layer
above a component relies on: `FileIO` takes blocks from a set, not from a list;
`Names211` enters names in a set, not in records; `Calls` reads blocks that may
fail, not buffers that may be dirty.

How state and actions correspond to the code:

**FreeList, FreeListBSD.** `s_nfree`, `s_free`, `s_fmod` are the in-core
superblock, `super` the one on disk, `block` what a `bread` of each data block
finds (an index block is a count and a table, as in the code), `owned` the blocks
handed out. `alloc` is three actions (a block from the table; the last one,
which is an index block; no space), `free` two. `Sync`, `Unmount`, `Mount` are
the superblock's part of `update` and `iinit`. `Init` is the volume `mkfs` has
just zeroed; mkfs itself is a sequence of `free`s, so every state mkfs leaves is
reachable. `FreeListBSD` extends each action with `s_tfree`, the count the BSDs
keep beside the list, and takes an index block only after saving the superblock.

**BufCache.** `dev`, `blkno`, `flags`, `data` are the headers; `chain` is the hash
chain a buffer of the BSDs is in; `av` is the available list, oldest first, `aged`
2.11BSD's list of buffers to reuse first. A call of `bread`, `breada`, `getblk`,
`geteblk`, `sync` or `fsync` is the record `call`, each of its steps at most one
disk operation, so that a `Crash` may come between two. A step that the code
would repeat for ever has no action, and `EveryCallReturns` would fail. `held`
are the buffers callers have; `answer` is what a step told its caller, or lost.

**InodeTable.** One slot is `number`, `count`, `used`, `nlink`, `updated`; the disk
is `dinode`; `s_inode`, `s_fmod`, and in the BSDs `s_lasti`, `s_nbehind`, `s_tinode`
are the superblock; `ifree` is 2.11BSD's list of free slots, which keep their
inodes. `links` counts the directory entries that name an inode, which this
module takes from its callers. `ialloc` is the record `calling`, one action per
pop, so that its loop is one. A `Crash` restarts from what was written.

**FileMap.** `i_addr`, `ilarg`, and `content`, what a `bread` of each block finds
if it is taken for an indirect one. Every step of `bmap` allocates at most one
block, and `NoSpace` may end the call at each. `Brelse` of a block that alloc has
cleared and nobody has written may be forgotten by the cache; the history `forgot`
notes it, `seen` which block each logical block was.
A place in the map is a path (`Paths`): an address, then an entry of each indirect block on
the way; `At` is what it holds. V7's `tloop` frees what all paths hold. 2.11BSD's `indirtrunc`
frees, by a recursion, what the paths after that of the last block hold (`CutOff`); its
divisions and remainders are `Edge`. The recursion itself is `Indirtrunc` of
`MCFileMap`, and `CutsTheTail` says that the two agree.

**FileIO.** `inode` is each inode's size, map and references, `name` the
directory, `ofile` the descriptors, `data` and `avail` the blocks. A read or write
is a record, `call`: the loop of the front end over chunks, and in it the loop of
`readi` or `writei`, one block an action. A failed read and a full disk may end it
at each.

**Namespace.** A system call is an operator from a volume to a volume; a call of
`v6fs.c` is the record `op` and one action per system call, so the intermediate
volumes are states. Any growth of a directory may find the disk `full`. The
checks of the Linux VFS before FUSE is called are conjuncts of `LinkFile`,
`UnlinkFile` and `Rename`.

**Names211.** With one thread a system call runs to its end: each is one action,
made of operators from volume to volume (`kind`, `nlink`, `entry`, and the `slot`s,
`ifree`, `cache`). What is followed is what the next call trusts: slots
that keep their inodes, names in the cache with the id their slot had. `panicked`
is set where the code calls `panic`.

**DirBlocks.** `dir` is a sequence of blocks, a block a sequence of records with
their sizes; `prev` is where the last search stopped (`nc_prevoffset`); `answer`
is what a call returned. Entering compacts a block as `direnter` does.

**Calls and below.** A call is one step. A function of the kernel is an operator
from the set of states it may be called in to the set it may return in: a
state `k` counts references and locks of each inode, buffers and descriptors,
has `u_error`, `u_dent` and the like, the entries of the tree, and whether the
program hangs or is dead. A branch is a partition of the set; a read adds
the states in which it failed, a write to a directory those in which the disk is
full. `KernelCalls` is written once for three kernels; what differs (who looks at
the error of a read, whether links are followed, how `iget` of a failed read ends)
is a parameter. Permissions are a choice, for whoever is not root. `asked` is the
call that has returned and the tree it found.

**InitFreeList, IdMap, Startup.** The loops of the code; the parameters are chosen
in the action that stands for the command line. `stage` is how far `main` is.

## 3. What the runs check

| Run | States | Question and answer |
|---|---|---|
| `freelist` | 67,000 | Is the list the set of free blocks, after any calls, syncs and remounts? Yes (`FreeListImplementsSet`, `DfExact`, `CleanIsSaved`, and the inductive invariant `ChainExists`). Does the BSDs' superblock on disk ever lead to a file's block as a list? No (`SavedChainSound`); V6's may. |
| `bufcache` | 1.8 million | With failing writes and crashes, is the cache of V6, 2.9BSD and 2.11BSD a memory of blocks (`CacheIsAStore`)? Yes: a read answers what was stored last, `bwrite` and `sync` persist, and contents are lost only in the step in which the disk refuses them; a dirty buffer never changes its block (`DirtyKeepsItsBlock`). `sync` and FUSE's `fsync` answer nothing about what was lost. |
| `bufcache_faulty` | 142,000 | With failing reads and writes and an image smaller than the volume, in all four kernels, do lists and holders stay in step (`AvailableIffNotBusy`), has a block one buffer, in its chain (`OneBufferPerBlock`), and does every call return? Yes. |
| `inodetable` | 2.5 million | Stale superblock lists, removed open files, one crash or one failed read: is an inode ever in two slots, freed while named, lost, miscounted, handed out in use; does `ialloc` spin, or give up too early? No, except after a failed read (see 6). |
| `filemap` | 369,000 | Does a `bmap` that fails at any depth, or an `itrunc` to any length, leave a block lost or in two places (`BlocksAccounted`), or a logical block elsewhere than it was (`MappedStays`)? Not until the cache forgets a cleared block (see 6). Do the nested calls of 2.11BSD's `itrunc` clear and free just what comes after the last block (`CutsTheTail`)? Yes. |
| `fileio` | 1.9 million | Is a read or write, block by block, with a full disk and failing reads, one read or write of a store of byte sequences (`IsAFileStore`)? Yes, with what each kernel does where it fails. Files live while held, and only then; no block is in two files. |
| `namespace` | 103,000 | Is each call of three front ends one step of a file tree, and is the volume well-formed between calls (`TreeShape`)? Yes. At every step of every call, with the disk full at any growth, does an entry name a freed inode, or has an inode fewer links than entries? No. |
| `names211` | 47,000 | After any calls, reuses of slots and failures, does the name cache answer what the directories say, do slots and their free list agree, are link counts right, and is each system call one step of a file tree? Yes. |
| `dirblocks` | 32,000 | Whatever is entered, deleted and compacted, do the records tile their blocks, and does each search answer as a set of entries would? Yes. |
| `calls` | 136,000 | Every operation on every tree of up to two names, for root or another, any read failing, the disk full at any moment: is what it held given back (`NothingKept`), does it end (`EveryCallEnds`), does its success mean its effect (`SuccessIsDone`), and does a rename that fails keep its file under a name (`RenameKeepsItsFile`)? Yes, but for the cases the properties name, which section 6 explains. |
| `startup` | 378,000 | Do mappings apply both ways when the inode's field is wide enough (`IdsAgree`)? Yes. Is each data block freed once (`FreedOnce`), for every size, span and interleave? V6: yes. V7 and the BSDs: all but the last block of some sizes. |
| `bufcache_wide` | violation | Above 32767 blocks, V6's `getblk` gives a block two buffers. |

Every property of a passing run has a mutant: a plausible bug, defined next to
the definition it replaces, under which TLC finds the property violated.
`FreeList` (in `ChainExists`), `BufCache`, `InodeTable` and `Startup` have a type invariant
that says more than types: the counts and indices stay in the arrays. In the other modules
the properties themselves fix the shape of the state.

### Bounds, and why they are enough

* `freelist`: two slots and four blocks. The table is empty, partly full and
  full, and the chain has up to two index blocks, so that an index block names
  an index block; more slots only repeat the middle of the table. `free` writes
  its index block at once (`bwrite`), on which `SavedChainSound` rests.
* `bufcache`: two buffers, three blocks, so a block can always be evicted while
  another is held; one buffer held at once (`MaxHeld`), as in all paths but
  `bmap` and `itrunc`, which never wait for the second. Two hash chains in the
  BSDs. Two values tell old contents from new. `bufcache_faulty` has one value,
  since its properties do not look at contents, one block outside the image, and
  V7's cache too, which differs from V6's in the buffers it reuses first. `BlknoRange`
  is 2^16 in the code; it is 8, or 4 where the run is about it.
* `inodetable`: three inodes in blocks of two for two slots, so the table is full
  while an inode is not in core, and a scan meets more than one block; a list of
  two, so that an inode can be in it twice and the third dropped; `Behind` is 2
  where the code has four times the list. `MaxLinks`, `MaxRefs` and `MaxEntries`
  (2 each) bound names, holders and directory room. A crash or a failed read
  happens at most once: either in V6, a failed read in the BSDs, whose superblock
  on disk is then not followed.
* `filemap`: two entries per block. V6: two addresses, the second doubly indirect
  (logical blocks 0 and 1 are small, 2 to 5 go through two indirect blocks, 6 is too
  big, and 12, with `BnRange` = 12 where the code has 2^16, is block 0 again); the others
  one address of each level, with logical blocks up to `MaxL` = 12, which are triply
  indirect from 7 on. Five blocks are one more than the
  longest path needs and fewer than all blocks need, so every allocation fails
  somewhere. Nothing is asked of the file after a block was forgotten
  (`MCNothingForgotten`). Blocks are symmetric.
* `fileio`: two inodes, two descriptors, two blocks of two bytes, one value of a
  byte besides 0: a file may have both blocks, a hole, or share the disk with
  another; a count of 3 crosses a block from any offset, in chunks of 2; offsets
  up to `MaxSeek` = 4 reach past the largest file of two blocks. `BnRange` is 4 where V6 has
  2^16, and offsets are kept below where they wrap (`Wide = FALSE`, see 6).
* `namespace`: four inodes besides the root and paths of three names make a
  directory below a directory that is moved, and a destination to replace; two
  entries per directory block, so that `..` already needs a second block, and
  any growth may fail. On a volume that may be full, at most four inodes are in use
  and failed links have left two counts too high (`MCSmallWhenFull`).
* `names211`: three inodes besides the root and two slots besides the root's,
  so slots are reused while names of their old inodes are in the cache, which
  holds two of two names; paths of two names; one open file, never a directory (FUSE
  opens none). A call that needs more slots than there are is not made: the code
  has 128, and 15 to 100 descriptors. Failed calls that leave a count too high are followed for
  that call only (`MCFewLinks`, `MaxSurplus = 0`).
* `dirblocks`: names of 2, 3, 4 and 4 units in blocks of 10, which hold "." and ".."
  and a name or two: entering fits, compacts or adds a block. `MaxBlocks` = 3 is
  never a limit with four names. Inodes, and names of one size, are symmetric.
* `calls`: the trees are a root, a directory in it, and up to two names in either
  (or one below the other) that lead to a file, a directory, a link or nothing:
  each case the code tells apart. Two open files, two users. Paths have at most two
  names. No call is followed after one that left something behind.
* `startup`: twelve host ids and a field of eight values, three mappings in memory
  grown two at a time; sizes up to 14 and spans up to 6 meet every alignment of
  both ends of the data area with a span, several spans and less than one. A
  command line that makes a volume has no mappings here (`MaxMapped = 0`): the two do
  not meet.

### Fairness and deadlock

`FairSpec` of `BufCache` and `InodeTable` is weak fairness of the steps of a call
that has begun (`Step`, `Ialloc`): one thread runs it and nothing else can run, so
a step that can be taken is taken. Nothing makes a caller call. In `Calls` a call
is one step, and the loop that would not end is a state, `hung`. Deadlock is checked
but in `calls`, where nothing follows a call that hangs, dies or leaves something
behind, and in `startup`, which ends.

## 4. What is proved

Each theorem is about a component's own `Spec`, for every value of its constants
that the `ASSUME`s of its module allow: any number of buffers, slots, inodes,
descriptors, blocks, any size of a list. TLC evaluates those assumptions in the
runs. The form is always the same: `Init => Inv`, `Inv /\ [Next]_vars => Inv'`
with one lemma per action, `Inv => Property`.

### The free list

`FreeListProofs`, for every `NICFREE >= 1`, every size and every data the blocks
may hold:

* `ListCorrect`: `Spec => []Inv`. `TypeOK` is not inductive: that the count in
  an index block lies within the table, and that its numbers are data blocks,
  depends on which blocks are index blocks, and file data may look like one. So
  `Inv` says that there is a chain: a number `m` and index blocks `c[1] .. c[m]`
  such that list `k` is named in slot 0 of list `k+1`, the superblock's is list `m`, every list
  but the last is full (`GoodCounts`, `GoodHeads`), every number remembered is a
  free block (`GoodEntries`), none is remembered twice (`GoodUnique`) and every
  free block is remembered (`GoodComplete`). The proof has one lemma per way the
  chain changes (`PopRemembered`, `PopIndex`, `PushRemembered`, `PushIndex`,
  `WriteOwned`, and the two forms of an empty list) and one step per action.
* `TypeCorrect`, `SavedWhenClean` and `NeverHandsOutTwice` (alloc never returns a
  block that a file owns) follow from it.
* `ImplementsSet`: `FreeList` implements `FreeSet`; an allocation that fails
  does so on an empty set, from `GoodComplete`.
* `StaysInBounds`: under `FaultySpec`, in which `alloc` loads anything for a list
  because it ignores the error of its read, the check of `getfs` still keeps
  every index within the table.

The assumptions are `SizesAssumption`, `JunkAssumption` and `NULLAssumption` of
`FreeList`. TLC evaluates them in run `freelist`, and checks `Inv` there as
`ChainExists`. These theorems are about `FreeList`, V6's list, which is V7's as
long as the disk reads.

For the lists of all kernels (`AnySpec`), `AnyInv` adds to the
chain, for the BSDs, that the superblock on disk names an index block of the
chain in core, or its end (`SavedIn`), and that `s_tfree` is the number of
blocks no file owns (`Counted`). `NextChain` says which steps leave the chain a
continuation of what it was (`Follows`): all but the taking of an index block, which
the BSDs save before they go on.

* `SavedChainIsSound`: what the next mount follows after a crash are index blocks,
  full, and no file's. The walk is a recursive function; `WalkExists` gives
  one that satisfies its equation, and `WalkMeets`, by the least place where it
  would be wrong, that any that does meets the chain.
* `StatfsNeverFails`, by the same two lemmas from the list in core.
* `CountIsExact`: 2.11BSD's `df` is right. 
* `ChainAlwaysExists`: the inductive invariant, of all kernels.
* `DfIsExact`: what `statfs` of V6, V7 and 2.9BSD adds up along the list is the number
  of free blocks. The sum is a fold over the lists walked, and a fold of the community
  modules is a recursive function on sets: `FoldIsSum` shows it to be any function with
  the same equations (a set of least size where they differ has no element to take
  out), `FoldCounts` that what `statfs` adds up is the number of `Places` in
  the lists. Each free block is in one place and each place has a free block
  (`PlacesAreFree`), by the chain. The walk visits all of it because the bound on its
  length, the number of blocks, is no less than the chain's (`ChainFits`).
* `LaterTypeCorrect`, `LaterImplementsSet`: as for V6.

### The buffer cache

`BufCacheProofs`, for the four kernels with failing reads and writes and crashes.
`Inv` is the types, that the two lists have no buffer twice and none in common and
hold the buffers that are not busy (`FreeOnLists`), that each busy one is with a
caller or with the call in progress (`BusyInHand`), and what that call may have at
each of its stages (`CallShape`). The stages are what makes it inductive: that
`brelse` does not put a buffer on a list where it is already depends on whose
it is.

* `TypeCorrect` and `NoBufferIsLost` need nothing more.
* `BlocksHaveOneBuffer` needs beside it that a buffer marked `INVAL` has no device
  (`InvalidHasNone`). It assumes `Fits`, that a V6 volume has at most 32768
  blocks: V6's `getblk` compares an `int16_t` with a `uint16_t`, and run
  `bufcache_wide` shows the two buffers of one block that come of a larger
  volume. The other kernels need no bound.
* `DelayedWritesKeepTheirBlock` assumes `ReadsWork`, that the disk refuses no read:
  `iupdat` and `alloc` of V6 write back a buffer whose read failed (section 6),
  which then is dirty and has no data.
* `CacheImplementsStore`: `Spec => CacheIsAStore`, the
  implementation of `BlockStore` with what a read of block `b` would answer,
  `View(b)`, for its memory. Each action is a step of the store or a stutter. The
  invariant beside the above says that a buffer that was read and has no delayed
  write agrees with the disk (`Coherent`), and that the buffers of the call in
  progress are those of the blocks it was asked for (`Pending`). `Fits` and
  `ReadsWork` as above, and `WholeImage`: `dsk_write` beyond the end of the
  image says nothing and drops the data, so an image smaller than its superblock
  says is no store.

### The inode table

`InodeTableProofs`, for V6, V7, 2.9BSD and 2.11BSD, with read errors and crashes.
The fields of an inode are in three places: the slot in use, in 2.11BSD the
spare slot that still stands for it, and the disk. `Inv` says when they agree (a
slot not marked `updated` says what the disk says), that the spare list holds
each spare slot once, and that no two slots stand for one inode; `LinksKept`, that
wherever they are the links are those of the directory; `Unlinked`, that an inode
nobody names or holds is free wherever it is looked for and that the counts agree.

* `TypeCorrect`, `InodeHasOneSlot` and `FullBeforeNoSpace` follow from `Inv`.
* `NamedIsKept` and `OnlyFreeHandedOut` from `LinksKept`. Their exception for
  V6 after a read error is in the properties; section 6 says what happens.
* `UnlinkedIsFree` from `Unlinked`. The set of free inodes changes by one inode
  where `ifree` and `ialloc` count one, which is what the lemmas about
  `Cardinality` are for.

### Open files

`FileIOProofs`, for the four kernels, any number of inodes, descriptors and
blocks, any block size and any limits. `Inv` is the types, `CallShape` (a call in
progress has an open descriptor, and the loop over blocks moves no more than the
loop over chunks has left: otherwise the next chunk's count would be negative),
`NamesLinked` (a file has one name, and its one link is for it) and the two
properties themselves.

* `FilesAreHeld`: a reference per descriptor; one lemma for a path that takes a
  reference and gives it back (`TakenPut`), one for the path that keeps it in a
  descriptor (`TakenOpen`).
* `BlocksHaveOneOwner`: all steps that change a file's map are of one form
  (`Remaps`: the new blocks were the file's or free, are all different, and what
  the file has no more is free), which `RemapsOwned` shows to keep the property.
* `FilesAreAStore`: `~Wide => (Spec => IsAFileStore)`, the implementation of `FileStore`.
  A read or write is many steps, one a block, of the loop of the front end and the
  loop of `readi` or `writei`; in `FileStore` it is one. So the refinement mapping
  shows what the file was when the call began (`call.before`) until it ends (`Outside`),
  and the answer from then until the caller has it (`Answered`). The rest is an
  invariant beside `Inv`, `Told`, in three parts. Between calls (`Rests`): an inode nobody
  can reach is empty, and a file's blocks hold zeros beyond its end (`Cleared`), or what
  grows the file later would bring back what was cut off. During one (`Doing`): a read
  has the bytes from its start to its offset of what the file was (`Got`), and a write has
  made of the file what a write of that many bytes makes of it (`WroteSoFar`), except in the
  block that 2.11BSD has allocated for it and does not clear (`Pending`). After one
  (`Answers`), it was one. `BlockWritten` is what one block written changes,
  `GotMore` what one block read adds. A write that fails half way is where the
  store is weak on purpose: what was to be written up to some byte, the file perhaps
  lengthened with zeros after it, because `writei` and `rwip` move the size also past a
  part of a block that they could not read and so do not write (`WriteMisses`).
* The condition `~Wide` leaves out calls beyond the reach of V6's 24-bit sizes or of
  the largest offset, where offsets wrap (section 6). Within that reach nothing
  is bounded.

### Names

`NamespaceProofs`, for V6, V7 and 2.9BSD, any number of inodes and names and paths of
any length, on a disk that may fill up at any step.

* `LinksAreEnough`: removing the entries of an inode one by one never frees it before
  the last. A system call is an operator, so there is one lemma per system call
  (`UnlinkDoes`, `LinkDoes`, `MaknodeDoes`, `IputSound`: each leaves a volume whose links
  cover its entries), over `EntryWritten`, which counts what one entry written
  changes; the calls of `v6fs.c` then need one line per stage. Only
  `v6fs_reparentdir` leaves the counts short between two steps, of the directory
  left and then of the one come to (`Short`): `Inv` says that the inode its next step
  counts up is the one the step before wrote into "..", because no path goes through ".."
  (`NameiFrame`).
* `TreeIsKept`: between two calls the directories are a tree. `TreeInv` adds to `Inv`
  what holds at each stage within a call: the volume is a tree but for one inode
  (`TreeBut`), which a `mkdir` or an `rmdir` leads to by its only name and which has
  none in it (`Making`); what a rename moves is not on the way to its new name
  (`Renaming`), then has two names (`Twice`), then one and a wrong ".." (`Moving`); and
  the links are the entries exactly, with the one exception of a V6 volume that is full
  (`Miscounts`). Each stage resolves its paths again, so what is proved of each step is
  where a path leads afterwards: no path changes with "." or ".." (`SameWay`), none
  that led anywhere with a name made (`NameMade`), only those to it with the last name
  of a file or an empty directory removed (`NameRemoved`), and none that avoids a
  directory when that loses one of two names (`OldNameGone`). That a directory is not
  moved beneath itself follows from the paths alone (`MovesAside`), because one
  path leads to a directory (`OnePath`): the comparison of the paths that VFS makes is
  enough for this, and the proof needs nothing of `v6fs_isindir`.
* `NamespaceIsAFileTree`: `Spec /\ []CountsFit => IsAFileTree`, the implementation of
  `FileTree`. While a call is under way the refinement mapping shows the tree from
  before it (`op.before`), so every step of a call but its last is a stutter, and the
  last must be one step of `FileTree`, or none. `Behind` says for each stage how far the
  volume is from `op.before`: `v6fs_mkdir` has made one name that was not there
  (`Ahead`), `v6fs_rename` has removed what had the new name (`Cleared`), then has the file
  under two names, then under the new one (`Renames`), and nothing above the new
  directory is what moves (`Aside`, still known after the paths have changed).
  Each end of a call then is one of four steps (`Makes`, `Links`, `Drops`, `Moves`), which
  `MakesStep` and the lemmas beside it show to be those of `FileTree`. The last step
  of an undone `mkdir` leads back to `op.before` itself. `FileTree` says that a
  directory is not moved beneath itself through all sets of directories closed upwards
  (`Above`); the set that shows it is that of the directories a path to the new
  name leads through (`Avoids`).
* All three assume `CountsFit` of every state: where no code looks at the limit before it
  counts one more (`link` from V7 on, `v6fs_reparentdir`, section 6), the counts are below
  it. Past the limit the count wraps and `LinksCoverEntries` is false. In the states of run
  `namespace` it always holds: its entries are far fewer.

### The block map

`FileMapProofs`, for each kernel, any number of addresses, any number `PER` of entries in an
indirect block, any blocks and any logical blocks. The invariant is `MapInv`: a cleared block has
been forgotten, or the map is `Good`. Of what follows after that nothing is claimed: the file may
then hold anybody's blocks.

* `BlocksAccounted` and `MappedStays` speak of the states between calls; within one they
  are false where V6 holds an indirect block that is entered in the map and whose
  contents on disk are old. So `Good` is about `Now`, which is `content` with the buffer of
  that block in it. It says that the paths are a tree over the blocks of the file (`InTree`:
  each block of the file is at one path), that a call has come down the path of its block
  number, with what the block it is in holds (`OnItsWay`), and that each logical block
  leads to what `bmap` last answered for it (`Answers`).
* Four lemmas say what happens to a tree, whatever the paths: a block entered at an empty place
  (`Grafted`), places cleared with all beneath them (`Pruned`), a block without entries
  read as something else (`Unmoved`), all places empty (`EmptyMap`). Each goes from one level
  of indirection to the next, four times: no path is longer. `EnterStep`, `Itrunc211Step`,
  `NoSpaceStep`, `ItruncStep` and `InitGood` are their uses; `ConvertStep`, V6's move
  of the addresses to an indirect block, shows the new tree from the old.
* What a block number is made of is arithmetic: quotients and remainders are unique and in
  order (`DividedUniquely`, `QuotientOrder`). From this two block numbers have two
  paths (`PathsDiffer`), and the paths cut off are those of the block numbers after the last
  (`CutNumbers`), although `itrunc` compares level by level and stops at the first that keeps
  a block (`Reached`).
* `NoBlockIsLost` is `Spec => []BlocksAccounted`. `FileStays` is
  `Spec /\ [][~forgot]_vars => []MappedStays`: nothing is followed beyond a state in which a cleared
  block has been forgotten, as in run `filemap`, but in that state too every logical block that was
  mapped is where it was (`NoSpaceStep`, by `Unmoved`).
* The assumptions are `FileMapAssumption`: V6's addresses fit into one indirect block and there is
  more than one of them, the other kernels have one direct address at least besides the last three,
  and V6's largest block number, half of `BnRange` less one, is below what its last address
  reaches. The code's 8, 13 and 7 addresses, 256 and 128 entries, and 2^16 satisfy them.

### Startup

`StartupProofs`, for every number of mappings, every range of ids, every size of a
volume, span and interleave. `Inv` is `Table`, of the id mappings, and `Filling`, of the
free list of a new volume.

* `MappingsHaveRoom`: the memory of a table is always a whole number of pieces of
  `INC` entries; so a table that is not at the end of a piece has room for one more.
* `IdsAlwaysAgree` follows from the types and from what the searches find (`FirstIs`, by
  the least-number principle). `Kept` is the narrowing and widening: an id that the
  inode's field cannot hold comes back beyond every id of the filesystem. So it covers
  both the 8-bit ids of V6 and the later 16-bit ones, of which run `startup` has the latter.
* `EachBlockFreedOnce`: `SpanOrder` is a recursive function; `OrdersExist` shows, from one
  place to the next, that its equation has a solution and that each step finds a place
  that is not taken (`PlaceFound`, as a list shorter than the span cannot hold all its
  places). So it has each place once (`Permutes`), and all (`AllPlaces`). `AboveV6`
  and `AboveV7` say which blocks have been freed when the loops are at `i` and `j`.

### What is only model-checked

* Liveness (`EveryCallReturns`, `IallocReturns`): TLAPS 1.4.5 does not reason about `ENABLED`.
* `CutsTheTail`: that 2.11BSD's recursion over indirect blocks does what `Itrunc211` says
  directly. It is written as the code writes it, with a RECURSIVE operator.
* The refinements of `Names211` and `DirBlocks`, and their invariants.
* `Calls`: its trees and its calls are a fixed, finite set, which TLC enumerates;
  there is no constant for a proof to be more general in.

## 5. Plan

1. (done) The free list with proofs; buffer cache, inode table, block map, names,
   files and calls of the four kernels; mkfs, id maps and their order in `main`.
2. (done) Proofs: the free lists of all kernels, the buffer cache and its
   refinement, the inode table, open files, block maps, the links of names, the tree they are, and
   that `Namespace` implements `FileTree` and `FileIO` implements `FileStore`.
3. Not planned: one module of all layers. Its states would be the product of the
   above; the abstract specifications are where the layers meet instead.

## 6. Limits of the code that the modelling met

One is a run that TLC finds violated (`bufcache_wide`) and is listed as a finding.
The others hold by what the code does, and the properties are stated around them.

Blocks and the disk:

* A delayed write that fails is lost and nobody is told: `bwrite` does not wait
  for it (`dmr/bio.c:123-127`), and `flush` and `fsync` ignore what they get
  (`src/v6fuse.c:336`). `ufs_sync` and `bsd211fs_sync` also return 0 when an inode block
  could not be read.
* Reads and writes beyond the image succeed and do nothing (`src/dskio.c:177`).
* `iget` after a failed read frees the inode it was asked for, when the one that
  had the slot before was removed (`ken/iget.c:79-82`, and V7): `LinkedIsKept` stops
  there. 2.11BSD's may free inode 0 and count it (`ufs_inode.c:218`).
* `iupdat` and `alloc` do not look at the error of their reads (`ken/iget.c:141`,
  `ken/alloc.c:79`); V7 and the BSDs then empty the list, and the BSDs write the
  empty one (`bsd29/sys/alloc.c:100-121`).
* An indirect block that is allocated and released unwritten because the disk is
  full (`ken/subr.c:96`, `:121`) may be read back with its old contents, whose
  numbers then are blocks of the file, and are freed with it: `BlocksAccounted` stops there.
* Offsets from 32 megabytes on wrap to small block numbers before the check in V6's
  `bmap` (`src/v6adapt.c:131`). V7's `writei` goes on when `bmap` answered 0 with
  an error (`v7/sys/rdwri.c:113`). A write of the BSDs that reaches 2^31 wraps.
* 2.11BSD: `syncip` converts its block numbers twice (`ufs_subr.c:127`,
  `ufs_bio.c:395`), so `fsync` of a small file writes nothing; `bsd211fs_sync`
  returns without flushing when the superblock is clean; `ifree` with a full list
  counts without marking the superblock (`ufs_alloc.c:297-300`); `ialloc` skips a
  free inode whose old slot is still cached (`ufs_alloc.c:200`).
* `v7fs_initfreelist` and its copies leave out the last block when it is the
  first of a span (`src/v7fs.c:1353`).
* `bsd211fs_ftruncate` lays out its arguments with the host's 8-byte offset
  (`src/bsd211fs.c:568-571`); no FUSE operation reaches it.

Ids:

* V6's id maps take filesystem ids up to 255 (`src/v6fs.c:65`), an inode keeps a
  `char`, and `v6fs_mapv6uid` widens it with its sign (`src/v6fs.c:86`): ids from 128
  on are shown as nobody where `char` is signed, whatever the mapping (`Keeps`), though
  the usage text says that it "applies both ways" (`src/v6fuse.c:178`). V7's and the BSDs'
  maps end at 32767, which their fields hold.

Names:

* `link` and `mkdir` on a full disk leave a link count one too high
  (`ken/sys2.c:250`; 2.11BSD's `mkdir` and `rename`, `ufs_syscalls.c:1273`,
  `:959-966`); `reparentdir` adds one without the limit `link` checks
  (`src/v6fs.c:1468`), and 2.11BSD's `link` has no limit (`ufs_syscalls.c:274`).
* `rename` onto an existing name removes that first (`src/v6fs.c:696`); if the
  following link fails, both the old destination and the rename are gone.
* `v6fs_isindir` answers no when the new name does not exist, and while an error of
  an earlier search is set (comment at `src/v6fs.c:672`; V7 and 2.9BSD alike): only
  the VFS's own check stops a directory from being moved into itself.
* `rename` tests `oldip` where it has just looked up `newip` (`src/v6fs.c:635`,
  and V7; `src/bsd29fs.c:770`).
* 2.9BSD's `rename` of a symbolic link calls `link`, which follows it
  (`bsd29/sys/sys2.c:303`): the new name leads to the link's target, the link is gone,
  and a dangling link cannot be renamed.
* 2.11BSD's `rename` of a directory over an empty one never lowers the parent's
  count (`ufs_syscalls.c:995-1033`); it panics ("rename: lost dir entry", `:1056`)
  when its second search cannot read; `IRENAME` stays set in an inode that is held
  after a failed one (`:874`, `:1104`); an error that putting a directory meets
  after `dirrewrite` makes it lower the count of a file with both names.
* `dirremove` ignores the result of its write for the first entry of a block
  (`ufs_namei.c:1013-1019`).

What a failed read leaves behind (`NothingKept`, `EveryCallEnds`):

* `v6fs_statfs` keeps its buffer on an error, V7's and 2.9BSD's too
  (`src/v6fs.c:1211`), which may be an error of the `update` before.
* V6's `namei` does not look at the error of a directory's read and leaves the
  directory locked (`ken/nami.c:108-133`); V7 and 2.9BSD look at the block's
  error, not at an indirect block's. V6's `unlink` panics when it cannot read the
  inode, `iinit` of V7 and 2.9BSD when it cannot read the superblock; no
  `*fs_init` but 2.11BSD's looks at `iget` of the root.
* 2.11BSD's `mkdir` of a name that exists returns on `u_error`
  (`ufs_syscalls.c:1201`) without putting the inode it found.
* `bsd211fs_utimens` returns 1 for an error (`src/bsd211fs.c:729`);
  `bsd211fs_stat` follows symbolic links (`:602`); `bsd211fs_open` drops `O_TRUNC`
  (`:291`), though `src/bsd211fuse.c:323` asks to be given it.

The inode table cannot fill up: there are fewer descriptors (15, 20, 20, 100) than
slots (100, 200, 128, 128), and one call needs a few.

## 7. Not modelled

* The greater part of the repository's lines: drivers, `slp.c`, `sig.c`, `text.c`,
  `tty.c`, configuration programs and headers of the old systems, which are kept
  there and not built; the headers that rename and re-type the kernels' symbols; tests. They are
  not part of the program, and the map covers about a fifth of the repository
  for that reason.
* Compiled and never reached from FUSE: pipes, mounts, special files, process
  and descriptor calls of `sys3.c`, `sys_generic.c`, `kern_descrip.c`; swap and raw
  I/O of the caches; `ftruncate`; `open` with `O_CREAT`, which libfuse splits.
  V7's `plock` is a stub here.
* Data the properties do not tell apart: permission bits (a call of a user who is not root
  may be refused anywhere), file flags and quotas, times, modes.
* I/O without logic of its own: opening, locking and closing the image, scanning of
  options, `perror`. `main` does not close the image when `initfs` fails, the limit of
  100 mappings the usage text names is not enforced, and neither matters to what
  is modelled.
* Damaged volumes, but for what a failed read brings in.
