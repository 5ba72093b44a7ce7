----------------------------- MODULE FreeListBSD -----------------------------
(***************************************************************************)
(* The free-block lists of the later kernels, beside V6's: alloc and free  *)
(* of bsd29/sys/alloc.c, balloc and free of ufs_alloc.c, and the sync and  *)
(* mount that go with them.  V7's list, as long as the disk reads, is V6's.*)
(*                                                                         *)
(* The BSDs count the free blocks beside the list, in s_tfree, which is    *)
(* all that 2.11BSD's statvfs looks at; and they save the superblock       *)
(* whenever they have taken an index block, before it is handed out, "so   *)
(* that the free list pointer won't point at garbage" after a crash.       *)
(*                                                                         *)
(* (A V7 or BSD s_isize counts the two blocks before the inodes.)          *)
(***************************************************************************)
EXTENDS FreeList

VARIABLES
  bsd,           \* the kernel is 2.9BSD or 2.11BSD; it stays
  s_tfree,       \* the in-core superblock: the count of free blocks
  super_tfree    \* the one on disk

count == <<s_tfree, super_tfree>>

Counts(n) == s_tfree' = (IF bsd THEN n ELSE s_tfree) /\ UNCHANGED super_tfree

AllocCounted == AllocRemembered /\ Counts(s_tfree - 1)

AllocIndexV6 == ~bsd /\ AllocIndex /\ Counts(s_tfree)

TakesUnsaved ==                \* mutant: as V6 and V7 do
  LET image == block[s_free[0]] IN
    /\ s_nfree' = image.n
    /\ s_free' = image.f
    /\ UNCHANGED <<super, super_tfree>>

(* The index block's list is taken, and the superblock written.            *)
TakesAndSaves ==
  LET image == block[s_free[0]] IN
    /\ s_nfree' = image.n
    /\ s_free' = image.f
    /\ super' = image
    /\ super_tfree' = s_tfree

(* Then the block is handed out, and the superblock is modified again. *)
AllocIndexBSD ==
  /\ bsd
  /\ mounted
  /\ 0 \in Remembered /\ StopsAt(0) /\ s_free[0] # 0
  /\ TakesAndSaves
  /\ block' = [block EXCEPT ![s_free[0]] = Zeroed]
  /\ owned' = owned \union {s_free[0]}
  /\ s_fmod' = TRUE
  /\ s_tfree' = s_tfree - 1
  /\ result' = s_free[0]
  /\ UNCHANGED mounted

AllocNoSpaceCounted == AllocNoSpace /\ Counts(0)

(* The BSDs look at the number before anything else. *)
FreeBadBSD(bn) ==
  /\ bsd /\ mounted /\ Badblock(bn)
  /\ s_nfree' = GetfsCount
  /\ result' = NONE
  /\ UNCHANGED <<s_free, s_fmod, super, block, owned, mounted, count>>

FreeBadV6(bn) == ~bsd /\ FreeBad(bn) /\ UNCHANGED count

FreeCounted(b) == FreeGood(b) /\ Counts(s_tfree + 1)

Saves ==
  /\ super_tfree' = IF s_fmod THEN s_tfree ELSE super_tfree
  /\ UNCHANGED s_tfree

MountCounted == Mount /\ s_tfree' = super_tfree /\ UNCHANGED super_tfree

AnyInit == Init /\ bsd \in BOOLEAN /\ s_tfree = 0 /\ super_tfree = 0

AnyNext ==
  /\ UNCHANGED bsd
  /\ \/ AllocCounted \/ AllocIndexV6 \/ AllocIndexBSD \/ AllocNoSpaceCounted
     \/ \E bn \in BadNumbers : FreeBadV6(bn) \/ FreeBadBSD(bn)
     \/ \E b \in owned : FreeCounted(b)
     \/ \E b \in owned, image \in Junk : WriteData(b, image) /\ UNCHANGED count
     \/ (Sync \/ Unmount) /\ Saves
     \/ MountCounted

AnySpec == AnyInit /\ [][AnyNext]_<<vars, bsd, count>>

-----------------------------------------------------------------------------
(* What df shows is the number of blocks no file owns: in V6, V7 and       *)
(* 2.9BSD what the walk of the chain counts, in 2.11BSD fs_tfree, which    *)
(* alloc, free, a full volume, a sync and a mount keep apart from the list.*)
DfExact == StatfsExact /\ (bsd /\ mounted => s_tfree = f_bfree)

(* The walk down the chain from the superblock on disk, where the next     *)
(* mount starts if the process dies now.                                   *)
SavedListAt[k \in 0 .. s_fsize] ==
  IF k = 0 THEN super
  ELSE LET index == NextIndex(SavedListAt[k - 1])
       IN IF Badblock(index) THEN Zeroed ELSE block[index]

(* "so that the free list pointer won't point at garbage" (bsd29/sys/      *)
(* alloc.c, ufs_alloc.c): whenever a BSD process dies, every index block   *)
(* the saved superblock leads to still is one, full, and no file's: what   *)
(* is taken for a list after the crash is never the contents of a file.    *)
(* (A number in a list may be a file's block: only fsck can tell.)         *)
SavedChainSound ==
  bsd => \A k \in 0 .. s_fsize :
           LET index == NextIndex(SavedListAt[k]) IN
             index = 0 \/ (index \in Blocks \ owned /\ block[index].n = NICFREE)
==============================================================================
