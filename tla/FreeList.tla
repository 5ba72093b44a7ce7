------------------------------ MODULE FreeList -------------------------------
(***************************************************************************)
(* The free-block list of a V6 volume: alloc, free, badblock and getfs of  *)
(* ken/alloc.c, the block count of v6fs_statfs, the part of update that    *)
(* saves the superblock, and the remount that reads it back.               *)
(*                                                                         *)
(* The superblock remembers up to NICFREE free blocks.  The one in slot 0  *)
(* is an index block: it holds the NICFREE blocks remembered before it,    *)
(* and so on down a chain that ends with a 0 in slot 0.                    *)
(***************************************************************************)
EXTENDS Integers, FiniteSets, Functions

CONSTANTS NICFREE,       \* slots of s_free (100 on a real volume)
          s_isize,       \* blocks of the inode table
          s_fsize,       \* blocks of the volume
          Junk,          \* what file data reads as when taken for an index block
          NULL,          \* no block: an allocation that failed
          NONE           \* the last operation was not an allocation

Slots == 0 .. NICFREE - 1

(***************************************************************************)
(* The image of an index block, and of the part of the superblock that is  *)
(* laid out like one: a count and NICFREE block numbers.                   *)
(***************************************************************************)
Image == [n : Int, f : [Slots -> Int]]

ASSUME SizesAssumption ==
  /\ NICFREE \in Nat \ {0}
  /\ s_isize \in Nat
  /\ s_fsize \in Nat

ASSUME JunkAssumption == Junk \subseteq Image /\ Junk # {}

Zeroed == [n |-> 0, f |-> [i \in Slots |-> 0]]

ASSUME NULLAssumption == NULL \notin Int /\ NONE \notin Int /\ NULL # NONE

(***************************************************************************)
(* A block number outside the data area: one nobody may allocate or free.  *)
(***************************************************************************)
Badblock(bn) == bn < s_isize + 2 \/ bn >= s_fsize

Blocks == s_isize + 2 .. s_fsize - 1

VARIABLES
  s_nfree,       \* the in-core superblock: blocks remembered in s_free
  s_free,        \* the in-core superblock: their numbers
  s_fmod,        \* the in-core superblock differs from the one on disk
  super,         \* the superblock on disk
  block,         \* contents of every data block, as the buffer cache shows it
  owned,         \* the blocks handed out: those of the files
  mounted,
  result         \* what the last alloc returned

core == <<s_nfree, s_free, s_fmod>>
vars == <<core, super, block, owned, mounted, result>>

(***************************************************************************)
(* getfs zeroes a count that cannot be one before alloc or free use it.    *)
(***************************************************************************)
GetfsCount == IF s_nfree > NICFREE THEN 0 ELSE s_nfree

(***************************************************************************)
(* alloc takes the remembered blocks from the last, skipping the bad ones, *)
(* and stops at slot i: at a good block or at the 0 that ends the chain.   *)
(***************************************************************************)
StopsAt(i) ==
  /\ s_free[i] = 0 \/ ~ Badblock(s_free[i])
  /\ \A k \in i + 1 .. GetfsCount - 1 : s_free[k] # 0 /\ Badblock(s_free[k])

Remembered == 0 .. GetfsCount - 1

(* Mutant: the superblock is not marked modified. *)
HandOutUnmarked(b) ==
  /\ block' = [block EXCEPT ![b] = Zeroed]
  /\ owned' = owned \union {b}
  /\ result' = b
  /\ UNCHANGED <<s_fmod, super, mounted>>

(* The block is zeroed in the cache and given to the caller. *)
HandOut(b) ==
  /\ block' = [block EXCEPT ![b] = Zeroed]
  /\ owned' = owned \union {b}
  /\ s_fmod' = TRUE
  /\ result' = b
  /\ UNCHANGED <<super, mounted>>

AllocRemembered ==
  /\ mounted
  /\ \E i \in Remembered \ {0} :
       /\ StopsAt(i)
       /\ s_free[i] # 0
       /\ s_nfree' = i
       /\ UNCHANGED s_free
       /\ HandOut(s_free[i])

(***************************************************************************)
(* The last remembered block is an index block: its image, read before the *)
(* block is handed out, becomes the superblock's list.                     *)
(***************************************************************************)
TakesIndex(image) ==
  /\ mounted
  /\ 0 \in Remembered
  /\ StopsAt(0)
  /\ s_free[0] # 0
  /\ s_nfree' = image.n
  /\ s_free' = image.f
  /\ HandOut(s_free[0])

(* Mutant: the buffer is cleared before it is read. *)
AllocIndexAfterClear == TakesIndex(Zeroed)

(* Mutant: the count is loaded and the table is not. *)
AllocIndexCountOnly == TakesIndex([n |-> block[s_free[0]].n, f |-> s_free])

AllocIndex == TakesIndex(block[s_free[0]])

AllocNoSpace ==
  /\ mounted
  /\ \A i \in Remembered : StopsAt(i) => s_free[i] = 0
  /\ s_nfree' = 0
  /\ result' = NULL
  /\ UNCHANGED <<s_free, s_fmod, super, block, owned, mounted>>

(***************************************************************************)
(* free: a bad number is ignored; an empty list gets the 0 that ends the   *)
(* chain; a full one is moved into the block being freed, which becomes    *)
(* the index block in slot 0.                                              *)
(***************************************************************************)
FreeBad(bn) ==
  /\ mounted
  /\ Badblock(bn)
  /\ s_nfree' = GetfsCount
  /\ s_fmod' = TRUE
  /\ result' = NONE
  /\ UNCHANGED <<s_free, super, block, owned, mounted>>

FullLate(n) == n > NICFREE          \* mutant: off by one

Full(n) == n >= NICFREE

FreeGood(b) ==
  LET empty == GetfsCount <= 0
      n == IF empty THEN 1 ELSE GetfsCount
      f == IF empty THEN [s_free EXCEPT ![0] = 0] ELSE s_free
  IN /\ mounted
     /\ ~ Badblock(b)
     /\ s_nfree' = IF Full(n) THEN 1 ELSE n + 1
     /\ s_free' = [f EXCEPT ![IF Full(n) THEN 0 ELSE n] = b]
     /\ block' = IF Full(n) THEN [block EXCEPT ![b] = [n |-> n, f |-> f]] ELSE block
     /\ owned' = owned \ {b}
     /\ s_fmod' = TRUE
     /\ result' = NONE
     /\ UNCHANGED <<super, mounted>>

(* A file writes over a block it owns. *)
WriteData(b, image) ==
  /\ mounted
  /\ b \in owned
  /\ block' = [block EXCEPT ![b] = image]
  /\ result' = NONE
  /\ UNCHANGED <<core, super, owned, mounted>>

(* update writes the superblock only when it is marked modified. *)
SaveSuper ==
  /\ super' = IF s_fmod THEN [n |-> s_nfree, f |-> s_free] ELSE super
  /\ s_fmod' = FALSE
  /\ result' = NONE
  /\ UNCHANGED <<s_nfree, s_free, block, owned>>

Sync == mounted /\ SaveSuper /\ UNCHANGED mounted

(* v6fs_shutdown: sync, then forget everything in core. *)
Unmount == mounted /\ SaveSuper /\ mounted' = FALSE

(* iinit: the superblock on disk, whose s_fmod update cleared. *)
Mount ==
  /\ ~ mounted
  /\ mounted' = TRUE
  /\ s_nfree' = super.n
  /\ s_free' = super.f
  /\ s_fmod' = FALSE
  /\ result' = NONE
  /\ UNCHANGED <<super, block, owned>>

(***************************************************************************)
(* mkfs starts from a zeroed superblock and frees the data blocks one by   *)
(* one: until then every one of them counts as handed out.                 *)
(***************************************************************************)
Init ==
  /\ s_nfree = 0
  /\ s_free = [i \in Slots |-> 0]
  /\ s_fmod = TRUE
  /\ super = Zeroed
  /\ block \in [Blocks -> Junk]
  /\ owned = Blocks
  /\ mounted = TRUE
  /\ result = NONE

(* The block numbers a damaged inode may name, just outside the data area. *)
BadNumbers == {s_isize + 1, s_fsize}

Next ==
  \/ AllocRemembered
  \/ AllocIndex
  \/ AllocNoSpace
  \/ \E bn \in BadNumbers : FreeBad(bn)
  \/ \E b \in owned : FreeGood(b)
  \/ \E b \in owned, image \in Junk : WriteData(b, image)
  \/ Sync
  \/ Unmount
  \/ Mount

Spec == Init /\ [][Next]_vars

(***************************************************************************)
(* A read of the index block that fails leaves in the buffer whatever it   *)
(* held before, the image of some other block; V6 alloc does not look at   *)
(* the error and loads it all the same.                                    *)
(***************************************************************************)
AllocReadError ==
  \E image \in Junk \union Range(block) : TakesIndex(image)

FaultyNext == Next \/ AllocReadError

FaultySpec == Init /\ [][FaultyNext]_vars

-----------------------------------------------------------------------------
(***************************************************************************)
(* The walk of v6fs_statfs down the chain: list 0 is the superblock's, the *)
(* next one is in the index block that slot 0 names.                       *)
(***************************************************************************)
Core == [n |-> s_nfree, f |-> s_free]

NextIndex(image) == IF image.n > 0 THEN image.f[0] ELSE 0

ListAt[k \in 0 .. s_fsize] ==
  IF k = 0 THEN Core
  ELSE LET index == NextIndex(ListAt[k - 1])
       IN IF Badblock(index) THEN Zeroed ELSE block[index]

(* What statfs adds for one list: slot 0 counts when it names an index block. *)
CountOfAll(image) == IF image.n <= 0 THEN 0 ELSE image.n   \* mutant: counts the 0

CountOf(image) ==
  IF image.n <= 0 THEN 0
  ELSE IF image.f[0] # 0 THEN image.n ELSE image.n - 1

f_bfree == FoldFunction(LAMBDA image, sum : CountOf(image) + sum, 0, ListAt)

(* statfs stops with EIO at a bad index block. *)
StatfsFails ==
  \E k \in 0 .. s_fsize : LET index == NextIndex(ListAt[k])
                          IN index # 0 /\ Badblock(index)
-----------------------------------------------------------------------------
TypeOK ==
  /\ s_nfree \in 0 .. NICFREE
  /\ s_free \in [Slots -> Blocks \union {0}]
  /\ s_fmod \in BOOLEAN
  /\ super \in [n : 0 .. NICFREE, f : [Slots -> Blocks \union {0}]]
  /\ block \in [Blocks -> Image]
  /\ owned \subseteq Blocks
  /\ mounted \in BOOLEAN
  /\ result \in Blocks \union {NULL, NONE}

(***************************************************************************)
(* The block count df shows is the number of blocks no file owns: the walk *)
(* of the chain meets every free block once, no block twice and no block   *)
(* of a file, after any history of allocations, frees, syncs and remounts. *)
(***************************************************************************)
StatfsExact == ~ StatfsFails /\ f_bfree = Cardinality(Blocks \ owned)

(***************************************************************************)
(* A superblock that is not marked modified can be read back: it says what *)
(* the one in core says, or both are one of the two forms of a full volume *)
(* (alloc empties the list without marking it when it fails).              *)
(***************************************************************************)
IsFull(image) == image.n = 0 \/ (image.n = 1 /\ image.f[0] = 0)

CleanIsSaved == ~ s_fmod => super = Core \/ (IsFull(super) /\ IsFull(Core))

(***************************************************************************)
(* alloc and free never index s_free outside its slots, whatever an index  *)
(* block read with an error put in the count: this is what the check of    *)
(* getfs is for.  The slots an operation touches are those below its count *)
(* and the slot free writes.                                               *)
(***************************************************************************)
SlotsInBounds ==
  /\ Remembered \subseteq Slots
  /\ DOMAIN s_free = Slots

(* A block alloc returns belonged to no file when it was called.            *)
NeverTwice ==
  [][AllocRemembered \/ AllocIndex => result' \notin owned]_vars

(* An allocation fails only on a full volume, and a block is never handed   *)
(* out twice: the list implements the set of blocks no file owns.          *)
Abstract == INSTANCE FreeSet WITH avail <- Blocks \ owned
FreeListImplementsSet == Abstract!Spec

-----------------------------------------------------------------------------
(***************************************************************************)
(* The structure that makes the list correct, for the superblock's image   *)
(* top, the block contents blk and the owned blocks own: m index blocks    *)
(* c[1], ..., c[m], the oldest first.  List k is the image that names c[k] *)
(* in slot 0; the superblock's is list m.                                  *)
(***************************************************************************)
ListNo(top, blk, m, c, k) == IF k = m THEN top ELSE blk[c[k + 1]]

Remembers(top, blk, m, c, k, i) == i < ListNo(top, blk, m, c, k).n

Entry(top, blk, m, c, k, i) == ListNo(top, blk, m, c, k).f[i]

GoodCounts(top, blk, m, c) ==
  /\ top \in Image
  /\ top.n \in 0 .. NICFREE
  /\ m > 0 => top.n > 0
  /\ \A k \in 0 .. m - 1 : blk[c[k + 1]].n = NICFREE

GoodHeads(top, blk, m, c) ==
  \A k \in 0 .. m : Remembers(top, blk, m, c, k, 0) =>
    Entry(top, blk, m, c, k, 0) = IF k = 0 THEN 0 ELSE c[k]

(* Every number a list remembers, but the 0 that ends the chain, is free, ... *)
GoodEntries(top, blk, own, m, c) ==
  \A k \in 0 .. m, i \in Slots : Remembers(top, blk, m, c, k, i) =>
    (k = 0 /\ i = 0) \/ Entry(top, blk, m, c, k, i) \in Blocks \ own

(* ... is remembered nowhere else, ... *)
GoodUnique(top, blk, m, c) ==
  \A k, l \in 0 .. m, i, j \in Slots :
    /\ Remembers(top, blk, m, c, k, i)
    /\ Remembers(top, blk, m, c, l, j)
    /\ Entry(top, blk, m, c, k, i) = Entry(top, blk, m, c, l, j)
    => k = l /\ i = j

(* ... and every free block is remembered. *)
GoodComplete(top, blk, own, m, c) ==
  \A b \in Blocks \ own : \E k \in 0 .. m, i \in Slots :
    Remembers(top, blk, m, c, k, i) /\ Entry(top, blk, m, c, k, i) = b

GoodList(top, blk, own, m, c) ==
  /\ GoodCounts(top, blk, m, c)
  /\ GoodHeads(top, blk, m, c)
  /\ GoodEntries(top, blk, own, m, c)
  /\ GoodUnique(top, blk, m, c)
  /\ GoodComplete(top, blk, own, m, c)

(* The superblock of an unmounted volume is the one that was saved. *)
Saved == CleanIsSaved /\ (~ mounted => ~ s_fmod)

(* The inductive invariant, for the chain (m, c). *)
IndInv(m, c) == TypeOK /\ Saved /\ GoodList(Core, block, owned, m, c)

(* There is such a chain, of at most as many index blocks as there are     *)
(* blocks.                                                                 *)
ChainExists ==
  \E m \in 0 .. Cardinality(Blocks) : \E c \in [1 .. m -> Blocks] : IndInv(m, c)
==============================================================================
