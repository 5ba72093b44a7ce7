----------------------------- MODULE InodeTable -----------------------------
(***************************************************************************)
(* The in-core inode table and the allocation of inodes, in V6 (V7's are   *)
(* the same), 2.9BSD and 2.11BSD: iget, iput, iupdat and maknode of        *)
(* ken/iget.c, sys/iget.c and ufs_inode.c, ialloc and ifree of ken/alloc.c, *)
(* sys/alloc.c and ufs_alloc.c, the inode part of update.                  *)
(*                                                                         *)
(* A slot is free when its reference count is 0; it then keeps the mode    *)
(* and link count of its last inode, which iget replaces when it reads the *)
(* inode block without an error.  In 2.11BSD a free slot still stands for  *)
(* its inode, until it is the oldest one and another inode needs it.       *)
(*                                                                         *)
(* The superblock remembers up to NICINOD inodes that may be free; an      *)
(* inode is free when its mode on disk is 0, and ialloc believes nothing   *)
(* else.  It looks for more from the first inode on; the BSDs look from    *)
(* where they stopped before, unless many were freed behind that place,    *)
(* and count the free inodes.                                              *)
(*                                                                         *)
(* Inode locks, held only within one call of one thread, are left out; so  *)
(* is the inode's data but for its mode (in use or not) and its links.     *)
(***************************************************************************)
EXTENDS Integers, FiniteSets, FiniteSetsExt, Functions, Sequences, SequencesExt

CONSTANTS Kernels,       \* of "v6" (V7 too), "29" and "211"
          Inos,          \* the inode numbers of the volume, from 1
          INOPB,         \* inodes of an inode block (16; V7: 8)
          NINODE,        \* slots of the in-core table (100)
          NICINOD,       \* slots of s_inode (100)
          Behind,        \* freed behind s_lasti to look from the top (4 * NICINOD)
          MaxLinks,      \* bound: links of one inode
          MaxEntries,    \* bound: directory entries there is room for
          MaxRefs,       \* bound: references to one slot, before ialloc adds its own
          MayHappen,     \* of each kernel, {"crash", "read error"}: the process dies,
                         \* iget cannot read an inode (bound: one of them, once)
          ENOSPC, ENFILE,
          NONE           \* the last step did not end a call of ialloc

ASSUME InodeTableAssumption ==
  /\ IsFiniteSet(Inos) /\ Inos # {} /\ Inos = 1 .. Cardinality(Inos)
  /\ NINODE \in Nat \ {0} /\ NICINOD \in Nat \ {0}
  /\ INOPB \in Nat \ {0} /\ Behind \in Nat
  /\ Kernels \subseteq {"v6", "29", "211"}
  /\ MaxLinks \in Nat \ {0} /\ MaxRefs \in Nat \ {0} /\ MaxEntries \in Nat
  /\ MayHappen \in [Kernels -> SUBSET {"crash", "read error"}]

ASSUME NoAnswerIsAnInode ==
  /\ ENOSPC \notin Inos /\ ENFILE \notin Inos /\ NONE \notin Inos
  /\ ENOSPC # ENFILE /\ ENOSPC # NONE

Slots == 0 .. NINODE - 1

VARIABLES
  kernel,    \* the kernel, which stays
  number,    \* i_number, 0 in a free slot (but in 2.11BSD)
  count,     \* i_count
  used,      \* i_mode # 0
  nlink,     \* i_nlink
  updated,   \* i_flag & (IUPD|IACC)
  ifree,     \* 2.11BSD: the free slots, the oldest first (ifreeh)
  dinode,    \* the inodes on disk: [used, nlink]
  s_inode,   \* the superblock's inodes, in core; s_ninode is its length
  s_fmod,
  s_lasti,   \* the BSDs: the first inode of the block where ialloc stopped looking
  s_nbehind, \* how many were freed before it, while the list was full
  s_tinode,  \* the count of free inodes, which statvfs answers
  super,     \* s_inode and s_tinode on disk
  links,     \* the directory entries that name each inode
  calling,   \* a call of ialloc is looping
  answer,    \* what it returned: an inode, ENOSPC, ENFILE
  happened   \* history: which of MayHappen has happened

slot == <<number, count, used, nlink, updated, ifree>>
scan == <<s_lasti, s_nbehind>>
sb == <<s_inode, s_fmod, scan, s_tinode>>
vars == <<kernel, slot, dinode, sb, super, links, calling, answer, happened>>

BSD == kernel # "v6"
Caches == kernel = "211"

-----------------------------------------------------------------------------
(* Mutant: the search misses the last slot. *)
InCoreButLast(i) == \E s \in Slots \ {NINODE - 1} : number[s] = i

InCore(i) == \E s \in Slots : number[s] = i

SlotOf(i) == CHOOSE s \in Slots : number[s] = i

HasRoom == SumFunction(links) < MaxEntries

Spare == {s \in Slots : count[s] = 0}

(* The slot iget takes.  (2.9BSD takes the one released last: they differ  *)
(* in nothing that it looks at.)                                           *)
Oldest == IF Caches THEN Head(ifree) ELSE Min(Spare)

Grabbed(s) == RemoveFirst(ifree, s)

Dinodes == [used : BOOLEAN, nlink : 0 .. MaxLinks]

UpdatedInUse(i, d) ==              \* mutant: a freed inode is not written
  IF d.used THEN [dinode EXCEPT ![i] = d] ELSE dinode

UpdatedFreed(i, d) ==              \* mutant: only a freed inode is written
  IF d.used THEN dinode ELSE [dinode EXCEPT ![i] = d]

(* iupdat of an inode that was changed *)
Updated(i, d) == [dinode EXCEPT ![i] = d]

IfreeUnbounded(list, i) == Append(list, i)       \* mutant: never full

(* ifree, on the list the call has come to: what does not fit is dropped.  *)
Ifree(list, i) == IF Len(list) < NICINOD THEN Append(list, i) ELSE list

(* The end of an iput that drops the last reference to slot s, when it     *)
(* holds inode i with these fields: an inode without links is freed and    *)
(* written, one that was changed is written.  Of what the slot keeps, V6   *)
(* looks only at whether there were links (IgetError), 2.9BSD at nothing.  *)
(* The call has come to this list and this count of free inodes.           *)
LastIput(s, i, u, n, changed, list, tinode) ==
  /\ number' = [number EXCEPT ![s] = IF Caches THEN i ELSE 0]
  /\ count' = [count EXCEPT ![s] = 0]
  /\ updated' = [updated EXCEPT ![s] = FALSE]
  /\ nlink' = [nlink EXCEPT ![s] = IF Caches THEN n ELSE IF BSD THEN 0 ELSE Min({n, 1})]
  /\ used' = [used EXCEPT ![s] = Caches /\ u /\ n > 0]
  /\ ifree' = IF Caches THEN Append(Grabbed(s), s) ELSE ifree
  /\ dinode' = IF i # 0 /\ (changed \/ n <= 0)
               THEN Updated(i, [used |-> u /\ n > 0, nlink |-> n])
               ELSE dinode
  /\ s_inode' = IF n <= 0 THEN Ifree(list, i) ELSE list
  /\ s_fmod' = (s_fmod \/ (n <= 0 /\ Len(list) < NICINOD))
  /\ s_tinode' = IF BSD /\ n <= 0 THEN tinode + 1 ELSE tinode
  /\ s_nbehind' = IF BSD /\ n <= 0 /\ Len(list) >= NICINOD /\ s_lasti > i
                  THEN Min({s_nbehind + 1, Behind})
                  ELSE s_nbehind
  /\ UNCHANGED s_lasti

-----------------------------------------------------------------------------
(* iget: the slot that holds i, or the first spare one.                    *)
IgetCached(i) ==
  /\ InCore(i) /\ count[SlotOf(i)] < MaxRefs
  /\ count' = [count EXCEPT ![SlotOf(i)] = @ + 1]
  /\ ifree' = Grabbed(SlotOf(i))
  /\ UNCHANGED <<number, used, nlink, updated>>

IgetRead(i) ==
  /\ ~InCore(i) /\ Spare # {}
  /\ LET s == Oldest IN
       /\ number' = [number EXCEPT ![s] = i]
       /\ count' = [count EXCEPT ![s] = 1]
       /\ used' = [used EXCEPT ![s] = dinode[i].used]
       /\ nlink' = [nlink EXCEPT ![s] = dinode[i].nlink]
       /\ ifree' = Grabbed(s)
       /\ UNCHANGED updated

(* The inode block cannot be read: iput gets the fields of the inode that  *)
(* was in the slot before, which 2.11BSD no longer takes for inode i but   *)
(* for inode 0, and 2.9BSD releases the slot without iput.  list is what   *)
(* is left of s_inode.                                                     *)
IgetError(i, list) ==
  /\ "read error" \in MayHappen[kernel] /\ ~InCore(i) /\ Spare # {}
  /\ happened = {} /\ happened' = {"read error"}
  /\ LET s == Oldest IN
     IF kernel = "29"
     THEN /\ s_inode' = list
          /\ UNCHANGED <<slot, dinode, s_fmod, scan, s_tinode>>
     ELSE LastIput(s, IF Caches THEN 0 ELSE i, used[s], nlink[s], FALSE, list, s_tinode)

(* A path names the inode, and namei gets it. *)
Lookup(i) ==
  /\ ~calling /\ links[i] > 0
  /\ \/ (IgetCached(i) \/ IgetRead(i)) /\ UNCHANGED <<dinode, sb, happened>>
     \/ IgetError(i, s_inode)
  /\ answer' = NONE
  /\ UNCHANGED <<kernel, super, links, calling>>

Iput(s) ==
  /\ ~calling
  /\ \/ count[s] = 1 /\ LastIput(s, number[s], used[s], nlink[s], updated[s], s_inode, s_tinode)
     \/ /\ count[s] > 1
        /\ count' = [count EXCEPT ![s] = @ - 1]
        /\ UNCHANGED <<number, used, nlink, updated, ifree, dinode, sb>>
  /\ answer' = NONE
  /\ UNCHANGED <<kernel, super, links, calling, happened>>

(* link and unlink, on an inode they hold *)
Relink(s, by) ==
  /\ ~calling /\ count[s] > 0
  /\ links[number[s]] \in 1 .. MaxLinks /\ links[number[s]] + by <= MaxLinks
  /\ nlink[s] + by \in 0 .. MaxLinks /\ (by = 1 => HasRoom)
  /\ links' = [links EXCEPT ![number[s]] = @ + by]
  /\ nlink' = [nlink EXCEPT ![s] = @ + by]
  /\ updated' = [updated EXCEPT ![s] = TRUE]
  /\ answer' = NONE
  /\ UNCHANGED <<kernel, number, count, used, ifree, dinode, sb, super, calling, happened>>

-----------------------------------------------------------------------------
(* ialloc, on behalf of maknode.                                           *)
CallIalloc ==
  /\ ~calling
  /\ calling' = TRUE
  /\ answer' = NONE
  /\ UNCHANGED <<kernel, slot, dinode, sb, super, links, happened>>

Return(a) == calling' = FALSE /\ answer' = a

Popped == s_inode[Len(s_inode)]

Rest == SubSeq(s_inode, 1, Len(s_inode) - 1)

NeverTaken(i) == FALSE         \* mutant: the list is believed

IsTaken(i) == IF InCore(i) THEN used[SlotOf(i)] ELSE dinode[i].used

(* In 2.11BSD, after an error, the list may name an inode 0. *)
PopLow ==
  /\ calling /\ s_inode # <<>> /\ Popped = 0
  /\ s_inode' = Rest
  /\ answer' = NONE
  /\ UNCHANGED <<kernel, slot, dinode, s_fmod, scan, s_tinode, super, links, calling, happened>>

(* The inode remembered "was allocated after all": iput it, look further.  *)
PopTaken ==
  /\ calling /\ s_inode # <<>> /\ Popped # 0 /\ IsTaken(Popped)
  /\ \/ /\ InCore(Popped) /\ count[SlotOf(Popped)] > 0
        /\ s_inode' = Rest
        /\ UNCHANGED <<slot, dinode, s_fmod, scan, s_tinode>>
     \/ /\ (InCore(Popped) => count[SlotOf(Popped)] = 0) /\ Spare # {}
        /\ LET s == IF InCore(Popped) THEN SlotOf(Popped) ELSE Oldest IN
           LastIput(s, Popped, TRUE, dinode[Popped].nlink, FALSE, Rest, s_tinode)
  /\ answer' = NONE
  /\ UNCHANGED <<kernel, super, links, calling, happened>>

(* No slot for it: iget fails, and so does ialloc. *)
PopNoSlot ==
  /\ calling /\ s_inode # <<>> /\ Popped # 0 /\ ~InCore(Popped) /\ Spare = {}
  /\ s_inode' = Rest
  /\ Return(ENFILE)
  /\ UNCHANGED <<kernel, slot, dinode, s_fmod, scan, s_tinode, super, links, happened>>

(* The inode cannot be read: the same. *)
PopError ==
  /\ calling /\ s_inode # <<>> /\ Popped # 0
  /\ IgetError(Popped, Rest)
  /\ Return(NONE)
  /\ UNCHANGED <<kernel, super, links>>

(* A free one: maknode takes it and wdir writes its directory entry, or    *)
(* cannot, and then its only link goes and it is put back.                 *)
Taken == IF BSD THEN s_tinode - 1 ELSE s_tinode

MakeNode(s, i) ==
  /\ number' = [number EXCEPT ![s] = i]
  /\ count' = [count EXCEPT ![s] = @ + 1]
  /\ used' = [used EXCEPT ![s] = TRUE]
  /\ nlink' = [nlink EXCEPT ![s] = 1]
  /\ updated' = [updated EXCEPT ![s] = TRUE]
  /\ ifree' = Grabbed(s)

PopFree ==
  /\ calling /\ s_inode # <<>> /\ Popped # 0 /\ ~IsTaken(Popped)
  /\ InCore(Popped) \/ Spare # {}
  /\ LET s == IF InCore(Popped) THEN SlotOf(Popped) ELSE Oldest IN
       \/ /\ HasRoom /\ MakeNode(s, Popped)
          /\ links' = [links EXCEPT ![Popped] = 1]
          /\ s_inode' = Rest /\ s_fmod' = TRUE /\ s_tinode' = Taken
          /\ Return(Popped)
          /\ UNCHANGED <<dinode, scan>>
       \/ /\ IF count[s] = 0 THEN LastIput(s, Popped, TRUE, 0, TRUE, Rest, Taken)
             ELSE /\ used' = [used EXCEPT ![s] = TRUE]
                  /\ updated' = [updated EXCEPT ![s] = TRUE]
                  /\ nlink' = [nlink EXCEPT ![s] = 0]
                  /\ s_inode' = Rest /\ s_fmod' = TRUE /\ s_tinode' = Taken
                  /\ UNCHANGED <<number, count, ifree, dinode, scan>>
          /\ Return(NONE)
          /\ UNCHANGED links
  /\ UNCHANGED <<kernel, super, happened>>

FreeButLast ==                 \* mutant: the scan stops one inode early
  {i \in Inos \ {Max(Inos)} : ~dinode[i].used /\ ~InCore(i)}

FreeOnDisk == {i \in Inos : ~dinode[i].used}   \* mutant: in core or not

(* The list is empty: ialloc fills it from the inodes whose mode on disk   *)
(* is 0 and which are in no slot, lowest numbers first.                    *)
Free == {i \in Inos : ~dinode[i].used /\ ~InCore(i)}

Below(S, i) == Cardinality({j \in S : j < i})

FirstOf(S, n) ==
  [k \in 1 .. Min({n, Cardinality(S)}) |-> CHOOSE i \in S : Below(S, i) = k - 1]

(* The BSDs begin at s_lasti, and when that does not fill the list they    *)
(* look again from the top: 2.11BSD for all of it, 2.9BSD for the rest of  *)
(* it, where the inodes it has found may come a second time.               *)
Onward ==
  IF BSD /\ s_nbehind < Behind THEN FirstOf({i \in Free : i >= s_lasti}, NICINOD) ELSE <<>>

FromTop == Len(Onward) < NICINOD

Found ==
  LET kept == IF kernel = "29" THEN Onward ELSE <<>> IN
  IF FromTop THEN kept \o FirstOf(Free, NICINOD - Len(kept)) ELSE Onward

(* The block where it stopped: that of the last inode it found, or the     *)
(* last one when it has not filled the list.                               *)
Stopped(list) ==
  LET i == IF Len(list) < NICINOD THEN Max(Inos) ELSE Last(list) IN
  i - ((i - 1) % INOPB)

Scanned ==
  IF BSD THEN /\ s_lasti' = Stopped(Found)
              /\ s_nbehind' = IF FromTop THEN 0 ELSE s_nbehind
  ELSE UNCHANGED scan

Refill ==
  /\ calling /\ s_inode = <<>> /\ Free # {}
  /\ s_inode' = Found
  /\ Scanned
  /\ answer' = NONE
  /\ UNCHANGED <<kernel, slot, dinode, s_fmod, s_tinode, super, links, calling, happened>>

OutOfInodes ==
  /\ calling /\ s_inode = <<>> /\ Free = {}
  /\ Scanned
  /\ Return(ENOSPC)
  /\ UNCHANGED <<kernel, slot, dinode, s_inode, s_fmod, s_tinode, super, links, happened>>

-----------------------------------------------------------------------------
MayCrash == "crash" \in MayHappen[kernel]

(* update writes the superblock and every inode that was changed; the      *)
(* inodes stay marked.  (Bound: what is on disk is not followed where no   *)
(* crash comes.)                                                           *)
Update ==
  /\ ~calling
  /\ super' = IF s_fmod /\ MayCrash THEN [s_inode |-> s_inode, s_tinode |-> s_tinode] ELSE super
  /\ s_fmod' = FALSE
  /\ dinode' = [i \in Inos |->
                  IF InCore(i) /\ updated[SlotOf(i)]
                  THEN [used |-> used[SlotOf(i)], nlink |-> nlink[SlotOf(i)]]
                  ELSE dinode[i]]
  /\ answer' = NONE
  /\ UNCHANGED <<kernel, slot, s_inode, scan, s_tinode, links, calling, happened>>

(* ihinit *)
AllFree == IF Caches THEN [n \in 1 .. NINODE |-> n - 1] ELSE <<>>

(* The process dies.  The next one finds the inodes and the superblock     *)
(* that were written, each as old as its last write, and directories that  *)
(* agree with the inodes.                                                  *)
Crash ==
  /\ "crash" \in MayHappen[kernel] /\ happened = {}
  /\ happened' = {"crash"}
  /\ number' = [s \in Slots |-> 0] /\ count' = [s \in Slots |-> 0]
  /\ used' = [s \in Slots |-> FALSE] /\ nlink' = [s \in Slots |-> 0]
  /\ updated' = [s \in Slots |-> FALSE] /\ ifree' = AllFree
  /\ s_inode' = super.s_inode /\ s_tinode' = super.s_tinode /\ s_fmod' = FALSE
  /\ s_lasti' = 1 /\ s_nbehind' = 0
  /\ links' = [i \in Inos |-> IF dinode[i].used THEN dinode[i].nlink ELSE 0]
  /\ calling' = FALSE /\ answer' = NONE
  /\ UNCHANGED <<kernel, dinode, super>>

Init ==
  /\ kernel \in Kernels
  /\ number = [s \in Slots |-> 0] /\ count = [s \in Slots |-> 0]
  /\ used = [s \in Slots |-> FALSE] /\ nlink = [s \in Slots |-> 0]
  /\ updated = [s \in Slots |-> FALSE] /\ ifree = AllFree
  /\ dinode = [i \in Inos |-> [used |-> FALSE, nlink |-> 0]]
  /\ s_inode = <<>> /\ s_fmod = FALSE
  /\ s_lasti = 1 /\ s_nbehind = 0
  /\ s_tinode = IF BSD THEN Cardinality(Inos) ELSE 0
  /\ super = [s_inode |-> <<>>, s_tinode |-> s_tinode]
  /\ links = [i \in Inos |-> 0]
  /\ calling = FALSE /\ answer = NONE /\ happened = {}

Ialloc == PopLow \/ PopTaken \/ PopNoSlot \/ PopError \/ PopFree \/ Refill \/ OutOfInodes

Next ==
  \/ \E i \in Inos : Lookup(i)
  \/ \E s \in Slots : Iput(s) \/ \E by \in {-1, 1} : Relink(s, by)
  \/ CallIalloc \/ Ialloc
  \/ Update \/ Crash

Spec == Init /\ [][Next]_vars

(* The one thread runs a call of ialloc to its end. *)
FairSpec == Spec /\ WF_vars(Ialloc)

-----------------------------------------------------------------------------
(* Properties.                                                             *)

TypeOK ==
  /\ kernel \in Kernels
  /\ number \in [Slots -> Inos \union {0}]
  /\ count \in [Slots -> 0 .. MaxRefs + 1]
  /\ used \in [Slots -> BOOLEAN]
  /\ nlink \in [Slots -> 0 .. MaxLinks]
  /\ updated \in [Slots -> BOOLEAN]
  /\ Caches => ToSet(ifree) = Spare /\ Len(ifree) = Cardinality(Spare)
  /\ dinode \in [Inos -> Dinodes]
  /\ \A list \in {s_inode, super.s_inode} :
       list \in Seq(Inos \union {0}) /\ Len(list) <= NICINOD
  /\ s_lasti \in Inos /\ s_nbehind \in 0 .. Behind
  /\ s_tinode \in Int /\ super.s_tinode \in Int
  /\ s_fmod \in BOOLEAN /\ calling \in BOOLEAN
  /\ links \in [Inos -> 0 .. MaxLinks]
  /\ answer \in Inos \union {ENOSPC, ENFILE, NONE}
  /\ happened \subseteq MayHappen[kernel]

(* inode.h: "An inode is 'named' by its dev/inumber pair": no inode has    *)
(* two slots, which would be changed and written independently.            *)
OneSlotPerInode ==
  \A s, t \in Slots : number[s] = number[t] /\ number[s] # 0 => s = t

(* V6's iput of stale fields, after iget's read error *)
StaleIput == kernel = "v6" /\ "read error" \in happened

(* A file that a directory names is not freed, in core or on disk.  Its    *)
(* links are those of its slot, or of the disk when it has no slot.  (After *)
(* a read error in V6's iget this is false: iput frees the inode that iget *)
(* was asked for when the one before it in the slot had no links.)         *)
LinkedIsKept ==
  ~StaleIput => \A i \in Inos : links[i] > 0 =>
    IF InCore(i) THEN used[SlotOf(i)] /\ nlink[SlotOf(i)] = links[i]
    ELSE dinode[i] = [used |-> TRUE, nlink |-> links[i]]

(* A file that no directory names and nobody holds is free: its inode can  *)
(* be allocated again.  (After a crash, one that was removed while open is *)
(* left to fsck; V6's read error may write stale fields.)  And the BSDs,   *)
(* whose statvfs believes the count, count every free inode, however       *)
(* ialloc, ifree and failures came together.  (2.11BSD's read error frees  *)
(* an inode 0.)                                                            *)
FreeIsCounted ==
  happened \subseteq {"read error"} /\ ~StaleIput =>
    /\ \A i \in Inos :
         links[i] = 0 /\ (InCore(i) => count[SlotOf(i)] = 0) => ~IsTaken(i)
    /\ BSD /\ (Caches => happened = {}) => s_tinode = Cardinality({i \in Inos : ~IsTaken(i)})

(* ialloc never hands out an inode that is named or held, however stale    *)
(* the superblock's list is after a crash, and whatever it holds twice.    *)
(* (V6's read error may have freed an inode with links.)                   *)
HandsOutFreeOnly ==
  [][\A i \in Inos : answer' = i /\ ~StaleIput =>
        links[i] = 0 /\ (InCore(i) => count[SlotOf(i)] = 0) /\ ~dinode[i].used]_vars

(* ialloc gives up only when there is no free inode: wherever the list,    *)
(* s_lasti and s_nbehind have come, it has looked everywhere.  (2.11BSD    *)
(* does not look at a free inode that a slot still stands for.)            *)
GivesUpOnlyWhenFull ==
  [][answer' = ENOSPC => \A i \in Inos : dinode[i].used \/ InCore(i)]_vars

(* Every call of ialloc returns: a refill does not bring back the inodes   *)
(* that iget has just refused.  (No call goes on for ever: again and again *)
(* none is running.)                                                       *)
IallocReturns == []<>~calling
=============================================================================
