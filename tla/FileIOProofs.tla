---------------------------- MODULE FileIOProofs -----------------------------
(***************************************************************************)
(* Proofs about open files, for every number of inodes, descriptors and    *)
(* blocks and every size of a block: no call, however it ends, loses a     *)
(* block or an inode, or gives one away twice; and the calls are those of  *)
(* a FileStore, in which a file is a sequence of bytes.                    *)
(***************************************************************************)
EXTENDS FileIO, ListFacts, FiniteSetTheorems

Addrs == [Bns -> Blocks \union {0}]

Inodes == [used : BOOLEAN, nlink : Nat, count : Nat, size : Nat, addr : Addrs]

Calls == [stage : {"idle", "rw", "done"}, op : {"none", "read", "write"}, fd : FDs,
          left : Nat, count : Nat, f_offset : Nat, offset : Nat, byte : Nat,
          got : Seq(Nat), ok : BOOLEAN, before : Seq(Nat), at : Nat]

Contents == [0 .. BSIZE - 1 -> Nat]

Typed ==
  /\ kernel \in Kernels
  /\ name \in [Names -> Inos \union {0}]
  /\ inode \in [Inos -> Inodes]
  /\ data \in [Blocks -> Contents]
  /\ avail \subseteq Blocks
  /\ ofile \in [FDs -> {Closed} \union [ino : Inos, flag : Flags]]
  /\ call \in Calls

(* Whoever reads or writes has a descriptor, and the loop over blocks      *)
(* moves no more than the loop over chunks has left.                       *)
Runs(c) ==
  c.stage = "rw" =>
    /\ ofile[c.fd] # Closed
    /\ c.f_offset <= c.offset
    /\ (c.offset - c.f_offset) + c.count <= c.left

CallShape == Runs(call)

(* A file with a name has that one, and its link for it. *)
NamesLinked ==
  \A n \in Names :
    name[n] # 0 => /\ inode[name[n]].nlink = 1
                   /\ \A m \in Names : name[m] = name[n] => m = n

Inv == Typed /\ CallShape /\ NamesLinked /\ HeldByDescriptors /\ BlocksOwnedOnce

-----------------------------------------------------------------------------
(* Numbers.                                                                *)
LEMMA Sizes ==
  /\ NOFILE \in Nat /\ NOFILE > 0 /\ BSIZE \in Nat /\ BSIZE > 0
  /\ BnRange \in Nat /\ MaxBlocks \in Nat /\ MaxBlocks > 0 /\ BnRange > 0
  /\ Chunk \in Nat /\ Chunk > 0 /\ MaxCount \in Nat /\ MaxSeek \in Nat
BY FileIOAssumption

LEMMA Divided ==
  ASSUME NEW a \in Nat, NEW d \in Nat, d > 0
  PROVE  /\ a \div d \in Nat /\ a % d \in Nat /\ a % d < d
         /\ a \div d <= a
OBVIOUS

LEMMA Smaller ==
  ASSUME NEW a \in Nat, NEW b \in Nat
  PROVE  /\ Min({a, b}) \in Nat /\ Min({a, b}) <= a /\ Min({a, b}) <= b
         /\ Min({a, b}) = a \/ Min({a, b}) = b
BY DEF Min

LEMMA Larger ==
  ASSUME NEW a \in Nat, NEW b \in Nat
  PROVE  Max({a, b}) \in Nat /\ Max({a, b}) >= a /\ Max({a, b}) >= b
BY DEF Max

(* Every block number bmap lets through is one of the file's. *)
LEMMA BnsReach ==
  /\ BnRange \div 2 \in Nat
  /\ \A bn \in Nat : bn < BnRange \div 2 \/ bn < MaxBlocks => bn \in Bns
<1>1. BnRange \div 2 \in Nat
  BY Sizes, Divided
<1>2. Max({BnRange \div 2, MaxBlocks}) \in Nat
      /\ Max({BnRange \div 2, MaxBlocks}) >= BnRange \div 2
      /\ Max({BnRange \div 2, MaxBlocks}) >= MaxBlocks
  BY <1>1, Sizes, Larger
<1> QED BY <1>1, <1>2, Sizes DEF Bns

-----------------------------------------------------------------------------
(* Who owns the blocks.                                                    *)


(* The blocks owned once, block by block. *)
Owned ==
  /\ \A b \in Blocks : b \in avail <=> \A i \in Inos, a \in Bns : inode[i].addr[a] # b
  /\ \A i, j \in Inos, a, b \in Bns :
       inode[i].addr[a] # 0 /\ inode[i].addr[a] = inode[j].addr[b] => i = j /\ a = b

LEMMA InBlocks ==
  ASSUME NEW r \in Inodes
  PROVE  /\ r.addr \in Addrs
         /\ BlocksOf(r) \subseteq Blocks
         /\ \A b : b \in BlocksOf(r) <=> b # 0 /\ \E a \in Bns : r.addr[a] = b
<1>1. r.addr \in Addrs
  BY DEF Inodes
<1>2. \A b : b \in Range(r.addr) <=> \E a \in Bns : r.addr[a] = b
  BY <1>1 DEF Addrs, Range
<1> QED BY <1>1, <1>2 DEF BlocksOf, Addrs

LEMMA OwnedSets ==
  ASSUME NEW I \in [Inos -> Inodes], NEW A \in SUBSET Blocks
  PROVE  A = Blocks \ UNION {BlocksOf(I[i]) : i \in Inos}
         <=> \A b \in Blocks : b \in A <=> \A i \in Inos, a \in Bns : I[i].addr[a] # b
<1>1. \A i \in Inos, b \in Blocks :
        b \in BlocksOf(I[i]) <=> \E a \in Bns : I[i].addr[a] = b
  BY InBlocks, FileIOAssumption
<1>2. A = Blocks \ UNION {BlocksOf(I[i]) : i \in Inos}
      <=> \A b \in Blocks : b \in A <=> \A i \in Inos : b \notin BlocksOf(I[i])
  OBVIOUS
<1> QED BY <1>1, <1>2

(* Only the map of file i changes, to blocks it had or that were free, and *)
(* the blocks it has no more are free. *)
Remaps(i) ==
  /\ \A j \in Inos : j # i => inode'[j].addr = inode[j].addr
  /\ \A a \in Bns : inode'[i].addr[a] # 0
       => inode'[i].addr[a] = inode[i].addr[a] \/ inode'[i].addr[a] \in avail
  /\ \A a, b \in Bns : inode'[i].addr[a] # 0 /\ inode'[i].addr[a] = inode'[i].addr[b]
       => a = b
  /\ avail' = (avail \union BlocksOf(inode[i])) \ BlocksOf(inode'[i])

LEMMA RemapsOwned ==
  ASSUME inode \in [Inos -> Inodes], avail \subseteq Blocks, BlocksOwnedOnce,
         inode' \in [Inos -> Inodes], NEW i \in Inos, Remaps(i)
  PROVE  avail' \subseteq Blocks /\ BlocksOwnedOnce'
<1>0. 0 \notin Blocks
  BY FileIOAssumption
<1>1. Owned
  <2>1. avail = Blocks \ UNION {BlocksOf(inode[j]) : j \in Inos}
    BY Zenon DEF BlocksOwnedOnce
  <2>2. \A b \in Blocks : b \in avail <=> \A j \in Inos, a \in Bns : inode[j].addr[a] # b
    <3> DEFINE Says(I, A) ==
                 A = Blocks \ UNION {BlocksOf(I[j]) : j \in Inos}
                 <=> \A b \in Blocks : b \in A <=> \A j \in Inos, a \in Bns : I[j].addr[a] # b
    <3>1. \A I \in [Inos -> Inodes], A \in SUBSET Blocks : Says(I, A)
      BY OwnedSets, Zenon
    <3> HIDE DEF Says
    <3>2. Says(inode, avail)
      BY <3>1, SMT
    <3> QED BY <3>2, <2>1, Zenon DEF Says
  <2> QED BY <2>2 DEF Owned, BlocksOwnedOnce
<1>10. \A j, k \in Inos : \A a, b \in Bns :
        inode[j].addr[a] # 0 /\ inode[j].addr[a] = inode[k].addr[b] => j = k /\ a = b
  BY Zenon DEF BlocksOwnedOnce
<1>2. \A b \in Blocks : b \in BlocksOf(inode[i]) <=> \E a \in Bns : inode[i].addr[a] = b
  BY InBlocks, <1>0
<1>3. \A b \in Blocks : b \in BlocksOf(inode'[i]) <=> \E a \in Bns : inode'[i].addr[a] = b
  BY InBlocks, <1>0
<1>4. avail' \subseteq Blocks
  BY InBlocks DEF Remaps
<1>5. \A j \in Inos, a \in Bns : inode[j].addr[a] \in Blocks \union {0}
                                 /\ inode'[j].addr[a] \in Blocks \union {0}
  BY DEF Inodes, Addrs
<1>6. ASSUME NEW b \in Blocks
      PROVE  b \in avail' <=> \A j \in Inos, a \in Bns : inode'[j].addr[a] # b
  <2>1. CASE b \in avail'
    <3>1. b \notin BlocksOf(inode'[i]) /\ (b \in avail \/ b \in BlocksOf(inode[i]))
      BY <2>1 DEF Remaps
    <3>2. ASSUME NEW j \in Inos, NEW a \in Bns PROVE inode'[j].addr[a] # b
      <4>1. CASE j = i
        BY <4>1, <3>1, <1>3
      <4>2. CASE j # i
        <5>1. inode'[j].addr[a] = inode[j].addr[a]
          BY <4>2 DEF Remaps
        <5>2. inode[j].addr[a] # b
          BY <3>1, <1>1, <1>2, <1>0, <4>2 DEF Owned
        <5> QED BY <5>1, <5>2
      <4> QED BY <4>1, <4>2
    <3> QED BY <3>2, <2>1
  <2>2. CASE b \notin avail'
    <3>1. CASE b \in BlocksOf(inode'[i])
      BY <3>1, <1>3, <2>2
    <3>2. CASE b \notin BlocksOf(inode'[i])
      <4>1. b \notin avail /\ b \notin BlocksOf(inode[i])
        BY <2>2, <3>2 DEF Remaps
      <4>2. PICK j \in Inos, a \in Bns : inode[j].addr[a] = b
        BY <4>1, <1>1 DEF Owned
      <4>3. j # i
        BY <4>1, <4>2, <1>2
      <4>4. inode'[j].addr[a] = b
        BY <4>2, <4>3 DEF Remaps
      <4> QED BY <4>4, <2>2
    <3> QED BY <3>1, <3>2
  <2> QED BY <2>1, <2>2
<1>7. ASSUME NEW j \in Inos, NEW k \in Inos, NEW a \in Bns, NEW b \in Bns,
             inode'[j].addr[a] # 0, inode'[j].addr[a] = inode'[k].addr[b]
      PROVE  j = k /\ a = b
  <2>1. CASE j = i /\ k = i
    BY <2>1, <1>7 DEF Remaps
  <2>2. CASE j # i /\ k # i
    BY <2>2, <1>7, <1>1 DEF Remaps, Owned
  <2>3. CASE j = i /\ k # i
    <3>1. inode'[k].addr[b] = inode[k].addr[b]
      BY <2>3 DEF Remaps
    <3>2. inode'[i].addr[a] = inode[i].addr[a] \/ inode'[i].addr[a] \in avail
      BY <2>3, <1>7 DEF Remaps
    <3> QED BY <3>1, <3>2, <2>3, <1>7, <1>1, <1>5 DEF Owned
  <2>4. CASE j # i /\ k = i
    <3>1. inode'[j].addr[a] = inode[j].addr[a]
      BY <2>4 DEF Remaps
    <3>2. inode'[i].addr[b] = inode[i].addr[b] \/ inode'[i].addr[b] \in avail
      BY <2>4, <1>7 DEF Remaps
    <3>3. inode'[i].addr[b] # inode[i].addr[b]
      <4> SUFFICES ASSUME inode'[i].addr[b] = inode[i].addr[b] PROVE FALSE
        OBVIOUS
      <4>1. inode[j].addr[a] # 0 /\ inode[j].addr[a] = inode[i].addr[b]
        BY <3>1, <2>4, <1>7
      <4>2. j = i
        BY <1>10, <4>1
      <4> QED BY <4>2, <2>4
    <3>4. inode[j].addr[a] \in avail
      BY <3>1, <3>2, <3>3, <2>4, <1>7
    <3> QED BY <3>4, <1>1 DEF Owned
  <2> QED BY <2>1, <2>2, <2>3, <2>4
<1>8. Owned'
  BY <1>6, <1>7 DEF Owned
<1>9. avail' = Blocks \ UNION {BlocksOf(inode'[j]) : j \in Inos}
  BY <1>8, <1>4, OwnedSets DEF Owned
<1> QED BY <1>4, <1>8, <1>9 DEF BlocksOwnedOnce, Owned

(* The maps and the free blocks stay as they are. *)
SameMaps ==
  avail' = avail /\ \A j \in Inos : inode'[j].addr = inode[j].addr

LEMMA SameMapsOwned ==
  ASSUME BlocksOwnedOnce, SameMaps
  PROVE  BlocksOwnedOnce'
<1>1. \A j \in Inos : BlocksOf(inode'[j]) = BlocksOf(inode[j])
  BY DEF SameMaps, BlocksOf
<1>2. UNION {BlocksOf(inode'[j]) : j \in Inos} = UNION {BlocksOf(inode[j]) : j \in Inos}
  BY <1>1
<1>3. avail' = Blocks \ UNION {BlocksOf(inode'[j]) : j \in Inos}
  BY <1>2 DEF SameMaps, BlocksOwnedOnce
<1>4. \A i, j \in Inos, a, b \in Bns :
        inode'[i].addr[a] # 0 /\ inode'[i].addr[a] = inode'[j].addr[b] => i = j /\ a = b
  BY DEF SameMaps, BlocksOwnedOnce
<1> QED BY <1>3, <1>4 DEF BlocksOwnedOnce

(* A file owns no block that is free. *)
LEMMA OwnedNotFree ==
  ASSUME BlocksOwnedOnce, NEW i \in Inos
  PROVE  BlocksOf(inode[i]) \intersect avail = {}
BY DEF BlocksOwnedOnce

(* File i loses all its blocks. *)
Empties(i) ==
  /\ \A j \in Inos : j # i => inode'[j].addr = inode[j].addr
  /\ inode'[i].addr = NoBlocks
  /\ avail' = avail \union BlocksOf(inode[i])

LEMMA NothingOwned ==
  ASSUME NEW r, r.addr = NoBlocks
  PROVE  BlocksOf(r) = {} /\ \A a \in Bns : r.addr[a] = 0
BY DEF BlocksOf, Range, NoBlocks

LEMMA EmptiesOwned ==
  ASSUME inode \in [Inos -> Inodes], avail \subseteq Blocks, BlocksOwnedOnce,
         inode' \in [Inos -> Inodes], NEW i \in Inos, Empties(i)
  PROVE  avail' \subseteq Blocks /\ BlocksOwnedOnce'
<1>1. BlocksOf(inode'[i]) = {} /\ \A a \in Bns : inode'[i].addr[a] = 0
  BY NothingOwned DEF Empties
<1>2. Remaps(i)
  BY <1>1 DEF Empties, Remaps
<1> QED BY <1>2, RemapsOwned

(* File i gets the free block b at a, where it had none. *)
GivenBlock(i, a, b) ==
  /\ \A j \in Inos : j # i => inode'[j].addr = inode[j].addr
  /\ inode[i].addr[a] = 0
  /\ inode'[i].addr = [inode[i].addr EXCEPT ![a] = b]
  /\ avail' = avail \ {b}

LEMMA GivenOwned ==
  ASSUME inode \in [Inos -> Inodes], avail \subseteq Blocks, BlocksOwnedOnce,
         inode' \in [Inos -> Inodes], NEW i \in Inos, NEW a \in Bns, NEW b \in avail,
         GivenBlock(i, a, b)
  PROVE  avail' \subseteq Blocks /\ BlocksOwnedOnce'
<1>0. 0 \notin Blocks /\ b \in Blocks /\ b # 0
  BY FileIOAssumption
<1>1. inode[i] \in Inodes /\ inode[i].addr \in [Bns -> Blocks \union {0}]
  BY DEF Inodes, Addrs
<1>2. \A c \in Bns : inode'[i].addr[c] = IF c = a THEN b ELSE inode[i].addr[c]
  BY <1>1 DEF GivenBlock
<1>3. \A c : c \in BlocksOf(inode[i]) <=> c # 0 /\ \E d \in Bns : inode[i].addr[d] = c
  BY <1>1, InBlocks
<1>4. \A c : c \in BlocksOf(inode'[i]) <=> c # 0 /\ \E d \in Bns : inode'[i].addr[d] = c
  BY InBlocks
<1>5. BlocksOf(inode[i]) \intersect avail = {}
  BY OwnedNotFree
<1>6. \A c : c \in BlocksOf(inode'[i]) <=> c = b \/ c \in BlocksOf(inode[i])
  <2>1. ASSUME NEW c, c \in BlocksOf(inode[i]) PROVE c \in BlocksOf(inode'[i])
    <3>1. PICK d \in Bns : inode[i].addr[d] = c /\ c # 0
      BY <2>1, <1>3
    <3>2. d # a
      BY <3>1 DEF GivenBlock
    <3>3. inode'[i].addr[d] = c
      BY <3>1, <3>2, <1>2
    <3> QED BY <3>1, <3>3, <1>4
  <2>2. b \in BlocksOf(inode'[i])
    BY <1>0, <1>2, <1>4
  <2>3. ASSUME NEW c, c \in BlocksOf(inode'[i]), c # b PROVE c \in BlocksOf(inode[i])
    BY <2>3, <1>2, <1>3, <1>4
  <2> QED BY <2>1, <2>2, <2>3
<1>7. avail' = (avail \union BlocksOf(inode[i])) \ BlocksOf(inode'[i])
  BY <1>5, <1>6 DEF GivenBlock
<1>8. \A c \in Bns : inode'[i].addr[c] # 0
        => inode'[i].addr[c] = inode[i].addr[c] \/ inode'[i].addr[c] \in avail
  BY <1>2
<1>9. \A c, d \in Bns : inode'[i].addr[c] # 0 /\ inode'[i].addr[c] = inode'[i].addr[d]
        => c = d
  <2>1. \A c \in Bns : inode[i].addr[c] # b
    BY <1>0, <1>3, <1>5
  <2>2. \A c, d \in Bns : inode[i].addr[c] # 0 /\ inode[i].addr[c] = inode[i].addr[d]
          => c = d
    BY DEF BlocksOwnedOnce
  <2> QED BY <2>1, <2>2, <1>2
<1>10. Remaps(i)
  BY <1>7, <1>8, <1>9 DEF Remaps, GivenBlock
<1> QED BY <1>10, RemapsOwned

-----------------------------------------------------------------------------
(* Who holds the inodes.                                                   *)
Holders(i) == {fd \in FDs : ofile[fd].ino = i}

LEMMA HoldersFinite ==
  ASSUME NEW i
  PROVE  IsFiniteSet(Holders(i)) /\ IsFiniteSet(Holders(i)')
<1>1. IsFiniteSet(FDs)
  BY Sizes, FS_Interval DEF FDs
<1>2. Holders(i) \subseteq FDs /\ Holders(i)' \subseteq FDs
  BY DEF Holders
<1> QED BY <1>1, <1>2, FS_Subset

SameRefs(j) ==
  /\ inode'[j].used = inode[j].used /\ inode'[j].nlink = inode[j].nlink
  /\ inode'[j].count = inode[j].count

LEMMA RefsKept ==
  ASSUME HeldByDescriptors, NamesLinked, UNCHANGED <<ofile, name>>,
         name \in [Names -> Inos \union {0}], \A j \in Inos : SameRefs(j)
  PROVE  HeldByDescriptors' /\ NamesLinked'
BY DEF HeldByDescriptors, NamesLinked, SameRefs

(* Descriptor fd is opened on a file that has a name. *)
Opens(fd, i, flag) ==
  /\ ofile' = [ofile EXCEPT ![fd] = [ino |-> i, flag |-> flag]]
  /\ \A j \in Inos : j # i => SameRefs(j)
  /\ inode'[i].used = inode[i].used /\ inode'[i].nlink = inode[i].nlink
  /\ inode'[i].count = inode[i].count + 1

LEMMA OpensHeld ==
  ASSUME Typed, HeldByDescriptors, NEW fd \in FDs, NEW i \in Inos, NEW flag,
         ofile[fd] = Closed, inode[i].nlink > 0, Opens(fd, i, flag)
  PROVE  HeldByDescriptors'
<1>0. ofile[fd].ino = 0 /\ 0 \notin Inos
  BY FileIOAssumption DEF Closed
<1>1. ofile'[fd].ino = i /\ \A f \in FDs : f # fd => ofile'[f].ino = ofile[f].ino
  BY DEF Opens, Typed
<1>2. Holders(i)' = Holders(i) \union {fd} /\ fd \notin Holders(i)
  BY <1>0, <1>1 DEF Holders
<1>3. Cardinality(Holders(i)') = Cardinality(Holders(i)) + 1
  BY <1>2, HoldersFinite, FS_AddElement
<1>4. \A j \in Inos : j # i => Holders(j)' = Holders(j)
  BY <1>0, <1>1 DEF Holders
<1>5. \A j \in Inos : inode[j].count = Cardinality(Holders(j))
                      /\ (inode[j].used <=> inode[j].nlink > 0 \/ inode[j].count > 0)
  BY DEF HeldByDescriptors, Holders
<1>6. \A j \in Inos : inode'[j].count = Cardinality(Holders(j)')
  BY <1>3, <1>4, <1>5 DEF Opens, SameRefs
<1>7. \A j \in Inos : inode'[j].used <=> inode'[j].nlink > 0 \/ inode'[j].count > 0
  BY <1>5 DEF Opens, SameRefs
<1> QED BY <1>6, <1>7 DEF HeldByDescriptors, Holders

(* Descriptor fd of file i is closed, and i kept as long as it has links   *)
(* or other holders.                                                       *)
Closes(fd, i) ==
  /\ ofile' = [ofile EXCEPT ![fd] = Closed]
  /\ \A j \in Inos : j # i => SameRefs(j)
  /\ inode'[i].nlink = inode[i].nlink
  /\ inode'[i].count = inode[i].count - 1
  /\ inode'[i].used <=> inode'[i].nlink > 0 \/ inode'[i].count > 0

LEMMA ClosesHeld ==
  ASSUME Typed, HeldByDescriptors, NEW fd \in FDs, NEW i \in Inos,
         ofile[fd].ino = i, Closes(fd, i)
  PROVE  HeldByDescriptors'
<1>0. 0 \notin Inos
  BY FileIOAssumption
<1>1. ofile'[fd].ino = 0 /\ \A f \in FDs : f # fd => ofile'[f].ino = ofile[f].ino
  BY DEF Closes, Typed, Closed
<1>2. Holders(i)' = Holders(i) \ {fd} /\ fd \in Holders(i)
  BY <1>0, <1>1 DEF Holders
<1>3. Cardinality(Holders(i)') = Cardinality(Holders(i)) - 1
  BY <1>2, HoldersFinite, FS_RemoveElement
<1>4. \A j \in Inos : j # i => Holders(j)' = Holders(j)
  BY <1>0, <1>1 DEF Holders
<1>5. \A j \in Inos : inode[j].count = Cardinality(Holders(j))
                      /\ (inode[j].used <=> inode[j].nlink > 0 \/ inode[j].count > 0)
  BY DEF HeldByDescriptors, Holders
<1>6. \A j \in Inos : inode'[j].count = Cardinality(Holders(j)')
  BY <1>3, <1>4, <1>5 DEF Closes, SameRefs
<1>7. \A j \in Inos : inode'[j].used <=> inode'[j].nlink > 0 \/ inode'[j].count > 0
  BY <1>5 DEF Closes, SameRefs
<1> QED BY <1>6, <1>7 DEF HeldByDescriptors, Holders

(* A file that somebody has open is held. *)
LEMMA OpenIsHeld ==
  ASSUME Typed, HeldByDescriptors, NEW fd \in FDs, NEW i \in Inos, ofile[fd].ino = i
  PROVE  inode[i].count > 0
<1>1. fd \in Holders(i)
  BY DEF Holders
<1>2. Cardinality(Holders(i)) # 0 /\ Cardinality(Holders(i)) \in Nat
  BY <1>1, HoldersFinite, FS_EmptySet, FS_CardinalityType
<1> QED BY <1>2 DEF HeldByDescriptors, Holders

LEMMA LowestUnused ==
  ASSUME Unused # {}
  PROVE  Min(Unused) \in FDs /\ ofile[Min(Unused)] = Closed
<1>1. Unused \subseteq Nat
  BY Sizes DEF Unused, FDs
<1> QED BY <1>1, LeastNatural DEF Unused, Min

-----------------------------------------------------------------------------
(* The calls on names and descriptors.                                     *)
LEMMA FreshInodes ==
  /\ NoBlocks \in Addrs /\ FreeInode \in Inodes
  /\ \A r \in Inodes : Trunc(r) \in Inodes
<1>1. NoBlocks \in Addrs
  BY DEF NoBlocks, Addrs
<1> QED BY <1>1 DEF FreeInode, Inodes, Trunc

(* What is left of an inode of which one field is set. *)
LEMMA CountSet ==
  ASSUME NEW r \in Inodes, NEW c \in Nat
  PROVE  LET q == [r EXCEPT !.count = c] IN
           /\ q \in Inodes /\ q.count = c
           /\ q.used = r.used /\ q.nlink = r.nlink /\ q.size = r.size /\ q.addr = r.addr
BY DEF Inodes

LEMMA LinkSet ==
  ASSUME NEW r \in Inodes, NEW c \in Nat
  PROVE  LET q == [r EXCEPT !.nlink = c] IN
           /\ q \in Inodes /\ q.nlink = c
           /\ q.used = r.used /\ q.count = r.count /\ q.size = r.size /\ q.addr = r.addr
BY DEF Inodes

LEMMA UsedSet ==
  ASSUME NEW r \in Inodes
  PROVE  LET q == [r EXCEPT !.used = TRUE] IN
           /\ q \in Inodes /\ q.used
           /\ q.nlink = r.nlink /\ q.count = r.count /\ q.size = r.size /\ q.addr = r.addr
BY DEF Inodes

LEMMA SizeSet ==
  ASSUME NEW r \in Inodes, NEW c \in Nat
  PROVE  LET q == [r EXCEPT !.size = c] IN
           /\ q \in Inodes /\ q.size = c
           /\ q.used = r.used /\ q.count = r.count /\ q.nlink = r.nlink /\ q.addr = r.addr
BY DEF Inodes

LEMMA AddrSet ==
  ASSUME NEW r \in Inodes, NEW c \in Addrs
  PROVE  LET q == [r EXCEPT !.addr = c] IN
           /\ q \in Inodes /\ q.addr = c
           /\ q.used = r.used /\ q.count = r.count /\ q.nlink = r.nlink /\ q.size = r.size
BY DEF Inodes

LEMMA IputDoes ==
  ASSUME NEW I \in [Inos -> Inodes], NEW A, NEW i \in Inos,
         I[i].count > 0, Iput(I, A, i)
  PROVE  /\ inode' \in [Inos -> Inodes]
         /\ \A j \in Inos : j # i => inode'[j] = I[j]
         /\ \/ /\ I[i].count = 1 /\ I[i].nlink = 0
               /\ inode'[i] = FreeInode /\ avail' = A \union BlocksOf(I[i])
            \/ /\ I[i].count > 1 \/ I[i].nlink > 0
               /\ inode'[i] = [I[i] EXCEPT !.count = I[i].count - 1] /\ avail' = A
<1>1. I[i] \in Inodes /\ I[i].count \in Nat /\ I[i].nlink \in Nat
  BY DEF Inodes
<1>2. CASE I[i].count = 1 /\ I[i].nlink <= 0
  <2>1. inode' = [I EXCEPT ![i] = FreeInode] /\ avail' = A \union BlocksOf(I[i])
    BY <1>2 DEF Iput
  <2> QED BY <2>1, <1>1, <1>2, FreshInodes
<1>3. CASE ~(I[i].count = 1 /\ I[i].nlink <= 0)
  <2>1. inode' = [I EXCEPT ![i].count = I[i].count - 1] /\ avail' = A
    BY <1>3 DEF Iput
  <2>2. [I[i] EXCEPT !.count = I[i].count - 1] \in Inodes
    BY <1>1 DEF Inodes
  <2>3. inode'[i] = [I[i] EXCEPT !.count = I[i].count - 1]
    BY <2>1
  <2>4. inode' \in [Inos -> Inodes]
    BY <2>1, <2>2
  <2> QED BY <2>1, <2>3, <2>4, <1>1, <1>3
<1> QED BY <1>2, <1>3

LEMMA IgetDoes ==
  ASSUME inode \in [Inos -> Inodes], NEW i \in Inos
  PROVE  /\ Iget(i) \in [Inos -> Inodes]
         /\ \A j \in Inos : j # i => Iget(i)[j] = inode[j]
         /\ Iget(i)[i].count = inode[i].count + 1
         /\ Iget(i)[i].nlink = inode[i].nlink /\ Iget(i)[i].used = inode[i].used
         /\ Iget(i)[i].addr = inode[i].addr
<1>1. inode[i] \in Inodes /\ inode[i].count + 1 \in Nat
  BY DEF Inodes
<1>2. PICK r \in Inodes : r = [inode[i] EXCEPT !.count = inode[i].count + 1]
  BY <1>1, CountSet
<1>3. Iget(i) = [inode EXCEPT ![i] = r]
  BY <1>2 DEF Iget
<1>4. r.count = inode[i].count + 1 /\ r.nlink = inode[i].nlink
      /\ r.used = inode[i].used /\ r.addr = inode[i].addr
  BY <1>1, <1>2, CountSet
<1> QED BY <1>3, <1>4

(* What a call on names or descriptors leaves. *)
Kept == Typed' /\ NamesLinked' /\ HeldByDescriptors' /\ BlocksOwnedOnce'

LEMMA MknodKeeps ==
  ASSUME Inv, NEW n \in Names, NEW i \in Inos, Mknod(n, i)
  PROVE  Kept
<1>1. Typed /\ NamesLinked /\ HeldByDescriptors /\ BlocksOwnedOnce
  BY DEF Inv
<1>2. /\ inode[i] \in Inodes /\ ~inode[i].used
      /\ inode' = [inode EXCEPT ![i] = [inode[i] EXCEPT !.used = TRUE, !.nlink = 1]]
      /\ name' = [name EXCEPT ![n] = i]
      /\ UNCHANGED <<kernel, data, avail, ofile, call>>
  BY <1>1 DEF Mknod, Typed
<1>3. inode'[i] = [inode[i] EXCEPT !.used = TRUE, !.nlink = 1]
      /\ \A j \in Inos : j # i => inode'[j] = inode[j]
  BY <1>1, <1>2 DEF Typed
<1>4. inode'[i].used /\ inode'[i].nlink = 1 /\ inode'[i].count = inode[i].count
      /\ inode'[i].addr = inode[i].addr /\ inode'[i] \in Inodes
  <2>1. PICK q \in Inodes : q = [inode[i] EXCEPT !.used = TRUE]
    BY <1>2, UsedSet
  <2>2. inode'[i] = [q EXCEPT !.nlink = 1]
    BY <1>3, <2>1
  <2>3. q.used /\ q.count = inode[i].count /\ q.addr = inode[i].addr
    BY <1>2, <2>1, UsedSet
  <2> QED BY <2>2, <2>3, LinkSet
<1>5. inode[i].nlink = 0 /\ inode[i].count = 0
  <2>1. inode[i].nlink \in Nat /\ inode[i].count \in Nat
    BY <1>2 DEF Inodes
  <2>2. ~(inode[i].nlink > 0 \/ inode[i].count > 0)
    BY <1>1, <1>2, Zenon DEF HeldByDescriptors
  <2> QED BY <2>1, <2>2
<1>6. Typed'
  BY <1>1, <1>2, <1>4 DEF Typed
<1>7. NamesLinked'
  <2>1. \A m \in Names : name[m] # i
    BY <1>1, <1>5, FileIOAssumption DEF NamesLinked
  <2>2. \A m \in Names : name'[m] = IF m = n THEN i ELSE name[m]
    BY <1>1, <1>2 DEF Typed
  <2>3. \A m \in Names : name[m] # 0 => name[m] \in Inos
    BY <1>1 DEF Typed
  <2>4. \A m, l \in Names : name[m] # 0 /\ name[l] = name[m] => l = m
    BY <1>1 DEF NamesLinked
  <2>5. \A m \in Names : name[m] # 0 => inode'[name[m]].nlink = 1
    BY <2>1, <2>3, <1>1, <1>3 DEF NamesLinked
  <2>6. \A m \in Names : name'[m] # 0 => inode'[name'[m]].nlink = 1
    BY <2>2, <2>5, <1>4
  <2>7. \A m, l \in Names : name'[m] # 0 /\ name'[l] = name'[m] => l = m
    BY <2>1, <2>2, <2>4
  <2> QED BY <2>6, <2>7 DEF NamesLinked
<1>8. HeldByDescriptors'
  <2>1. \A j \in Inos : inode'[j].count = inode[j].count
    BY <1>3, <1>4
  <2> QED BY <2>1, <1>1, <1>2, <1>3, <1>4 DEF HeldByDescriptors
<1>9. SameMaps
  BY <1>2, <1>3, <1>4 DEF SameMaps
<1> QED BY <1>1, <1>6, <1>7, <1>8, <1>9, SameMapsOwned DEF Kept

(* The inode of a name, with one more reference for the call. *)
LEMMA Named ==
  ASSUME Inv, NEW n \in Names, name[n] # 0
  PROVE  /\ name[n] \in Inos /\ inode[name[n]] \in Inodes
         /\ inode[name[n]].nlink = 1 /\ inode[name[n]].used
         /\ inode[name[n]].count \in Nat
         /\ \A m \in Names : name[m] = name[n] => m = n
<1>1. name[n] \in Inos
  BY DEF Inv, Typed
<1>2. inode[name[n]] \in Inodes
  BY <1>1 DEF Inv, Typed
<1>3. inode[name[n]].nlink = 1 /\ \A m \in Names : name[m] = name[n] => m = n
  BY DEF Inv, NamesLinked
<1>4. inode[name[n]].nlink > 0
  BY <1>3
<1>5. inode[name[n]].used
  BY <1>1, <1>4, Zenon DEF Inv, HeldByDescriptors
<1> QED BY <1>1, <1>2, <1>3, <1>5 DEF Inodes

LEMMA UnlinkKeeps ==
  ASSUME Inv, NEW n \in Names, Unlink(n)
  PROVE  Kept
<1>1. Typed /\ NamesLinked /\ HeldByDescriptors /\ BlocksOwnedOnce
  BY DEF Inv
<1>2. name[n] # 0
  BY DEF Unlink
<1> DEFINE i == name[n]
           I == [Iget(i) EXCEPT ![i].nlink = @ - 1]
<1>3. /\ i \in Inos /\ inode[i] \in Inodes /\ inode[i].nlink = 1 /\ inode[i].used
      /\ inode[i].count \in Nat /\ \A m \in Names : name[m] = i => m = n
  BY <1>2, Named
<1>4. /\ name' = [name EXCEPT ![n] = 0] /\ Iput(I, avail, i)
      /\ UNCHANGED <<kernel, data, ofile, call>>
  BY DEF Unlink
<1>5. /\ I \in [Inos -> Inodes] /\ I[i].count = inode[i].count + 1 /\ I[i].nlink = 0
      /\ I[i].used = inode[i].used /\ I[i].addr = inode[i].addr
      /\ \A j \in Inos : j # i => I[j] = inode[j]
  <2>1. /\ Iget(i) \in [Inos -> Inodes]
        /\ \A j \in Inos : j # i => Iget(i)[j] = inode[j]
        /\ Iget(i)[i].count = inode[i].count + 1
        /\ Iget(i)[i].nlink = inode[i].nlink /\ Iget(i)[i].used = inode[i].used
        /\ Iget(i)[i].addr = inode[i].addr
    BY IgetDoes, <1>1, <1>3 DEF Typed
  <2>2. PICK r \in Inodes : r = Iget(i)[i]
    BY <2>1, <1>3
  <2>3. r.count = inode[i].count + 1 /\ r.nlink = 1 /\ r.addr = inode[i].addr
    BY <2>1, <2>2, <1>3
  <2>4. r.used = inode[i].used
    BY <2>1, <2>2
  <2>5. PICK q : q = [r EXCEPT !.nlink = r.nlink - 1]
    OBVIOUS
  <2>6. I[i] = q
    BY <2>1, <2>2, <2>5, <1>3
  <2>7. r.nlink - 1 = 0
    BY <2>3
  <2>8. q \in Inodes /\ q.count = r.count /\ q.nlink = 0 /\ q.addr = r.addr
    <3>1. r.nlink - 1 \in Nat
      BY <2>7
    <3>2. q \in Inodes /\ q.nlink = r.nlink - 1 /\ q.count = r.count /\ q.addr = r.addr
      BY <2>2, <2>5, <3>1, LinkSet
    <3> QED BY <3>2, <2>7
  <2>9. q.used = r.used
    BY <2>2, <2>5 DEF Inodes
  <2>10. I \in [Inos -> Inodes] /\ \A j \in Inos : j # i => I[j] = inode[j]
    BY <2>1, <2>6, <2>8, <1>3
  <2> QED BY <2>3, <2>4, <2>6, <2>8, <2>9, <2>10
<1> HIDE DEF I
<1>7. /\ inode' \in [Inos -> Inodes]
      /\ \A j \in Inos : j # i => inode'[j] = I[j]
      /\ \/ /\ I[i].count = 1 /\ I[i].nlink = 0
            /\ inode'[i] = FreeInode /\ avail' = avail \union BlocksOf(I[i])
         \/ /\ I[i].count > 1 \/ I[i].nlink > 0
            /\ inode'[i] = [I[i] EXCEPT !.count = I[i].count - 1] /\ avail' = avail
  BY <1>3, <1>4, <1>5, IputDoes
<1>8. \A j \in Inos : j # i => inode'[j] = inode[j]
  BY <1>5, <1>7
<1>9. inode'[i].nlink = 0 /\ inode'[i].count = inode[i].count
      /\ (inode'[i].used <=> inode'[i].count > 0)
  <2>1. CASE inode'[i] = FreeInode /\ I[i].count = 1
    BY <2>1, <1>3, <1>5 DEF FreeInode
  <2>2. CASE I[i].count > 1 /\ inode'[i] = [I[i] EXCEPT !.count = I[i].count - 1]
    <3>1. I[i] \in Inodes
      BY <1>3, <1>5
    <3>2. inode[i].used /\ inode[i].count > 0
      BY <2>2, <1>3, <1>5
    <3>3. inode'[i].count = inode[i].count /\ inode'[i].nlink = 0
      BY <3>1, <2>2, <1>3, <1>5 DEF Inodes
    <3>4. inode'[i].used = I[i].used
      BY <3>1, <2>2 DEF Inodes
    <3> QED BY <3>2, <3>3, <3>4, <1>5
  <2> QED BY <2>1, <2>2, <1>7, <1>5
<1>10. HeldByDescriptors'
  <2>1. \A j \in Inos : inode'[j].count = inode[j].count
    BY <1>8, <1>9
  <2> QED BY <2>1, <1>1, <1>4, <1>8, <1>9 DEF HeldByDescriptors
<1>11. NamesLinked'
  <2>1. \A m \in Names : name'[m] = IF m = n THEN 0 ELSE name[m]
    BY <1>1, <1>4 DEF Typed
  <2>2. \A m \in Names : name'[m] # 0 => name'[m] \in Inos \ {i}
    BY <2>1, <1>1, <1>3 DEF Typed
  <2> QED BY <2>1, <2>2, <1>1, <1>8 DEF NamesLinked
<1>12. avail' \subseteq Blocks /\ BlocksOwnedOnce'
  <2>1. CASE inode'[i] = FreeInode /\ avail' = avail \union BlocksOf(I[i])
    <3>1. BlocksOf(I[i]) = BlocksOf(inode[i])
      BY <1>5 DEF BlocksOf
    <3>2. Empties(i)
      BY <2>1, <3>1, <1>8 DEF Empties, FreeInode
    <3> QED BY <3>2, EmptiesOwned, <1>1, <1>3, <1>7 DEF Typed
  <2>2. CASE inode'[i] = [I[i] EXCEPT !.count = I[i].count - 1] /\ avail' = avail
    <3>1. I[i] \in Inodes
      BY <1>3, <1>5
    <3>2. inode'[i].addr = inode[i].addr
      BY <3>1, <2>2, <1>5 DEF Inodes
    <3>3. SameMaps
      BY <3>2, <2>2, <1>8 DEF SameMaps
    <3> QED BY <3>3, <2>2, SameMapsOwned, <1>1 DEF Typed
  <2> QED BY <2>1, <2>2, <1>7
<1>13. Typed'
  BY <1>1, <1>4, <1>7, <1>12 DEF Typed
<1> QED BY <1>10, <1>11, <1>12, <1>13 DEF Kept

(* The inodes I and the free blocks A, while a call has one more reference *)
(* to file i, and may have emptied it.                                     *)
Taken(I, A, i) ==
  /\ I \in [Inos -> Inodes]
  /\ \A j \in Inos : j # i => I[j] = inode[j]
  /\ I[i].count = inode[i].count + 1
  /\ I[i].nlink = inode[i].nlink /\ I[i].used = inode[i].used
  /\ \/ I[i].addr = inode[i].addr /\ A = avail
     \/ I[i].addr = NoBlocks /\ A = avail \union BlocksOf(inode[i])

LEMMA TakenOwned ==
  ASSUME Inv, NEW I, NEW A, NEW i \in Inos, Taken(I, A, i),
         inode' \in [Inos -> Inodes], avail' = A,
         \A j \in Inos : inode'[j].addr = I[j].addr
  PROVE  avail' \subseteq Blocks /\ BlocksOwnedOnce'
<1>1. inode \in [Inos -> Inodes] /\ avail \subseteq Blocks /\ BlocksOwnedOnce
  BY DEF Inv, Typed
<1>2. CASE I[i].addr = inode[i].addr /\ A = avail
  <2>1. SameMaps
    BY <1>2 DEF Taken, SameMaps
  <2> QED BY <2>1, <1>1, <1>2, SameMapsOwned
<1>3. CASE I[i].addr = NoBlocks /\ A = avail \union BlocksOf(inode[i])
  <2>1. Empties(i)
    BY <1>3 DEF Taken, Empties
  <2> QED BY <2>1, <1>1, EmptiesOwned
<1> QED BY <1>2, <1>3 DEF Taken

LEMMA TakenPut ==
  ASSUME Inv, NEW I, NEW A, NEW n \in Names, name[n] # 0,
         Taken(I, A, name[n]), Iput(I, A, name[n]),
         UNCHANGED <<kernel, name, data, ofile, call>>
  PROVE  Kept
<1>1. /\ name[n] \in Inos /\ inode[name[n]] \in Inodes /\ inode[name[n]].nlink = 1
      /\ inode[name[n]].count \in Nat
  BY Named
<1>2. PICK i \in Inos : i = name[n]
  BY <1>1
<1>3. /\ I \in [Inos -> Inodes] /\ I[i].count = inode[i].count + 1 /\ I[i].nlink = 1
      /\ I[i].used = inode[i].used
      /\ \A j \in Inos : j # i => I[j] = inode[j]
  BY <1>1, <1>2 DEF Taken
<1>4. Iput(I, A, i) /\ I[i].count > 0 /\ I[i].nlink # 0
  BY <1>1, <1>2, <1>3
<1>5. /\ inode' \in [Inos -> Inodes]
      /\ \A j \in Inos : j # i => inode'[j] = I[j]
      /\ inode'[i] = [I[i] EXCEPT !.count = I[i].count - 1] /\ avail' = A
  BY <1>3, <1>4, IputDoes
<1>6. /\ inode'[i].count = inode[i].count /\ inode'[i].nlink = inode[i].nlink
      /\ inode'[i].used = inode[i].used /\ inode'[i].addr = I[i].addr
  <2>1. I[i] \in Inodes /\ I[i].count - 1 \in Nat /\ I[i].count - 1 = inode[i].count
    BY <1>1, <1>2, <1>3
  <2>2. /\ inode'[i].count = I[i].count - 1 /\ inode'[i].nlink = I[i].nlink
        /\ inode'[i].used = I[i].used /\ inode'[i].addr = I[i].addr
    BY <2>1, <1>5, CountSet
  <2> QED BY <2>1, <2>2, <1>1, <1>2, <1>3
<1>7. \A j \in Inos : SameRefs(j)
  BY <1>3, <1>5, <1>6 DEF SameRefs
<1>8. HeldByDescriptors' /\ NamesLinked'
  BY <1>7, RefsKept DEF Inv, Typed
<1>9. \A j \in Inos : inode'[j].addr = I[j].addr
  BY <1>5, <1>6
<1>10. Taken(I, A, i)
  BY <1>2
<1>11. avail' \subseteq Blocks /\ BlocksOwnedOnce'
  BY <1>5, <1>9, <1>10, TakenOwned
<1>12. Typed'
  BY <1>5, <1>11 DEF Inv, Typed
<1> QED BY <1>8, <1>11, <1>12 DEF Kept

LEMMA TakenOpen ==
  ASSUME Inv, NEW I, NEW A, NEW n \in Names, name[n] # 0, NEW flag \in Flags,
         Taken(I, A, name[n]), inode' = I, avail' = A, Unused # {},
         ofile' = [ofile EXCEPT ![Min(Unused)] = [ino |-> name[n], flag |-> flag]],
         UNCHANGED <<kernel, name, data, call>>
  PROVE  Kept
<1>1. name[n] \in Inos /\ inode[name[n]].nlink = 1
  BY Named
<1>2. PICK i \in Inos : i = name[n]
  BY <1>1
<1>3. PICK fd \in FDs : fd = Min(Unused) /\ ofile[fd] = Closed
  BY LowestUnused
<1>4. Taken(I, A, i) /\ ofile' = [ofile EXCEPT ![fd] = [ino |-> i, flag |-> flag]]
  BY <1>2, <1>3
<1>5. /\ inode' \in [Inos -> Inodes] /\ \A j \in Inos : j # i => inode'[j] = inode[j]
      /\ inode'[i].count = inode[i].count + 1
      /\ inode'[i].nlink = inode[i].nlink /\ inode'[i].used = inode[i].used
  BY <1>4 DEF Taken
<1>6. Opens(fd, i, flag)
  BY <1>4, <1>5 DEF Opens, SameRefs
<1>7. HeldByDescriptors'
  BY <1>1, <1>2, <1>3, <1>6, OpensHeld DEF Inv
<1>8. NamesLinked'
  <2>1. \A j \in Inos : inode'[j].nlink = inode[j].nlink
    BY <1>5
  <2>2. \A m \in Names : name[m] # 0 => name[m] \in Inos
    BY DEF Inv, Typed
  <2> QED BY <2>1, <2>2 DEF Inv, NamesLinked
<1>9. avail' \subseteq Blocks /\ BlocksOwnedOnce'
  BY <1>4, <1>5, TakenOwned
<1>10. Typed'
  <2>1. [ino |-> i, flag |-> flag] \in [ino : Inos, flag : Flags]
    OBVIOUS
  <2>2. ofile' \in [FDs -> {Closed} \union [ino : Inos, flag : Flags]]
    BY <2>1, <1>4 DEF Inv, Typed
  <2> QED BY <2>2, <1>5, <1>9 DEF Inv, Typed
<1> QED BY <1>7, <1>8, <1>9, <1>10 DEF Kept

LEMMA IgetTaken ==
  ASSUME Inv, NEW i \in Inos
  PROVE  /\ Taken(Iget(i), avail, i)
         /\ Taken([Iget(i) EXCEPT ![i] = Trunc(@)], avail \union BlocksOf(inode[i]), i)
<1>1. /\ Iget(i) \in [Inos -> Inodes]
      /\ \A j \in Inos : j # i => Iget(i)[j] = inode[j]
      /\ Iget(i)[i].count = inode[i].count + 1
      /\ Iget(i)[i].nlink = inode[i].nlink /\ Iget(i)[i].used = inode[i].used
      /\ Iget(i)[i].addr = inode[i].addr
  BY IgetDoes DEF Inv, Typed
<1>2. PICK r \in Inodes : r = Iget(i)[i]
  BY <1>1
<1>3. PICK q \in Inodes : q = [r EXCEPT !.size = 0]
  BY SizeSet
<1>4. Trunc(r) = [q EXCEPT !.addr = NoBlocks]
  BY <1>3 DEF Trunc
<1>5. q.used = r.used /\ q.count = r.count /\ q.nlink = r.nlink
  BY <1>3, SizeSet
<1>6. /\ Trunc(r).addr = NoBlocks /\ Trunc(r).used = r.used /\ Trunc(r).count = r.count
      /\ Trunc(r).nlink = r.nlink /\ Trunc(r) \in Inodes
  BY <1>4, <1>5, AddrSet, FreshInodes
<1>7. PICK J : J = [Iget(i) EXCEPT ![i] = Trunc(@)]
  OBVIOUS
<1>8. J \in [Inos -> Inodes] /\ J[i] = Trunc(r) /\ \A j \in Inos : j # i => J[j] = inode[j]
  BY <1>1, <1>2, <1>6, <1>7
<1>9. Taken(J, avail \union BlocksOf(inode[i]), i)
  BY <1>1, <1>2, <1>6, <1>8 DEF Taken
<1> QED BY <1>1, <1>7, <1>9 DEF Taken

LEMMA TruncateKeeps ==
  ASSUME Inv, NEW n \in Names, Truncate(n)
  PROVE  Kept
<1>1. name[n] # 0 /\ name[n] \in Inos
  BY Named DEF Truncate
<1>2. PICK I : I = [Iget(name[n]) EXCEPT ![name[n]] = Trunc(@)]
  OBVIOUS
<1>3. PICK A : A = avail \union BlocksOf(inode[name[n]])
  OBVIOUS
<1>4. Taken(I, A, name[n])
  BY <1>1, <1>2, <1>3, IgetTaken
<1>5. Iput(I, A, name[n]) /\ UNCHANGED <<kernel, name, data, ofile, call>>
  BY <1>2, <1>3 DEF Truncate
<1> QED BY <1>1, <1>4, <1>5, TakenPut

LEMMA OpenKeeps ==
  ASSUME Inv, NEW n \in Names, NEW flag \in Flags, NEW trunc \in BOOLEAN,
         NEW granted \in BOOLEAN, Open(n, flag, trunc, granted)
  PROVE  Kept
<1>1. name[n] # 0 /\ name[n] \in Inos
  BY Named DEF Open
<1>2. PICK I, A : /\ I = IF trunc /\ granted
                         THEN [Iget(name[n]) EXCEPT ![name[n]] = Trunc(@)]
                         ELSE Iget(name[n])
                  /\ A = IF trunc /\ granted THEN avail \union BlocksOf(inode[name[n]])
                         ELSE avail
  OBVIOUS
<1>3. Taken(I, A, name[n])
  BY <1>1, <1>2, IgetTaken
<1>4. /\ \/ /\ Unused # {}
            /\ ofile' = [ofile EXCEPT ![Min(Unused)] = [ino |-> name[n], flag |-> flag]]
            /\ inode' = I /\ avail' = A
         \/ Iput(I, A, name[n]) /\ UNCHANGED ofile
      /\ UNCHANGED <<kernel, name, data, call>>
  BY <1>2 DEF Open
<1> QED BY <1>1, <1>3, <1>4, TakenPut, TakenOpen

LEMMA OpenDescriptorFirstKeeps ==
  ASSUME Inv, NEW n \in Names, NEW flag \in Flags,
         NEW granted \in BOOLEAN, OpenDescriptorFirst(n, flag, granted)
  PROVE  Kept
<1>1. name[n] # 0 /\ name[n] \in Inos
  BY Named DEF OpenDescriptorFirst
<1>2. PICK I : I = Iget(name[n])
  OBVIOUS
<1>3. Taken(I, avail, name[n])
  BY <1>1, <1>2, IgetTaken
<1>4. /\ \/ /\ Unused # {}
            /\ ofile' = [ofile EXCEPT ![Min(Unused)] = [ino |-> name[n], flag |-> flag]]
            /\ inode' = I /\ avail' = avail
         \/ Iput(I, avail, name[n]) /\ UNCHANGED ofile
      /\ UNCHANGED <<kernel, name, data, call>>
  BY <1>2 DEF OpenDescriptorFirst
<1> QED BY <1>1, <1>3, <1>4, TakenPut, TakenOpen

LEMMA CloseKeeps ==
  ASSUME Inv, NEW fd \in FDs, Close(fd)
  PROVE  Kept
<1>1. Typed /\ NamesLinked /\ HeldByDescriptors /\ BlocksOwnedOnce
  BY DEF Inv
<1>2. PICK i \in Inos : i = ofile[fd].ino
  BY <1>1 DEF Close, Typed
<1>3. Iput(inode, avail, i) /\ ofile' = [ofile EXCEPT ![fd] = Closed]
      /\ UNCHANGED <<kernel, name, data, call>>
  BY <1>2 DEF Close
<1>4. inode \in [Inos -> Inodes] /\ inode[i] \in Inodes /\ inode[i].count > 0
      /\ inode[i].nlink \in Nat /\ inode[i].count \in Nat
  BY <1>1, <1>2, OpenIsHeld DEF Typed, Inodes
<1>5. /\ inode' \in [Inos -> Inodes]
      /\ \A j \in Inos : j # i => inode'[j] = inode[j]
      /\ \/ /\ inode[i].count = 1 /\ inode[i].nlink = 0
            /\ inode'[i] = FreeInode /\ avail' = avail \union BlocksOf(inode[i])
         \/ /\ inode[i].count > 1 \/ inode[i].nlink > 0
            /\ inode'[i] = [inode[i] EXCEPT !.count = inode[i].count - 1] /\ avail' = avail
  BY <1>3, <1>4, IputDoes
<1>6. CASE /\ inode[i].count = 1 /\ inode[i].nlink = 0
           /\ inode'[i] = FreeInode /\ avail' = avail \union BlocksOf(inode[i])
  <2>1. inode'[i].nlink = 0 /\ inode'[i].count = 0 /\ ~inode'[i].used
        /\ inode'[i].addr = NoBlocks
    BY <1>6 DEF FreeInode
  <2>2. Closes(fd, i)
    BY <2>1, <1>3, <1>4, <1>5, <1>6 DEF Closes, SameRefs
  <2>3. Empties(i)
    BY <2>1, <1>5, <1>6 DEF Empties
  <2>4. avail' \subseteq Blocks /\ BlocksOwnedOnce'
    BY <2>3, <1>1, <1>4, <1>5, EmptiesOwned DEF Typed
  <2>5. \A j \in Inos : inode'[j].nlink = inode[j].nlink
    BY <2>1, <1>5, <1>6
  <2> QED BY <2>2, <2>4, <2>5, ClosesHeld, <1>1, <1>2, <1>3, <1>5 DEF Kept, Typed, NamesLinked
<1>7. CASE /\ inode[i].count > 1 \/ inode[i].nlink > 0
           /\ inode'[i] = [inode[i] EXCEPT !.count = inode[i].count - 1] /\ avail' = avail
  <2>1. /\ inode'[i].nlink = inode[i].nlink /\ inode'[i].count = inode[i].count - 1
        /\ inode'[i].addr = inode[i].addr /\ inode'[i].used = inode[i].used
    <3>1. inode[i].count - 1 \in Nat
      BY <1>4
    <3> QED BY <3>1, <1>4, <1>7, CountSet
  <2>2. Closes(fd, i)
    <3>1. inode[i].used
      BY <1>1, <1>4, Zenon DEF HeldByDescriptors
    <3>2. inode'[i].nlink > 0 \/ inode'[i].count > 0
      BY <2>1, <1>4, <1>7
    <3> QED BY <2>1, <3>1, <3>2, <1>3, <1>5 DEF Closes, SameRefs
  <2>3. SameMaps
    BY <2>1, <1>5, <1>7 DEF SameMaps
  <2>4. avail' \subseteq Blocks /\ BlocksOwnedOnce'
    BY <2>3, <1>1, <1>7, SameMapsOwned DEF Typed
  <2>5. \A j \in Inos : inode'[j].nlink = inode[j].nlink
    BY <2>1, <1>5
  <2> QED BY <2>2, <2>4, <2>5, ClosesHeld, <1>1, <1>2, <1>3, <1>5 DEF Kept, Typed, NamesLinked
<1> QED BY <1>5, <1>6, <1>7

LEMMA CutDoes ==
  ASSUME NEW r \in Inodes, NEW len \in Nat
  PROVE  /\ Cut(r, len) \in Inodes
         /\ Cut(r, len).used = r.used /\ Cut(r, len).nlink = r.nlink
         /\ Cut(r, len).count = r.count
         /\ \A bn \in Bns : Cut(r, len).addr[bn] \in {r.addr[bn], 0}
<1>1. r.addr \in [Bns -> Blocks \union {0}]
  BY DEF Inodes, Addrs
<1>2. PICK a : a = [bn \in Bns |-> IF r.size <= len \/ bn * BSIZE < len
                                 THEN r.addr[bn] ELSE 0]
  OBVIOUS
<1>3. a \in Addrs /\ \A bn \in Bns : a[bn] \in {r.addr[bn], 0}
  BY <1>1, <1>2 DEF Addrs
<1>4. PICK q \in Inodes : q = [r EXCEPT !.size = len]
  BY SizeSet
<1>5. q.used = r.used /\ q.nlink = r.nlink /\ q.count = r.count /\ q.addr = r.addr
  BY <1>4, SizeSet
<1>6. Cut(r, len) = [q EXCEPT !.addr = a]
  BY <1>2, <1>4, <1>5 DEF Cut
<1> QED BY <1>3, <1>5, <1>6, AddrSet

LEMMA ZeroTyped ==
  ZeroBlock \in Contents
BY DEF ZeroBlock, Contents

LEMMA TailTyped ==
  ASSUME data \in [Blocks -> Contents], NEW b, NEW from
  PROVE  TailCleared(b, from) \in [Blocks -> Contents]
<1>1. CASE b \in Blocks
  <2>1. [k \in 0 .. BSIZE - 1 |-> IF k < from THEN data[b][k] ELSE 0] \in Contents
    BY <1>1 DEF Contents
  <2> QED BY <2>1, <1>1 DEF TailCleared
<1>2. CASE b \notin Blocks
  BY <1>2 DEF TailCleared
<1> QED BY <1>1, <1>2

LEMMA TruncateToKeeps ==
  ASSUME Inv, NEW n \in Names, NEW len \in 0 .. MaxSeek, TruncateTo(n, len)
  PROVE  Kept
<1>0. Typed /\ NamesLinked /\ HeldByDescriptors /\ BlocksOwnedOnce /\ 0 \notin Blocks
  BY FileIOAssumption DEF Inv
<1>1. PICK i \in Inos : i = name[n]
  BY Named DEF TruncateTo
<1>2. PICK old \in Inodes : old = inode[i]
  BY <1>0 DEF Typed
<1>3. PICK end : end = EndBlock(old, len)
  OBVIOUS
<1> DEFINE Ended(b) == IF b = 0 THEN old ELSE [old EXCEPT !.addr[end] = b]
<1>26. PICK b \in avail \union {0} :
        /\ NeedsEnd(old, len) => end < MaxBlocks
        /\ b # 0 <=> NeedsEnd(old, len) /\ BlockAt(old, end) = 0
        /\ inode' = [inode EXCEPT ![i] = Cut(Ended(b), len)]
        /\ avail' = (avail \ {b}) \union (BlocksOf(Ended(b)) \ BlocksOf(Cut(Ended(b), len)))
        /\ data' = IF b # 0 THEN [data EXCEPT ![b] = ZeroBlock]
                   ELSE IF NeedsEnd(old, len) /\ old.size > len
                        THEN TailCleared(old.addr[end], len % BSIZE)
                        ELSE data
  BY <1>1, <1>2, <1>3 DEF TruncateTo
<1>27. PICK ended : ended = Ended(b)
  OBVIOUS
<1>4. /\ ended = IF b = 0 THEN old ELSE [old EXCEPT !.addr[end] = b]
      /\ NeedsEnd(old, len) => end < MaxBlocks
      /\ b # 0 <=> NeedsEnd(old, len) /\ BlockAt(old, end) = 0
      /\ inode' = [inode EXCEPT ![i] = Cut(ended, len)]
      /\ avail' = (avail \ {b}) \union (BlocksOf(ended) \ BlocksOf(Cut(ended, len)))
      /\ data' = IF b # 0 THEN [data EXCEPT ![b] = ZeroBlock]
                 ELSE IF NeedsEnd(old, len) /\ old.size > len
                      THEN TailCleared(old.addr[end], len % BSIZE)
                      ELSE data
  BY <1>26, <1>27
<1> HIDE DEF Ended
<1>5. UNCHANGED <<kernel, name, ofile, call>>
  BY DEF TruncateTo
<1>6. len \in Nat /\ old.size \in Nat
  BY <1>2, Sizes DEF Inodes
<1>7. ASSUME b # 0 PROVE end \in Bns /\ old.addr[end] = 0 /\ b \in avail
  <2>1. NeedsEnd(old, len) /\ BlockAt(old, end) = 0 /\ end < MaxBlocks
    BY <1>4, <1>7
  <2>2. end \in Nat
    <3>1. CASE old.size < len
      <4>1. len - 1 \in Nat
        BY <3>1, <1>6
      <4> QED BY <4>1, <3>1, <1>3, Sizes, Divided DEF EndBlock
    <3>2. CASE ~(old.size < len)
      BY <3>2, <1>3, <1>6, Sizes, Divided DEF EndBlock
    <3> QED BY <3>1, <3>2
  <2>3. end \in Bns
    BY <2>1, <2>2, BnsReach
  <2> QED BY <2>1, <2>3, <1>4, <1>7 DEF BlockAt
<1>8. old.addr \in [Bns -> Blocks \union {0}]
  BY DEF Inodes, Addrs
<1>9. /\ ended \in Inodes /\ ended.used = old.used /\ ended.nlink = old.nlink
      /\ ended.count = old.count
      /\ \A a \in Bns : ended.addr[a] = IF b # 0 /\ a = end THEN b ELSE old.addr[a]
  <2>1. CASE b = 0
    BY <2>1, <1>4
  <2>2. CASE b # 0
    <3>1. PICK f : f = [old.addr EXCEPT ![end] = b]
      OBVIOUS
    <3>2. f \in Addrs /\ \A a \in Bns : f[a] = IF a = end THEN b ELSE old.addr[a]
      BY <3>1, <2>2, <1>0, <1>7, <1>8 DEF Addrs, Typed
    <3>3. ended = [old EXCEPT !.addr = f]
      BY <3>1, <2>2, <1>4
    <3> QED BY <3>2, <3>3, <2>2, AddrSet
  <2> QED BY <2>1, <2>2
<1>10. PICK new \in Inodes : new = Cut(ended, len)
  BY <1>6, <1>9, CutDoes
<1>11. /\ new.used = old.used /\ new.nlink = old.nlink /\ new.count = old.count
       /\ \A a \in Bns : new.addr[a] \in {ended.addr[a], 0}
  BY <1>6, <1>9, <1>10, CutDoes
<1>12. /\ inode' \in [Inos -> Inodes] /\ inode'[i] = new
       /\ \A j \in Inos : j # i => inode'[j] = inode[j]
  BY <1>0, <1>4, <1>10 DEF Typed
<1>13. \A j \in Inos : SameRefs(j)
  BY <1>2, <1>11, <1>12 DEF SameRefs
<1>14. HeldByDescriptors' /\ NamesLinked'
  BY <1>0, <1>5, <1>13, RefsKept DEF Typed
<1>15. \A c : c \in BlocksOf(old) <=> c # 0 /\ \E a \in Bns : old.addr[a] = c
  BY InBlocks
<1>16. \A c : c \in BlocksOf(ended) <=> c # 0 /\ \E a \in Bns : ended.addr[a] = c
  BY <1>9, InBlocks
<1>17. \A c : c \in BlocksOf(new) <=> c # 0 /\ \E a \in Bns : new.addr[a] = c
  BY InBlocks
<1>18. BlocksOf(old) \intersect avail = {}
  BY <1>0, <1>2, OwnedNotFree
<1>19. \A c : c \in BlocksOf(ended) <=> c \in BlocksOf(old) \/ (b # 0 /\ c = b)
  <2>1. ASSUME NEW c, c \in BlocksOf(old) PROVE c \in BlocksOf(ended)
    <3>1. PICK a \in Bns : old.addr[a] = c /\ c # 0
      BY <2>1, <1>15
    <3>2. ~(b # 0 /\ a = end)
      BY <3>1, <1>7
    <3> QED BY <3>1, <3>2, <1>9, <1>16
  <2>2. b # 0 => b \in BlocksOf(ended)
    BY <1>7, <1>9, <1>16
  <2>3. ASSUME NEW c, c \in BlocksOf(ended), ~(b # 0 /\ c = b) PROVE c \in BlocksOf(old)
    BY <2>3, <1>9, <1>15, <1>16
  <2> QED BY <2>1, <2>2, <2>3
<1>20. BlocksOf(new) \subseteq BlocksOf(ended)
  BY <1>11, <1>16, <1>17
<1>21. avail' = (avail \union BlocksOf(old)) \ BlocksOf(new)
  <2>1. avail' = (avail \ {b}) \union (BlocksOf(ended) \ BlocksOf(new))
    BY <1>4, <1>10
  <2>2. 0 \notin avail
    BY <1>0 DEF Typed
  <2> QED BY <2>1, <2>2, <1>4, <1>18, <1>19, <1>20
<1>22. Remaps(i)
  <2>1. \A j \in Inos : j # i => inode'[j].addr = inode[j].addr
    BY <1>12
  <2>2. \A a \in Bns : new.addr[a] # 0 => new.addr[a] = old.addr[a] \/ new.addr[a] \in avail
    BY <1>7, <1>9, <1>11
  <2>3. \A a, d \in Bns : old.addr[a] # 0 /\ old.addr[a] = old.addr[d] => a = d
    BY <1>0, <1>2 DEF BlocksOwnedOnce
  <2>4. \A a \in Bns : b # 0 => old.addr[a] # b
    BY <1>7, <1>15, <1>18
  <2>5. \A a, d \in Bns : new.addr[a] # 0 /\ new.addr[a] = new.addr[d] => a = d
    BY <2>3, <2>4, <1>9, <1>11
  <2> QED BY <2>1, <2>2, <2>5, <1>2, <1>12, <1>21 DEF Remaps
<1>23. avail' \subseteq Blocks /\ BlocksOwnedOnce'
  BY <1>0, <1>12, <1>22, RemapsOwned DEF Typed
<1>24. data' \in [Blocks -> Contents]
  BY <1>0, <1>4, ZeroTyped, TailTyped DEF Typed
<1>25. Typed'
  BY <1>0, <1>5, <1>12, <1>23, <1>24 DEF Typed
<1> QED BY <1>14, <1>23, <1>25 DEF Kept

-----------------------------------------------------------------------------
(* The loops of read and write.                                            *)
LEMMA FinishDoes ==
  ASSUME NEW c \in Calls, NEW ok \in BOOLEAN
  PROVE  Finish(c, ok) \in Calls /\ Runs(Finish(c, ok))
<1>1. Finish(c, ok).stage = "done"
  BY DEF Finish, Calls
<1>2. Finish(c, ok) \in Calls
  BY DEF Finish, Calls
<1> QED BY <1>1, <1>2 DEF Runs

LEMMA RdwrDoes ==
  ASSUME NEW c \in Calls, ofile[c.fd] # Closed
  PROVE  Rdwr(c) \in Calls /\ Runs(Rdwr(c))
<1>1. CASE c.left = 0
  <2>1. Rdwr(c) = Finish(c, TRUE)
    BY <1>1 DEF Rdwr
  <2> QED BY <2>1, FinishDoes
<1>2. CASE c.left > 0 /\ Needs(c.op) \notin ofile[c.fd].flag
  <2>1. Rdwr(c) = Finish(c, FALSE)
    <3>1. c.left # 0
      BY <1>2 DEF Calls
    <3> QED BY <3>1, <1>2, Zenon DEF Rdwr
  <2> QED BY <2>1, FinishDoes
<1>3. CASE c.left > 0 /\ Needs(c.op) \in ofile[c.fd].flag
  <2>1. c.left \in Nat /\ c.f_offset \in Nat
    BY DEF Calls
  <2>2. PICK m \in Nat : m = Min({c.left, Chunk}) /\ m <= c.left
    BY <2>1, Smaller, Sizes
  <2>3. Rdwr(c) = [c EXCEPT !.count = m, !.offset = c.f_offset]
    <3>1. Rdwr(c) = [c EXCEPT !.count = Min({c.left, Chunk}), !.offset = c.f_offset]
      <4>1. c.left # 0
        BY <1>3, <2>1
      <4> QED BY <4>1, <1>3, Zenon DEF Rdwr
    <3> QED BY <2>2, <3>1
  <2>4. Rdwr(c) \in Calls
    BY <2>1, <2>3 DEF Calls
  <2>5. /\ Rdwr(c).count = m /\ Rdwr(c).offset = c.f_offset /\ Rdwr(c).left = c.left
        /\ Rdwr(c).f_offset = c.f_offset /\ Rdwr(c).fd = c.fd
    BY <2>3 DEF Calls
  <2> QED BY <2>1, <2>2, <2>4, <2>5 DEF Runs
<1>4. c.left \in Nat
  BY DEF Calls
<1> QED BY <1>1, <1>2, <1>3, <1>4

LEMMA AdvanceDoes ==
  ASSUME NEW c \in Calls, Runs(c), c.stage = "rw"
  PROVE  Advance(c) \in Calls /\ Runs(Advance(c))
<1>1. /\ c.left \in Nat /\ c.offset \in Nat /\ c.f_offset \in Nat /\ c.count \in Nat
      /\ ofile[c.fd] # Closed /\ c.f_offset <= c.offset
      /\ (c.offset - c.f_offset) + c.count <= c.left
  BY DEF Calls, Runs
<1>2. PICK l \in Nat : l = c.left - (c.offset - c.f_offset)
  BY <1>1
<1>3. PICK d : d = [c EXCEPT !.left = l, !.f_offset = c.offset]
  OBVIOUS
<1>4. Advance(c) = Rdwr(d)
  BY <1>2, <1>3 DEF Advance
<1>5. d \in Calls
  BY <1>1, <1>3 DEF Calls
<1>6. d.fd = c.fd
  BY <1>3 DEF Calls
<1> QED BY <1>1, <1>4, <1>5, <1>6, RdwrDoes

LEMMA MovedDoes ==
  ASSUME call \in Calls, Runs(call), call.stage = "rw", NEW n \in Nat, n <= call.count
  PROVE  Moved(n) \in Calls /\ Runs(Moved(n))
<1>1. /\ call.left \in Nat /\ call.offset \in Nat /\ call.f_offset \in Nat
      /\ call.count \in Nat
      /\ ofile[call.fd] # Closed /\ call.f_offset <= call.offset
      /\ (call.offset - call.f_offset) + call.count <= call.left
  BY DEF Calls, Runs
<1>2. PICK k \in Nat, m \in Nat : k = call.offset + n /\ m = call.count - n
  BY <1>1
<1>3. Moved(n) = [call EXCEPT !.offset = k, !.count = m]
  BY <1>2 DEF Moved
<1>4. Moved(n) \in Calls
  BY <1>3 DEF Calls
<1>5. /\ Moved(n).offset = k /\ Moved(n).count = m /\ Moved(n).left = call.left
      /\ Moved(n).f_offset = call.f_offset /\ Moved(n).fd = call.fd
  BY <1>3 DEF Calls
<1> QED BY <1>1, <1>2, <1>4, <1>5 DEF Runs

(* The file a call is about, and how far its next step can go. *)
LEMMA InCall ==
  ASSUME Inv, call.stage = "rw"
  PROVE  /\ call \in Calls /\ Runs(call) /\ call.fd \in FDs
         /\ fp.ino \in Inos /\ ip \in Inodes /\ ip = inode[fp.ino] /\ ip.size \in Nat
         /\ call.offset \in Nat /\ call.count \in Nat
         /\ On \in Nat /\ On < BSIZE
         /\ BlockRest \in Nat /\ BlockRest <= call.count /\ On + BlockRest <= BSIZE
<1>1. call \in Calls /\ Runs(call)
  BY DEF Inv, Typed, CallShape
<1>2. call.fd \in FDs /\ call.offset \in Nat /\ call.count \in Nat
  BY <1>1 DEF Calls
<1>3. fp \in [ino : Inos, flag : Flags]
  BY <1>1, <1>2 DEF Inv, Typed, Runs, fp
<1>4. fp.ino \in Inos
  BY <1>3
<1>5. ip \in Inodes /\ ip = inode[fp.ino]
  BY <1>4 DEF Inv, Typed, ip
<1>6. On \in Nat /\ On < BSIZE
  BY <1>2, Sizes, Divided DEF On
<1>7. BSIZE - On \in Nat
  BY <1>6, Sizes
<1>8. BlockRest \in Nat /\ BlockRest <= call.count /\ BlockRest <= BSIZE - On
  BY <1>2, <1>7, Smaller DEF BlockRest
<1>9. ip.size \in Nat
  BY <1>5 DEF Inodes
<1>10. On + BlockRest <= BSIZE
  BY <1>6, <1>8, Sizes
<1> QED BY <1>1, <1>2, <1>4, <1>5, <1>6, <1>8, <1>9, <1>10

LEMMA ReadStep ==
  ASSUME Inv, Reading
  PROVE  ToRead \in Nat /\ ToRead <= call.count /\ On + ToRead <= BSIZE
<1>1. /\ call.offset \in Nat /\ ip.size \in Nat /\ call.count \in Nat
      /\ On \in Nat /\ BlockRest \in Nat
      /\ BlockRest <= call.count /\ On + BlockRest <= BSIZE
  BY InCall DEF Reading
<1>2. ip.size - call.offset \in Nat
  BY <1>1 DEF Reading, AtEnd
<1>3. ToRead \in Nat /\ ToRead <= BlockRest
  BY <1>1, <1>2, Smaller DEF ToRead
<1> QED BY <1>1, <1>3, Sizes

(* The block of the file the call is at. *)
LEMMA AtBlock ==
  ASSUME Inv, call.stage = "rw"
  PROVE  /\ ~TooBig(call.offset) => Bn(call.offset) \in Bns
         /\ Mapped # 0 => Mapped \in Blocks
<1>1. call.offset \in Nat /\ ip.addr \in [Bns -> Blocks \union {0}]
  BY InCall DEF Inodes, Addrs
<1>2. Bn(call.offset) \in Nat
  <2>1. call.offset \div BSIZE \in Nat
    BY <1>1, Sizes, Divided
  <2>2. (call.offset \div BSIZE) % BnRange \in Nat
    BY <2>1, Sizes, Divided
  <2> QED BY <2>1, <2>2 DEF Bn
<1>3. ASSUME ~TooBig(call.offset) PROVE Bn(call.offset) \in Bns
  BY <1>2, <1>3, BnsReach, Sizes DEF TooBig
<1>4. ASSUME Mapped # 0 PROVE Mapped \in Blocks
  BY <1>1, <1>3, <1>4 DEF Mapped
<1> QED BY <1>3, <1>4

(* A step that changes the call and nothing else. *)
LEMMA CallKeeps ==
  ASSUME Inv, call' \in Calls, Runs(call'),
         UNCHANGED <<kernel, name, inode, data, avail, ofile>>
  PROVE  Inv'
<1>1. CallShape'
  BY DEF CallShape, Runs
<1>2. Typed'
  BY DEF Inv, Typed
<1>3. NamesLinked' /\ HeldByDescriptors' /\ BlocksOwnedOnce'
  BY DEF Inv, NamesLinked, HeldByDescriptors, BlocksOwnedOnce
<1> QED BY <1>1, <1>2, <1>3 DEF Inv

LEMMA ReadBlockKeeps ==
  ASSUME Inv, ReadBlock
  PROVE  Inv'
<1>1. Reading /\ call.stage = "rw" /\ Mapped # 0
  BY DEF ReadBlock, Reading
<1>2. Mapped \in Blocks /\ On \in Nat
  BY <1>1, AtBlock, InCall
<1>3. PICK n \in Nat : n = ToRead /\ n <= call.count /\ On + n <= BSIZE
  BY <1>1, ReadStep
<1>4. PICK m \in Calls : m = Moved(n) /\ Runs(m)
  BY <1>1, <1>3, InCall, MovedDoes
<1>5. PICK f : f = [k \in 1 .. n |-> data[Mapped][On + k - 1]]
  OBVIOUS
<1>6. f \in Seq(Nat)
  <2>1. data[Mapped] \in [0 .. BSIZE - 1 -> Nat]
    BY <1>2 DEF Inv, Typed, Contents
  <2>2. \A k \in 1 .. n : On + k - 1 \in 0 .. BSIZE - 1
    BY <1>2, <1>3, Sizes
  <2>3. f \in [1 .. n -> Nat]
    BY <2>1, <2>2, <1>5
  <2> QED BY <2>3
<1>7. PICK g \in Seq(Nat) : g = m.got \o f
  <2>1. m.got \in Seq(Nat)
    BY DEF Calls
  <2>2. m.got \o f \in Seq(Nat)
    BY <2>1, <1>6, ConcatProperties
  <2> QED BY <2>2
<1>8. call' = [m EXCEPT !.got = g]
  BY <1>3, <1>4, <1>5, <1>7 DEF ReadBlock
<1>9. call' \in Calls
  BY <1>8 DEF Calls
<1>10. /\ call'.stage = m.stage /\ call'.fd = m.fd /\ call'.offset = m.offset
       /\ call'.f_offset = m.f_offset /\ call'.count = m.count /\ call'.left = m.left
  BY <1>8 DEF Calls
<1>11. Runs(call')
  BY <1>4, <1>10 DEF Runs
<1> QED BY <1>9, <1>11, CallKeeps DEF ReadBlock

LEMMA ReadHoleKeeps ==
  ASSUME Inv, ReadHole
  PROVE  Inv'
<1>1. Reading /\ call.stage = "rw"
  BY DEF ReadHole, Reading
<1>2. PICK n \in Nat : n = ToRead /\ n <= call.count
  BY <1>1, ReadStep
<1>3. PICK m \in Calls : m = Moved(n) /\ Runs(m)
  BY <1>1, <1>2, InCall, MovedDoes
<1>4. PICK f : f = [k \in 1 .. n |-> 0]
  OBVIOUS
<1>5. f \in Seq(Nat)
  BY <1>4
<1>6. PICK g \in Seq(Nat) : g = m.got \o f
  <2>1. m.got \in Seq(Nat)
    BY DEF Calls
  <2>2. m.got \o f \in Seq(Nat)
    BY <2>1, <1>5, ConcatProperties
  <2> QED BY <2>2
<1>7. call' = [m EXCEPT !.got = g]
  BY <1>2, <1>3, <1>4, <1>6 DEF ReadHole
<1>8. call' \in Calls
  BY <1>7 DEF Calls
<1>9. /\ call'.stage = m.stage /\ call'.fd = m.fd /\ call'.offset = m.offset
      /\ call'.f_offset = m.f_offset /\ call'.count = m.count /\ call'.left = m.left
  BY <1>7 DEF Calls
<1>10. Runs(call')
  BY <1>3, <1>9 DEF Runs
<1> QED BY <1>8, <1>10, CallKeeps DEF ReadHole

(* A step that ends the call, or a loop of it. *)
LEMMA EndKeeps ==
  ASSUME Inv, ReadError \/ ReadEnd \/ WriteStops \/ WriteEnd \/ Return
  PROVE  Inv'
<1>0. call \in Calls
  BY DEF Inv, Typed
<1>1. UNCHANGED <<kernel, name, inode, data, avail, ofile>>
  BY DEF ReadError, ReadEnd, WriteStops, WriteEnd, Return
<1>2. CASE call' = Finish(call, FALSE)
  BY <1>0, <1>1, <1>2, FinishDoes, CallKeeps
<1>3. CASE call' = Finish(call, TRUE)
  BY <1>0, <1>1, <1>3, FinishDoes, CallKeeps
<1>4. CASE call.stage = "rw" /\ call' = Advance(call)
  BY <1>0, <1>1, <1>4, InCall, AdvanceDoes, CallKeeps
<1>5. CASE call' = Idle
  <2>1. call' \in Calls
    <3>1. <<>> \in Seq(Nat) /\ 0 \in FDs
      BY Sizes DEF FDs
    <3> QED BY <3>1, <1>5 DEF Idle, Calls
  <2>2. Runs(call')
    BY <1>5 DEF Idle, Runs
  <2> QED BY <2>1, <2>2, <1>1, CallKeeps
<1> QED BY <1>2, <1>3, <1>4, <1>5 DEF ReadError, ReadEnd, WriteStops, WriteEnd, Return

LEMMA ContentsRead ==
  ASSUME Inv, NEW i \in Inos
  PROVE  Text(i) \in Seq(Nat)
<1>1. inode[i].size \in Nat /\ inode[i].addr \in [Bns -> Blocks \union {0}]
  BY DEF Inv, Typed, Inodes, Addrs
<1>2. ASSUME NEW k \in 1 .. inode[i].size PROVE ByteAt(inode[i], k - 1) \in Nat
  <2>1. k - 1 \in Nat
    BY <1>1
  <2>2. PICK b : b = IF (k - 1) \div BSIZE \in Bns THEN inode[i].addr[(k - 1) \div BSIZE]
                     ELSE 0
    OBVIOUS
  <2>3. b = 0 \/ b \in Blocks
    BY <1>1, <2>2
  <2>4. ByteAt(inode[i], k - 1) = IF b = 0 THEN 0 ELSE data[b][(k - 1) % BSIZE]
    BY <2>2 DEF ByteAt
  <2>5. (k - 1) % BSIZE \in 0 .. BSIZE - 1
    BY <2>1, Sizes, Divided
  <2>6. b \in Blocks => data[b][(k - 1) % BSIZE] \in Nat
    BY <2>5 DEF Inv, Typed, Contents
  <2> QED BY <2>3, <2>4, <2>6
<1>3. Text(i) \in [1 .. inode[i].size -> Nat]
  BY <1>2 DEF Text
<1> QED BY <1>1, <1>3

LEMMA BeginKeeps ==
  ASSUME Inv, NEW op \in {"read", "write"}, NEW fd \in FDs, NEW off \in Nat,
         NEW n \in Nat, NEW byte \in Nat, Begin(op, fd, off, n, byte)
  PROVE  Inv'
<1>1. ofile[fd] # Closed /\ UNCHANGED <<kernel, name, inode, data, avail, ofile>>
  BY DEF Begin
<1>2. PICK was \in Seq(Nat) : was = Text(ofile[fd].ino)
  <2>1. ofile[fd].ino \in Inos
    BY <1>1 DEF Inv, Typed
  <2> QED BY <2>1, ContentsRead
<1>3. PICK c : c = [Idle EXCEPT !.stage = "rw", !.op = op, !.fd = fd, !.left = n,
                                !.byte = byte, !.before = was, !.at = off]
  OBVIOUS
<1>4. c = [stage |-> "rw", op |-> op, fd |-> fd, left |-> n, count |-> 0,
           f_offset |-> 0, offset |-> 0, byte |-> byte, got |-> <<>>, ok |-> TRUE,
           before |-> was, at |-> off]
  BY <1>3 DEF Idle
<1>5. c \in Calls
  <2>1. <<>> \in Seq(Nat) /\ "rw" \in {"idle", "rw", "done"}
        /\ op \in {"none", "read", "write"}
    OBVIOUS
  <2> QED BY <1>4, <2>1 DEF Calls
<1>6. PICK d : d = [c EXCEPT !.f_offset = off]
  OBVIOUS
<1>7. d \in Calls /\ d.fd = fd
  <2>1. d.fd = fd
    BY <1>4, <1>6
  <2>2. d \in Calls
    BY <1>5, <1>6 DEF Calls
  <2> QED BY <2>1, <2>2
<1>8. call' = Finish(c, FALSE) \/ call' = Rdwr(d)
  BY <1>2, <1>3, <1>6 DEF Begin
<1>9. CASE call' = Finish(c, FALSE)
  BY <1>1, <1>5, <1>9, FinishDoes, CallKeeps
<1>10. CASE call' = Rdwr(d)
  <2>1. ofile[d.fd] # Closed
    BY <1>1, <1>7
  <2> QED BY <2>1, <1>1, <1>7, <1>10, RdwrDoes, CallKeeps
<1> QED BY <1>8, <1>9, <1>10

(* A step that writes a block, or moves the size, and goes on or ends.     *)
LEMMA SizeUptoDoes ==
  ASSUME Inv, call.stage = "rw", NEW off \in Nat
  PROVE  SizeUpto(off) \in Nat
<1>1. ip.size \in Nat
  BY InCall
<1>2. SizeRange \in Nat /\ SizeRange > 0
  <2>1. PICK h \in Nat : h = BnRange \div 2
    BY BnsReach
  <2>2. h > 0
    BY <2>1, Sizes, FileIOAssumption
  <2>3. h * BSIZE \in Nat /\ h * BSIZE > 0
    BY <2>2, Sizes
  <2> QED BY <2>1, <2>3 DEF SizeRange
<1>3. off % SizeRange \in Nat
  BY <1>2, Divided
<1> QED BY <1>1, <1>3 DEF SizeUpto

LEMMA WriteKeeps ==
  ASSUME Inv, call.stage = "rw", NEW size \in Nat,
         inode' = [inode EXCEPT ![fp.ino].size = size],
         data' \in [Blocks -> Contents], call' \in Calls, Runs(call'),
         UNCHANGED <<kernel, name, avail, ofile>>
  PROVE  Inv'
<1>1. PICK i \in Inos : i = fp.ino
  BY InCall
<1>2. inode \in [Inos -> Inodes] /\ inode[i] \in Inodes
  BY DEF Inv, Typed
<1>3. PICK r \in Inodes : r = [inode[i] EXCEPT !.size = size]
  BY <1>2, SizeSet
<1>4. /\ r.used = inode[i].used /\ r.nlink = inode[i].nlink
      /\ r.count = inode[i].count /\ r.addr = inode[i].addr
  BY <1>2, <1>3, SizeSet
<1>5. inode' = [inode EXCEPT ![i] = r]
  BY <1>1, <1>3
<1>6. inode'[i] = r /\ inode' \in [Inos -> Inodes]
      /\ \A j \in Inos : j # i => inode'[j] = inode[j]
  BY <1>2, <1>5
<1>7. \A j \in Inos : SameRefs(j)
  BY <1>4, <1>6 DEF SameRefs
<1>8. SameMaps
  BY <1>4, <1>6 DEF SameMaps
<1>9. HeldByDescriptors' /\ NamesLinked'
  BY <1>7, RefsKept DEF Inv, Typed
<1>10. BlocksOwnedOnce'
  BY <1>8, SameMapsOwned DEF Inv
<1>11. Typed'
  BY <1>6 DEF Inv, Typed
<1>12. CallShape'
  BY DEF CallShape, Runs
<1> QED BY <1>9, <1>10, <1>11, <1>12 DEF Inv

LEMMA WriteBlockKeeps ==
  ASSUME Inv, WriteBlock
  PROVE  Inv'
<1>1. call.stage = "rw" /\ Mapped # 0 /\ Mapped \in Blocks /\ call.byte \in Nat
  BY AtBlock DEF WriteBlock, Writing, Inv, Typed, Calls
<1>2. PICK n \in Nat : n = BlockRest /\ n <= call.count
  BY <1>1, InCall
<1>3. call' \in Calls /\ Runs(call')
  BY <1>1, <1>2, InCall, MovedDoes DEF WriteBlock
<1>4. data' \in [Blocks -> Contents]
  <2>1. data \in [Blocks -> Contents]
    BY DEF Inv, Typed
  <2>2. PICK f : f = [k \in 0 .. BSIZE - 1 |-> IF k >= On /\ k < On + BlockRest
                                              THEN call.byte ELSE data[Mapped][k]]
    OBVIOUS
  <2>3. f \in Contents
    BY <2>1, <2>2, <1>1 DEF Contents
  <2>4. data' = [data EXCEPT ![Mapped] = f]
    BY <2>2 DEF WriteBlock
  <2> QED BY <2>1, <2>3, <2>4
<1>5. PICK size \in Nat : size = SizeUpto(call.offset + BlockRest)
  <2>1. call.offset + BlockRest \in Nat
    BY <1>1, InCall
  <2> QED BY <2>1, <1>1, SizeUptoDoes
<1> QED BY <1>1, <1>3, <1>4, <1>5, WriteKeeps DEF WriteBlock

LEMMA WriteMissesKeeps ==
  ASSUME Inv, WriteMisses
  PROVE  Inv'
<1>1. call.stage = "rw" /\ data \in [Blocks -> Contents] /\ call \in Calls
  BY DEF WriteMisses, Writing, Inv, Typed
<1>2. call' \in Calls /\ Runs(call')
  BY <1>1, FinishDoes DEF WriteMisses
<1>3. PICK size \in Nat : size = SizeUpto(call.offset + BlockRest)
  <2>1. call.offset + BlockRest \in Nat
    BY <1>1, InCall
  <2> QED BY <2>1, <1>1, SizeUptoDoes
<1>4. data' \in [Blocks -> Contents]
  BY <1>1 DEF WriteMisses
<1> QED BY <1>1, <1>2, <1>3, <1>4, WriteKeeps DEF WriteMisses

(* A step that gives the file a block where it had none. *)
LEMMA AllocKeeps ==
  ASSUME Inv, NEW b \in avail, FillHole(b) \/ AllocToWrite(b)
  PROVE  Inv'
<1>1. /\ call.stage = "rw" /\ Mapped = 0 /\ ~TooBig(call.offset)
      /\ AllocUncleared(b) \/ Alloc(b)
      /\ UNCHANGED <<kernel, name, ofile, call>>
  BY DEF FillHole, AllocToWrite, Reading, Writing
<1>2. PICK i \in Inos : i = fp.ino
  BY <1>1, InCall
<1>3. PICK a \in Bns : a = Bn(call.offset)
  BY <1>1, AtBlock
<1>4. inode[i].addr[a] = 0
  BY <1>1, <1>2, <1>3 DEF Mapped, ip
<1>5. /\ inode \in [Inos -> Inodes] /\ inode[i] \in Inodes /\ avail \subseteq Blocks
      /\ inode[i].addr \in [Bns -> Blocks \union {0}] /\ BlocksOwnedOnce
  BY DEF Inv, Typed, Inodes, Addrs
<1>6. PICK f \in Addrs : f = [inode[i].addr EXCEPT ![a] = b]
  BY <1>5 DEF Addrs
<1>7. PICK r \in Inodes : r = [inode[i] EXCEPT !.addr = f]
  BY <1>5, AddrSet
<1>8. /\ r.used = inode[i].used /\ r.nlink = inode[i].nlink
      /\ r.count = inode[i].count /\ r.addr = f
  BY <1>5, <1>7, AddrSet
<1>9. inode' = [inode EXCEPT ![i] = r] /\ avail' = avail \ {b}
  BY <1>1, <1>2, <1>3, <1>6, <1>7 DEF Alloc, AllocUncleared
<1>10. inode'[i] = r /\ inode' \in [Inos -> Inodes]
       /\ \A j \in Inos : j # i => inode'[j] = inode[j]
  BY <1>5, <1>9
<1>11. GivenBlock(i, a, b)
  BY <1>4, <1>6, <1>8, <1>9, <1>10 DEF GivenBlock
<1>12. avail' \subseteq Blocks /\ BlocksOwnedOnce'
  BY <1>5, <1>10, <1>11, GivenOwned
<1>13. \A j \in Inos : SameRefs(j)
  BY <1>8, <1>10 DEF SameRefs
<1>14. HeldByDescriptors' /\ NamesLinked'
  BY <1>1, <1>13, RefsKept DEF Inv, Typed
<1>15. data' \in [Blocks -> Contents]
  BY <1>1, ZeroTyped DEF Alloc, AllocUncleared, Inv, Typed
<1>16. Typed'
  BY <1>1, <1>10, <1>12, <1>15 DEF Inv, Typed
<1>17. CallShape'
  BY <1>1 DEF Inv, CallShape, Runs
<1> QED BY <1>12, <1>14, <1>16, <1>17 DEF Inv

-----------------------------------------------------------------------------
(* The inductive invariant and the theorems.                               *)
LEMMA InvInit ==
  ASSUME Init
  PROVE  Inv
<1>1. <<>> \in Seq(Nat) /\ 0 \in FDs /\ 0 \notin Inos /\ 0 \notin Blocks
  BY Sizes, FileIOAssumption DEF FDs
<1>2. Idle \in Calls
  BY <1>1 DEF Idle, Calls
<1>3. Typed
  BY <1>2, FreshInodes, ZeroTyped DEF Init, Typed
<1>4. CallShape
  BY DEF Init, CallShape, Runs, Idle
<1>5. NamesLinked
  BY DEF Init, NamesLinked
<1>6. HeldByDescriptors
  <2>1. \A i \in Inos : Holders(i) = {}
    BY <1>1 DEF Init, Holders, Closed
  <2>2. \A i \in Inos : inode[i].count = 0 /\ inode[i].nlink = 0 /\ ~inode[i].used
    BY DEF Init, FreeInode
  <2>3. Cardinality({}) = 0
    BY FS_EmptySet
  <2> QED BY <2>1, <2>2, <2>3 DEF HeldByDescriptors, Holders
<1>7. BlocksOwnedOnce
  <2>1. \A i \in Inos : BlocksOf(inode[i]) = {} /\ \A a \in Bns : inode[i].addr[a] = 0
    BY NothingOwned DEF Init, FreeInode
  <2>2. UNION {BlocksOf(inode[i]) : i \in Inos} = {}
    BY <2>1
  <2> QED BY <2>1, <2>2 DEF Init, BlocksOwnedOnce
<1> QED BY <1>3, <1>4, <1>5, <1>6, <1>7 DEF Inv

LEMMA KeptIsInv ==
  ASSUME Kept, call.stage = "idle", call' = call
  PROVE  Inv'
<1>1. CallShape'
  BY DEF CallShape, Runs
<1> QED BY <1>1 DEF Kept, Inv

LEMMA InvNext ==
  ASSUME Inv, [Next]_vars
  PROVE  Inv'
<1>0. Idle.stage = "idle" /\ MaxSeek + 1 \in Nat
  BY Sizes DEF Idle
<1>1. ASSUME NEW n \in Names, Unlink(n) PROVE Inv'
  BY <1>0, <1>1, UnlinkKeeps, KeptIsInv DEF Unlink
<1>2. ASSUME NEW n \in Names, Truncate(n) PROVE Inv'
  BY <1>0, <1>2, TruncateKeeps, KeptIsInv DEF Truncate
<1>3. ASSUME NEW n \in Names, NEW i \in Inos, Mknod(n, i) PROVE Inv'
  BY <1>0, <1>3, MknodKeeps, KeptIsInv DEF Mknod
<1>4. ASSUME NEW n \in Names, NEW len \in 0 .. MaxSeek, TruncateTo(n, len) PROVE Inv'
  BY <1>0, <1>4, TruncateToKeeps, KeptIsInv DEF TruncateTo
<1>5. ASSUME NEW n \in Names, NEW flag \in Flags, NEW granted \in BOOLEAN,
             OpenDescriptorFirst(n, flag, granted)
      PROVE  Inv'
  BY <1>0, <1>5, OpenDescriptorFirstKeeps, KeptIsInv DEF OpenDescriptorFirst
<1>6. ASSUME NEW n \in Names, NEW flag \in Flags, NEW t \in BOOLEAN, NEW granted \in BOOLEAN,
             Open(n, flag, t, granted)
      PROVE  Inv'
  BY <1>0, <1>6, OpenKeeps, KeptIsInv DEF Open
<1>7. ASSUME NEW fd \in FDs, Close(fd) PROVE Inv'
  BY <1>0, <1>7, CloseKeeps, KeptIsInv DEF Close
<1>8. ASSUME NEW fd \in FDs, NEW off \in 0 .. MaxSeek + 1, NEW n \in 1 .. MaxCount,
             \/ Begin("read", fd, off, n, 0)
             \/ \E byte \in Bytes : Begin("write", fd, off, n, byte)
      PROVE  Inv'
  <2>1. off \in Nat /\ n \in Nat /\ Bytes \subseteq Nat
    BY <1>0, Sizes, FileIOAssumption
  <2>2. CASE Begin("read", fd, off, n, 0)
    BY <2>1, <2>2, BeginKeeps
  <2>3. ASSUME NEW byte \in Bytes, Begin("write", fd, off, n, byte) PROVE Inv'
    BY <2>1, <2>3, BeginKeeps
  <2> QED BY <1>8, <2>2, <2>3
<1>9. ASSUME NEW b \in avail, FillHole(b) \/ AllocToWrite(b) PROVE Inv'
  BY <1>9, AllocKeeps
<1>10. CASE UNCHANGED vars
  BY <1>10 DEF vars, Inv, Typed, CallShape, Runs, NamesLinked, HeldByDescriptors,
               BlocksOwnedOnce
<1>11. CASE ReadBlock \/ ReadHole
  BY <1>11, ReadBlockKeeps, ReadHoleKeeps
<1>12. CASE ReadError \/ ReadEnd \/ WriteStops \/ WriteEnd \/ Return
  BY <1>12, EndKeeps
<1>13. CASE WriteBlock \/ WriteMisses
  BY <1>13, WriteBlockKeeps, WriteMissesKeeps
<1> QED BY <1>1, <1>2, <1>3, <1>4, <1>5, <1>6, <1>7, <1>8, <1>9, <1>10, <1>11, <1>12, <1>13
        DEF Next

THEOREM Consistent == Spec => []Inv
BY InvInit, InvNext, PTL DEF Spec

(* However calls ended, an inode is held once for each descriptor that is  *)
(* open on it, and in use as long as it has a name or a holder: no path of *)
(* open1, copen, closef, unlink or truncate loses or doubles an iput.      *)
THEOREM FilesAreHeld == Spec => []HeldByDescriptors
<1>1. Inv => HeldByDescriptors
  BY DEF Inv
<1> QED BY <1>1, Consistent, PTL

(* A block is free or in one place of one file, whatever step of readi,    *)
(* writei, rwip or itrunc ended a call.                                    *)
THEOREM BlocksHaveOneOwner == Spec => []BlocksOwnedOnce
<1>1. Inv => BlocksOwnedOnce
  BY DEF Inv
<1> QED BY <1>1, Consistent, PTL

-----------------------------------------------------------------------------
(* That the calls are those of a store: contents, byte by byte.            *)

(* Byte x of a sequence, and of everything after its end. *)
Content(t, x) == IF x < Len(t) THEN t[x + 1] ELSE 0

(* File i has the contents t, and zeros where nothing was ever written. *)
Holds(i, t) ==
  /\ inode[i].size = Len(t)
  /\ \A x \in Nat : ByteAt(inode[i], x) = Content(t, x)

LEMMA SameContent ==
  ASSUME NEW s \in Seq(Nat), NEW t \in Seq(Nat), Len(s) = Len(t),
         \A x \in Nat : Content(s, x) = Content(t, x)
  PROVE  s = t
<1>1. \A k \in 1 .. Len(s) : s[k] = t[k]
  <2> TAKE k \in 1 .. Len(s)
  <2>1. PICK x \in Nat : x < Len(s) /\ x + 1 = k
    <3>1. k - 1 \in Nat /\ k - 1 < Len(s) /\ (k - 1) + 1 = k
      OBVIOUS
    <3> QED BY <3>1, Zenon
  <2>2. Content(s, x) = s[k] /\ Content(t, x) = t[k]
    BY <2>1 DEF Content
  <2> QED BY <2>1, <2>2
<1> QED BY <1>1, SeqEqual

LEMMA ContentTyped ==
  ASSUME NEW t \in Seq(Nat), NEW x \in Nat
  PROVE  Content(t, x) \in Nat
BY DEF Content

LEMMA HoldsIsText ==
  ASSUME Inv, NEW i \in Inos, NEW t \in Seq(Nat), Holds(i, t)
  PROVE  Text(i) = t
<1>1. Text(i) \in Seq(Nat)
  BY ContentsRead
<1>2. Len(t) \in Nat /\ inode[i].size = Len(t)
  BY DEF Holds
<1>3. Text(i) = [k \in 1 .. Len(t) |-> ByteAt(inode[i], k - 1)]
  BY <1>2 DEF Text
<1>4. Len(Text(i)) = Len(t)
  BY <1>2, <1>3
<1>5. \A k \in 1 .. Len(t) : Text(i)[k] = t[k]
  <2> TAKE k \in 1 .. Len(t)
  <2>1. k - 1 \in Nat /\ k - 1 < Len(t) /\ (k - 1) + 1 = k
    OBVIOUS
  <2>2. Text(i)[k] = ByteAt(inode[i], k - 1)
    BY <1>3
  <2> QED BY <2>1, <2>2 DEF Holds, Content
<1> QED BY <1>1, <1>4, <1>5

(* There are zeros after the end of file i. *)
Ends(i) == \A x \in Nat : x >= inode[i].size => ByteAt(inode[i], x) = 0

LEMMA TextHeld ==
  ASSUME Inv, NEW i \in Inos, Ends(i)
  PROVE  Text(i) \in Seq(Nat) /\ Holds(i, Text(i))
<1>1. Text(i) \in Seq(Nat)
  BY ContentsRead
<1>2. inode[i].size \in Nat
  BY DEF Inv, Typed, Inodes
<1>3. Len(Text(i)) = inode[i].size
  BY <1>2 DEF Text
<1>4. ASSUME NEW x \in Nat PROVE ByteAt(inode[i], x) = Content(Text(i), x)
  <2>1. CASE x < inode[i].size
    <3>1. x + 1 \in 1 .. inode[i].size /\ (x + 1) - 1 = x
      BY <2>1, <1>2
    <3>2. Text(i)[x + 1] = ByteAt(inode[i], x)
      BY <3>1 DEF Text
    <3> QED BY <3>2, <2>1, <1>3 DEF Content
  <2>2. CASE ~(x < inode[i].size)
    BY <2>2, <1>2, <1>3 DEF Ends, Content
  <2> QED BY <2>1, <2>2
<1> QED BY <1>1, <1>3, <1>4 DEF Holds

LEMMA HoldsEnds ==
  ASSUME Inv, NEW i \in Inos, NEW t \in Seq(Nat), Holds(i, t)
  PROVE  Ends(i)
<1>1. Len(t) \in Nat
  OBVIOUS
<1>2. \A x \in Nat : x >= Len(t) => Content(t, x) = 0
  BY <1>1 DEF Content
<1> QED BY <1>2 DEF Holds, Ends

-----------------------------------------------------------------------------
(* What the operators of FileStore do to the contents.                     *)
LEMMA UptoDoes ==
  ASSUME NEW t \in Seq(Nat), NEW len \in Nat
  PROVE  LET u == FS!Upto(t, len) IN
           /\ u \in Seq(Nat)
           /\ Len(u) = IF Len(t) < len THEN len ELSE Len(t)
           /\ \A x \in Nat : Content(u, x) = Content(t, x)
<1>1. PICK m \in Nat : m = IF Len(t) < len THEN len ELSE Len(t)
  OBVIOUS
<1>2. FS!Max({Len(t), len}) = m
  BY <1>1 DEF FS!Max
<1>3. PICK u : u = [k \in 1 .. m |-> IF k <= Len(t) THEN t[k] ELSE 0]
  OBVIOUS
<1>4. FS!Upto(t, len) = u
  BY <1>2, <1>3 DEF FS!Upto
<1>5. u \in Seq(Nat) /\ Len(u) = m
  <2>1. u \in [1 .. m -> Nat]
    BY <1>3
  <2> QED BY <2>1, <1>3
<1>6. \A x \in Nat : Content(u, x) = Content(t, x)
  <2> TAKE x \in Nat
  <2>1. CASE x < m
    <3>1. x + 1 \in 1 .. m
      BY <2>1
    <3>2. u[x + 1] = IF x + 1 <= Len(t) THEN t[x + 1] ELSE 0
      BY <3>1, <1>3
    <3> QED BY <3>2, <2>1, <1>5 DEF Content
  <2>2. CASE ~(x < m)
    BY <2>2, <1>1, <1>5 DEF Content
  <2> QED BY <2>1, <2>2
<1> QED BY <1>1, <1>4, <1>5, <1>6

LEMMA WrittenDoes ==
  ASSUME NEW t \in Seq(Nat), NEW off \in Nat, NEW n \in Nat, NEW b \in Nat
  PROVE  LET w == FS!Written(t, off, n, b) IN
           /\ w \in Seq(Nat)
           /\ Len(w) = IF n > 0 /\ Len(t) < off + n THEN off + n ELSE Len(t)
           /\ \A x \in Nat : Content(w, x) = IF off <= x /\ x < off + n THEN b
                                             ELSE Content(t, x)
<1>1. CASE n = 0
  <2>1. FS!Written(t, off, n, b) = t
    BY <1>1 DEF FS!Written
  <2> QED BY <2>1, <1>1
<1>2. CASE n > 0
  <2>1. PICK m \in Nat : m = IF Len(t) < off + n THEN off + n ELSE Len(t)
    OBVIOUS
  <2>2. FS!Max({Len(t), off + n}) = m
    BY <2>1 DEF FS!Max
  <2>3. PICK w : w = [k \in 1 .. m |->
                        IF k > off /\ k <= off + n THEN b
                        ELSE IF k <= Len(t) THEN t[k] ELSE 0]
    OBVIOUS
  <2>4. FS!Written(t, off, n, b) = w
    <3>1. n # 0
      BY <1>2
    <3>2. FS!Written(t, off, n, b) =
            [k \in 1 .. FS!Max({Len(t), off + n}) |->
               IF k > off /\ k <= off + n THEN b
               ELSE IF k <= Len(t) THEN t[k] ELSE 0]
      BY <3>1, Zenon DEF FS!Written
    <3> QED BY <3>2, <2>2, <2>3, Zenon
  <2>5. w \in Seq(Nat) /\ Len(w) = m
    <3>1. w \in [1 .. m -> Nat]
      BY <2>3
    <3> QED BY <3>1, <2>3
  <2>6. \A x \in Nat : Content(w, x) = IF off <= x /\ x < off + n THEN b ELSE Content(t, x)
    <3> TAKE x \in Nat
    <3>1. CASE x < m
      <4>1. x + 1 \in 1 .. m
        BY <3>1
      <4>2. w[x + 1] = IF x + 1 > off /\ x + 1 <= off + n THEN b
                       ELSE IF x + 1 <= Len(t) THEN t[x + 1] ELSE 0
        BY <4>1, <2>3
      <4> QED BY <4>2, <3>1, <2>5 DEF Content
    <3>2. CASE ~(x < m)
      BY <3>2, <2>1, <2>5 DEF Content
    <3> QED BY <3>1, <3>2
  <2> QED BY <2>1, <2>4, <2>5, <2>6, <1>2
<1> QED BY <1>1, <1>2

LEMMA HoldsText ==
  Inv => \A i \in Inos : \A t \in Seq(Nat) : Holds(i, t) => Text(i) = t
BY HoldsIsText

LEMMA HoldsTextNext ==
  (Inv => \A i \in Inos : \A t \in Seq(Nat) : Holds(i, t) => Text(i) = t)'
BY HoldsText, PTL

LEMMA HoldsIsTextNext ==
  ASSUME Inv', NEW i \in Inos, NEW t \in Seq(Nat), Holds(i, t)'
  PROVE  Text(i)' = t
BY HoldsTextNext

LEMMA CutShort ==
  ASSUME NEW t \in Seq(Nat), NEW len \in Nat
  PROVE  LET u == FS!Upto(SubSeq(t, 1, FS!Min({len, Len(t)})), len) IN
           /\ u \in Seq(Nat) /\ Len(u) = len
           /\ \A x \in Nat : Content(u, x) = IF x < len THEN Content(t, x) ELSE 0
<1>1. PICK m \in Nat : m = IF len < Len(t) THEN len ELSE Len(t)
  OBVIOUS
<1>2. FS!Min({len, Len(t)}) = m
  BY <1>1 DEF FS!Min
<1>3. PICK s : s = SubSeq(t, 1, m)
  OBVIOUS
<1>4. s \in Seq(Nat) /\ Len(s) = m /\ \A k \in 1 .. m : s[k] = t[k]
  BY <1>1, <1>3
<1>5. \A x \in Nat : Content(s, x) = IF x < len THEN Content(t, x) ELSE 0
  <2> TAKE x \in Nat
  <2>1. CASE x < m
    <3>1. s[x + 1] = t[x + 1]
      BY <2>1, <1>4
    <3> QED BY <3>1, <2>1, <1>1, <1>4 DEF Content
  <2>2. CASE ~(x < m)
    BY <2>2, <1>1, <1>4 DEF Content
  <2> QED BY <2>1, <2>2
<1>6. PICK u : u = FS!Upto(s, len)
  OBVIOUS
<1>7. /\ u \in Seq(Nat) /\ Len(u) = IF Len(s) < len THEN len ELSE Len(s)
      /\ \A x \in Nat : Content(u, x) = Content(s, x)
  BY <1>4, <1>6, UptoDoes
<1>8. FS!Upto(SubSeq(t, 1, FS!Min({len, Len(t)})), len) = u
  BY <1>2, <1>3, <1>6
<1>9. Len(u) = len
  BY <1>1, <1>4, <1>7
<1> QED BY <1>5, <1>7, <1>8, <1>9

-----------------------------------------------------------------------------
(* What the store is between two calls.                                    *)

(* An inode with a link has a name, one that nobody has has no contents,   *)
(* and the sizes of V6 are those its 24 bits reach.                        *)
Linked == \A i \in Inos : inode[i].nlink > 0 => \E n \in Names : name[n] = i

Buried == \A i \in Inos : ~inode[i].used => inode[i].size = 0

Sized == kernel = "v6" => \A i \in Inos : inode[i].size < SizeRange

Writes(i) == call.stage = "rw" /\ call.op = "write" /\ fp.ino = i

(* There are zeros after the end of each file, but of one being written.   *)
Cleared == \A i \in Inos : ~Writes(i) => Ends(i)

Rests == Linked /\ Buried /\ Sized /\ Cleared

(* A file is in use as long as the store has it. *)
LEMMA UsedIsAlive ==
  ASSUME Inv, Linked, NEW i \in Inos
  PROVE  inode[i].used <=> FS!Alive(i, name, ofile)
<1>1. /\ inode[i].count = Cardinality(Holders(i))
      /\ (inode[i].used <=> inode[i].nlink > 0 \/ inode[i].count > 0)
  BY DEF Inv, HeldByDescriptors, Holders
<1>2. inode[i].nlink > 0 <=> \E n \in Names : name[n] = i
  <2>1. i # 0
    BY FileIOAssumption
  <2>2. ASSUME NEW n \in Names, name[n] = i PROVE inode[i].nlink = 1
    BY <2>1, <2>2 DEF Inv, NamesLinked
  <2> QED BY <2>2 DEF Linked
<1>3. inode[i].count > 0 <=> \E fd \in FDs : ofile[fd].ino = i
  <2>1. CASE \E fd \in FDs : ofile[fd].ino = i
    BY <2>1, OpenIsHeld DEF Inv
  <2>2. CASE ~ \E fd \in FDs : ofile[fd].ino = i
    <3>1. Holders(i) = {}
      BY <2>2 DEF Holders
    <3>2. Cardinality(Holders(i)) = 0
      BY <3>1, FS_EmptySet
    <3> QED BY <3>2, <2>2, <1>1
  <2> QED BY <2>1, <2>2
<1> QED BY <1>1, <1>2, <1>3 DEF FS!Alive

LEMMA UsedAlive ==
  Inv /\ Linked => \A i \in Inos : inode[i].used <=> FS!Alive(i, name, ofile)
BY UsedIsAlive

LEMMA UsedAliveNext ==
  (Inv /\ Linked => \A i \in Inos : inode[i].used <=> FS!Alive(i, name, ofile))'
BY UsedAlive, PTL

(* The bytes of a file whose blocks nobody writes. *)
LEMMA BytesKept ==
  ASSUME Inv, NEW i \in Inos, inode'[i].addr = inode[i].addr,
         \A b \in BlocksOf(inode[i]) : data'[b] = data[b]
  PROVE  \A x \in Nat : ByteAt(inode[i], x)' = ByteAt(inode[i], x)
<1> TAKE x \in Nat
<1>1. PICK b : b = IF x \div BSIZE \in Bns THEN inode[i].addr[x \div BSIZE] ELSE 0
  OBVIOUS
<1>2. ByteAt(inode[i], x) = IF b = 0 THEN 0 ELSE data[b][x % BSIZE]
  BY <1>1 DEF ByteAt
<1>3. ByteAt(inode[i], x)' = IF b = 0 THEN 0 ELSE data'[b][x % BSIZE]
  BY <1>1 DEF ByteAt
<1>4. b # 0 => b \in BlocksOf(inode[i])
  <2>1. inode[i] \in Inodes
    BY DEF Inv, Typed
  <2> QED BY <2>1, <1>1, InBlocks
<1> QED BY <1>2, <1>3, <1>4

(* File i keeps its contents, or loses them all. *)
Stays(i) ==
  /\ inode'[i].size = inode[i].size /\ inode'[i].addr = inode[i].addr

Emptied(i) == inode'[i].size = 0 /\ inode'[i].addr = NoBlocks

LEMMA StaysText ==
  ASSUME Inv, NEW i \in Inos, Stays(i), \A b \in BlocksOf(inode[i]) : data'[b] = data[b]
  PROVE  Text(i)' = Text(i) /\ (Ends(i) => Ends(i)')
<1>1. \A x \in Nat : ByteAt(inode[i], x)' = ByteAt(inode[i], x)
  BY BytesKept DEF Stays
<1>2. inode'[i].size = inode[i].size /\ inode[i].size \in Nat
  BY DEF Stays, Inv, Typed, Inodes
<1>3. \A k \in 1 .. inode[i].size : ByteAt(inode[i], k - 1)' = ByteAt(inode[i], k - 1)
  <2> TAKE k \in 1 .. inode[i].size
  <2>1. k - 1 \in Nat
    BY <1>2
  <2> QED BY <2>1, <1>1
<1>4. Text(i)' = Text(i)
  BY <1>2, <1>3 DEF Text
<1>5. ASSUME Ends(i) PROVE Ends(i)'
  BY <1>1, <1>2, <1>5 DEF Ends
<1> QED BY <1>4, <1>5

LEMMA EmptiedText ==
  ASSUME NEW i \in Inos, Emptied(i)
  PROVE  Text(i)' = <<>> /\ Ends(i)'
<1>1. \A x \in Nat : ByteAt(inode[i], x)' = 0
  BY DEF Emptied, NoBlocks, ByteAt
<1>2. Text(i)' = <<>>
  BY DEF Emptied, Text
<1> QED BY <1>1, <1>2 DEF Ends

-----------------------------------------------------------------------------
(* The calls on names and descriptors are steps of the store.              *)
LEMMA ShownText ==
  call.stage # "rw" => Outside = [i \in Inos |-> Text(i)]
BY DEF Outside

LEMMA ShownTextNext ==
  (call.stage # "rw" => Outside = [i \in Inos |-> Text(i)])'
BY ShownText, PTL

LEMMA QuietShown ==
  ASSUME call.stage = "idle", call' = call
  PROVE  /\ Answered = FS!None /\ Answered' = Answered
         /\ Outside = [i \in Inos |-> Text(i)]
         /\ Outside' = [i \in Inos |-> Text(i)']
<1>1. Answered = FS!None
  BY DEF Answered, FS!None
<1>2. Answered' = Answered
  BY DEF Answered
<1>3. Outside = [i \in Inos |-> Text(i)]
  BY ShownText
<1>4. Outside' = [i \in Inos |-> Text(i)]'
  BY ShownTextNext
<1> QED BY <1>1, <1>2, <1>3, <1>4

(* The fields an inode keeps when its count changes. *)
SameFile(q, r) ==
  q.used = r.used /\ q.nlink = r.nlink /\ q.size = r.size /\ q.addr = r.addr

LEMMA PutBack ==
  ASSUME NEW I \in [Inos -> Inodes], NEW A, NEW i \in Inos,
         I[i].count > 0, Iput(I, A, i)
  PROVE  /\ \A j \in Inos : j # i => inode'[j] = I[j]
         /\ \/ inode'[i] = FreeInode /\ I[i].nlink = 0
            \/ SameFile(inode'[i], I[i])
<1>1. \/ inode'[i] = FreeInode /\ I[i].nlink = 0
      \/ inode'[i] = [I[i] EXCEPT !.count = I[i].count - 1]
  BY IputDoes
<1>2. PICK r \in Inodes : r = I[i]
  OBVIOUS
<1>3. r.count - 1 \in Nat
  BY <1>2 DEF Inodes
<1>4. CASE inode'[i] = [I[i] EXCEPT !.count = I[i].count - 1]
  <2>1. inode'[i] = [r EXCEPT !.count = r.count - 1]
    BY <1>2, <1>4
  <2> QED BY <2>1, <1>2, <1>3, CountSet, IputDoes DEF SameFile
<1> QED BY <1>1, <1>4, IputDoes

LEMMA IgetFile ==
  ASSUME Inv, NEW i \in Inos
  PROVE  /\ SameFile(Iget(i)[i], inode[i])
         /\ [Iget(i) EXCEPT ![i] = Trunc(@)][i].size = 0
         /\ [Iget(i) EXCEPT ![i] = Trunc(@)][i].addr = NoBlocks
<1>1. inode \in [Inos -> Inodes] /\ inode[i] \in Inodes
  BY DEF Inv, Typed
<1>2. PICK c \in Nat : c = inode[i].count + 1
  BY <1>1 DEF Inodes
<1>3. PICK r \in Inodes : r = [inode[i] EXCEPT !.count = c]
  BY <1>1, CountSet
<1>4. Iget(i) = [inode EXCEPT ![i] = r]
  BY <1>2, <1>3 DEF Iget
<1>5. Iget(i)[i] = r /\ Iget(i) \in [Inos -> Inodes]
  BY <1>1, <1>4
<1>6. SameFile(r, inode[i])
  BY <1>1, <1>3, CountSet DEF SameFile
<1>7. Trunc(r).size = 0 /\ Trunc(r).addr = NoBlocks
  BY DEF Trunc, Inodes
<1>8. [Iget(i) EXCEPT ![i] = Trunc(@)][i] = Trunc(r)
  BY <1>5
<1> QED BY <1>5, <1>6, <1>7, <1>8

LEMMA RestsKept ==
  ASSUME Inv, Rests, Linked', call.stage = "idle", UNCHANGED <<kernel, data, call>>,
         \A j \in Inos : \/ Emptied(j)
                         \/ Stays(j) /\ (inode[j].used => inode'[j].used)
  PROVE  Rests'
<1>1. Buried'
  BY DEF Rests, Buried, Emptied, Stays
<1>2. Sized'
  <2>1. \A j \in Inos : inode[j].size \in Nat
    BY DEF Inv, Typed, Inodes
  <2>2. ASSUME kernel = "v6", NEW j \in Inos PROVE inode'[j].size < SizeRange
    <3>1. inode[j].size < SizeRange
      BY <2>2 DEF Rests, Sized
    <3>2. SizeRange \in Nat
      BY Sizes, BnsReach DEF SizeRange
    <3>3. 0 < SizeRange
      BY <2>1, <3>1, <3>2
    <3> QED BY <3>1, <3>3 DEF Emptied, Stays
  <2> QED BY <2>2 DEF Sized
<1>3. ASSUME NEW j \in Inos PROVE Ends(j)'
  <2>1. ~Writes(j)
    BY DEF Writes
  <2>2. Ends(j)
    BY <2>1 DEF Rests, Cleared
  <2> QED BY <2>2, StaysText, EmptiedText
<1> QED BY <1>1, <1>2, <1>3 DEF Rests, Cleared

(* Names and descriptors are lost, and with the last of a file the file. *)
LEMMA GoneShown ==
  ASSUME Inv, Inv', Rests', call.stage = "idle", UNCHANGED <<data, call>>,
         \A j \in Inos : Stays(j) \/ ~inode'[j].used
  PROVE  Outside' = FS!Gone(name', ofile', Outside)
<1>1. Outside = [j \in Inos |-> Text(j)] /\ Outside' = [j \in Inos |-> Text(j)']
  BY QuietShown
<1>2. ASSUME NEW j \in Inos
      PROVE  Text(j)' = IF FS!Alive(j, name', ofile') THEN Outside[j] ELSE <<>>
  <2>1. inode'[j].used <=> FS!Alive(j, name', ofile')
    BY UsedAliveNext DEF Rests
  <2>2. CASE inode'[j].used
    <3>1. Text(j)' = Text(j)
      BY <2>2, StaysText
    <3> QED BY <3>1, <2>1, <2>2, <1>1
  <2>3. CASE ~inode'[j].used
    <3>1. inode'[j].size = 0
      BY <2>3 DEF Rests, Buried
    <3>2. Text(j)' = <<>>
      BY <3>1 DEF Text
    <3> QED BY <3>2, <2>1, <2>3
  <2> QED BY <2>2, <2>3
<1> QED BY <1>1, <1>2 DEF FS!Gone

LEMMA MknodShows ==
  ASSUME Inv, Rests, Inv', NEW n \in Names, NEW i \in Inos, Mknod(n, i)
  PROVE  Rests' /\ FS!Create(n, i)
<1>1. /\ call.stage = "idle" /\ name[n] = 0 /\ ~inode[i].used
      /\ name' = [name EXCEPT ![n] = i] /\ UNCHANGED <<kernel, data, avail, ofile, call>>
      /\ inode' = [inode EXCEPT ![i] = [inode[i] EXCEPT !.used = TRUE, !.nlink = 1]]
  BY DEF Mknod, Idle, Inv, Typed
<1>2. inode \in [Inos -> Inodes] /\ inode[i] \in Inodes /\ name \in [Names -> Inos \union {0}]
  BY DEF Inv, Typed
<1>3. inode'[i].used /\ Stays(i) /\ \A j \in Inos : j # i => inode'[j] = inode[j]
  <2>1. PICK r \in Inodes : r = [inode[i] EXCEPT !.used = TRUE]
    BY <1>2, UsedSet
  <2>2. r.used /\ r.size = inode[i].size /\ r.addr = inode[i].addr
    BY <1>2, <2>1, UsedSet
  <2>3. inode'[i] = [r EXCEPT !.nlink = 1]
    BY <1>1, <1>2, <2>1
  <2> QED BY <2>2, <2>3, <1>1, <1>2, LinkSet DEF Stays
<1>4. \A j \in Inos : Stays(j) /\ (inode[j].used => inode'[j].used)
  BY <1>3 DEF Stays
<1>5. Linked'
  <2> SUFFICES ASSUME NEW j \in Inos, inode'[j].nlink > 0 PROVE \E m \in Names : name'[m] = j
    BY DEF Linked
  <2>1. CASE j = i
    BY <2>1, <1>1, <1>2
  <2>2. CASE j # i
    <3>1. inode[j].nlink > 0
      BY <2>2, <1>3
    <3>2. PICK m \in Names : name[m] = j
      BY <3>1 DEF Rests, Linked
    <3>3. m # n
      BY <3>2, <1>1, FileIOAssumption
    <3> QED BY <3>2, <3>3, <1>1, <1>2
  <2> QED BY <2>1, <2>2
<1>6. Rests'
  BY <1>1, <1>4, <1>5, RestsKept
<1>7. /\ Answered = FS!None /\ Answered' = Answered
      /\ Outside = [j \in Inos |-> Text(j)]
      /\ Outside' = [j \in Inos |-> Text(j)']
  BY <1>1, QuietShown
<1>8. \A j \in Inos : Text(j)' = Text(j)
  BY <1>1, <1>4, StaysText
<1>9. Outside' = Outside
  BY <1>7, <1>8
<1>10. ~FS!Alive(i, name, ofile)
  BY <1>1, UsedIsAlive DEF Rests
<1> QED BY <1>1, <1>6, <1>7, <1>9, <1>10 DEF FS!Create

LEMMA UnlinkShows ==
  ASSUME Inv, Rests, Inv', NEW n \in Names, Unlink(n)
  PROVE  Rests' /\ FS!Unlink(n)
<1>1. /\ call.stage = "idle" /\ name[n] # 0 /\ name' = [name EXCEPT ![n] = 0]
      /\ Iput([Iget(name[n]) EXCEPT ![name[n]].nlink = @ - 1], avail, name[n])
      /\ UNCHANGED <<kernel, data, ofile, call>>
  BY DEF Unlink, Idle
<1>2. PICK i \in Inos : i = name[n] /\ inode[i].nlink = 1
  BY <1>1, Named
<1>3. PICK I : I = [Iget(i) EXCEPT ![i].nlink = @ - 1]
  OBVIOUS
<1>4. inode \in [Inos -> Inodes] /\ inode[i] \in Inodes /\ name \in [Names -> Inos \union {0}]
  BY DEF Inv, Typed
<1>5. PICK r \in Inodes : r = Iget(i)[i]
  BY IgetDoes, <1>4
<1>6. SameFile(r, inode[i]) /\ r.count = inode[i].count + 1 /\ r.nlink = 1
  BY IgetFile, IgetDoes, <1>2, <1>4, <1>5
<1>7. r.nlink - 1 = 0
  BY <1>6
<1>8. I = [Iget(i) EXCEPT ![i] = [r EXCEPT !.nlink = 0]]
  BY <1>3, <1>5, <1>7, <1>4, IgetDoes
<1>9. PICK q \in Inodes : q = [r EXCEPT !.nlink = 0]
  BY LinkSet
<1>10. /\ q.nlink = 0 /\ q.used = r.used /\ q.count = r.count
       /\ q.size = r.size /\ q.addr = r.addr
  BY <1>9, LinkSet
<1>11. /\ I \in [Inos -> Inodes] /\ I[i] = q /\ \A j \in Inos : j # i => I[j] = inode[j]
  BY <1>4, <1>8, <1>9, IgetDoes
<1>12. I[i].count > 0
  BY <1>4, <1>6, <1>10, <1>11 DEF Inodes
<1>13. Iput(I, avail, i)
  BY <1>1, <1>2, <1>3
<1>14. /\ \A j \in Inos : j # i => inode'[j] = inode[j]
       /\ inode'[i] = FreeInode \/ SameFile(inode'[i], q)
  BY <1>11, <1>12, <1>13, PutBack
<1>15. inode'[i].nlink = 0 /\ ((~inode'[i].used /\ Emptied(i)) \/ (Stays(i) /\ inode'[i].used = inode[i].used))
  BY <1>6, <1>10, <1>14 DEF SameFile, FreeInode, Emptied, Stays
<1>16. \A j \in Inos : j # i => Stays(j) /\ inode'[j].used = inode[j].used
  BY <1>14 DEF Stays
<1>17. Linked'
  <2> SUFFICES ASSUME NEW j \in Inos, inode'[j].nlink > 0 PROVE \E m \in Names : name'[m] = j
    BY DEF Linked
  <2>1. j # i /\ inode[j].nlink > 0
    BY <1>14, <1>15
  <2>2. PICK m \in Names : name[m] = j
    BY <2>1 DEF Rests, Linked
  <2> QED BY <2>1, <2>2, <1>1, <1>2, <1>4
<1>18. Rests'
  BY <1>1, <1>15, <1>16, <1>17, RestsKept
<1>19. Outside' = FS!Gone(name', ofile', Outside)
  BY <1>1, <1>15, <1>16, <1>18, GoneShown
<1>20. Answered = FS!None /\ Answered' = Answered
  BY <1>1, QuietShown
<1> QED BY <1>1, <1>18, <1>19, <1>20 DEF FS!Unlink

LEMMA CloseShows ==
  ASSUME Inv, Rests, Inv', NEW fd \in FDs, Close(fd)
  PROVE  Rests' /\ FS!Close(fd)
<1>1. /\ call.stage = "idle" /\ ofile[fd] # Closed /\ ofile' = [ofile EXCEPT ![fd] = Closed]
      /\ Iput(inode, avail, ofile[fd].ino)
      /\ UNCHANGED <<kernel, name, data, call>>
  BY DEF Close, Idle
<1>2. PICK i \in Inos : i = ofile[fd].ino
  BY <1>1 DEF Inv, Typed
<1>3. inode \in [Inos -> Inodes] /\ inode[i].count > 0
  BY <1>2, OpenIsHeld DEF Inv, Typed
<1>4. /\ \A j \in Inos : j # i => inode'[j] = inode[j]
      /\ \/ inode'[i] = FreeInode /\ inode[i].nlink = 0
         \/ SameFile(inode'[i], inode[i])
  BY <1>1, <1>2, <1>3, PutBack
<1>5. /\ inode'[i].nlink = inode[i].nlink
      /\ \/ ~inode'[i].used /\ Emptied(i)
         \/ Stays(i) /\ inode'[i].used = inode[i].used
  BY <1>4 DEF SameFile, FreeInode, Emptied, Stays
<1>6. \A j \in Inos : j # i => Stays(j) /\ inode'[j].used = inode[j].used
  BY <1>4 DEF Stays
<1>7. Linked'
  BY <1>1, <1>4, <1>5 DEF Rests, Linked
<1>8. Rests'
  BY <1>1, <1>5, <1>6, <1>7, RestsKept
<1>9. Outside' = FS!Gone(name', ofile', Outside)
  BY <1>1, <1>5, <1>6, <1>8, GoneShown
<1>10. Answered = FS!None /\ Answered' = Answered
  BY <1>1, QuietShown
<1>11. FS!Closed = Closed
  BY DEF FS!Closed, Closed
<1> QED BY <1>1, <1>8, <1>9, <1>10, <1>11 DEF FS!Close

(* Whoever had one more reference to file i, and may have emptied it, has  *)
(* given it back, or a descriptor has it.                                  *)
LEMMA TakenShows ==
  ASSUME Inv, Rests, NEW n \in Names, NEW i \in Inos, i = name[n], NEW I, NEW A,
         Taken(I, A, i), NEW empty \in BOOLEAN,
         IF empty THEN I[i].size = 0 /\ I[i].addr = NoBlocks
         ELSE I[i].size = inode[i].size /\ I[i].addr = inode[i].addr,
         inode' = I \/ Iput(I, A, i),
         call.stage = "idle", UNCHANGED <<kernel, name, data, call>>
  PROVE  /\ Rests' /\ Answered = FS!None /\ Answered' = Answered
         /\ Outside' = IF empty THEN FS!Empty(i) ELSE Outside
<1>1. inode[i].nlink = 1 /\ inode[i].used /\ inode[i].count \in Nat
  BY Named, FileIOAssumption
<1>2. /\ I \in [Inos -> Inodes] /\ I[i].count = inode[i].count + 1
      /\ I[i].nlink = 1 /\ I[i].used
      /\ \A j \in Inos : j # i => I[j] = inode[j]
  BY <1>1 DEF Taken
<1>3. /\ \A j \in Inos : j # i => inode'[j] = inode[j]
      /\ SameFile(inode'[i], I[i])
  <2>1. CASE inode' = I
    BY <2>1, <1>2 DEF SameFile
  <2>2. CASE Iput(I, A, i)
    <3>1. I[i].count > 0 /\ I[i].nlink # 0
      BY <1>1, <1>2
    <3> QED BY <3>1, <2>2, <1>2, PutBack
  <2> QED BY <2>1, <2>2
<1>4. /\ inode'[i].used /\ inode'[i].nlink = 1
      /\ IF empty THEN Emptied(i) ELSE Stays(i)
  BY <1>2, <1>3 DEF SameFile, Emptied, Stays
<1>5. \A j \in Inos : j # i => Stays(j)
  BY <1>3 DEF Stays
<1>6. Linked'
  BY <1>1, <1>3, <1>4 DEF Rests, Linked
<1>7. \A j \in Inos : Emptied(j) \/ (Stays(j) /\ (inode[j].used => inode'[j].used))
  BY <1>3, <1>4, <1>5
<1>8. Rests'
  BY <1>6, <1>7, RestsKept
<1>9. /\ Answered = FS!None /\ Answered' = Answered
      /\ Outside = [j \in Inos |-> Text(j)]
      /\ Outside' = [j \in Inos |-> Text(j)']
  BY QuietShown
<1>10. \A j \in Inos : j # i => Text(j)' = Text(j)
  BY <1>5, StaysText
<1>11. Outside' = IF empty THEN FS!Empty(i) ELSE Outside
  <2>1. CASE empty
    <3>1. Text(i)' = <<>>
      BY <2>1, <1>4, EmptiedText
    <3> QED BY <3>1, <2>1, <1>9, <1>10 DEF FS!Empty
  <2>2. CASE ~empty
    <3>1. Text(i)' = Text(i)
      BY <2>2, <1>4, StaysText
    <3> QED BY <3>1, <2>2, <1>9, <1>10
  <2> QED BY <2>1, <2>2
<1> QED BY <1>8, <1>9, <1>11

(* The variables of the store, and the steps of it that FileIO takes *)
FSvars == <<Outside, name, ofile, Answered>>

LEMMA LowestSame ==
  {fd \in FDs : ofile[fd] = FS!Closed} = Unused /\ FS!Min(Unused) = Min(Unused)
BY DEF Unused, FS!Closed, Closed, FS!Min, Min

LEMMA OpenGranted ==
  ASSUME NEW n \in Names, NEW flag, NEW trunc \in BOOLEAN,
         name[n] # 0, Answered = FS!None, UNCHANGED <<name, Answered>>,
         ofile' = IF Unused = {} THEN ofile
                  ELSE [ofile EXCEPT ![Min(Unused)] = [ino |-> name[n], flag |-> flag]],
         Outside' = IF trunc THEN FS!Empty(name[n]) ELSE Outside
  PROVE  FS!Open(n, flag, trunc)
<1>1. ofile' = IF {fd \in FDs : ofile[fd] = FS!Closed} = {} THEN ofile
               ELSE [ofile EXCEPT ![FS!Min({fd \in FDs : ofile[fd] = FS!Closed})] =
                       [ino |-> name[n], flag |-> flag]]
  BY LowestSame
<1> QED BY <1>1, Zenon DEF FS!Open

LEMMA OpenShows ==
  ASSUME Inv, Rests, NEW n \in Names, NEW flag \in Flags, NEW trunc \in BOOLEAN,
         NEW granted \in BOOLEAN, Open(n, flag, trunc, granted)
  PROVE  Rests' /\ (FS!Open(n, flag, trunc) \/ UNCHANGED FSvars)
<1>1. name[n] # 0 /\ call.stage = "idle" /\ UNCHANGED <<kernel, name, data, call>>
  BY DEF Open, Idle
<1>2. PICK i \in Inos : i = name[n]
  BY <1>1, Named
<1>3. PICK empty \in BOOLEAN : empty = (trunc /\ granted)
  OBVIOUS
<1>4. PICK I, A : /\ I = IF empty THEN [Iget(i) EXCEPT ![i] = Trunc(@)] ELSE Iget(i)
                  /\ A = IF empty THEN avail \union BlocksOf(inode[i]) ELSE avail
  OBVIOUS
<1>5. Taken(I, A, i)
  BY <1>4, IgetTaken
<1>6. IF empty THEN I[i].size = 0 /\ I[i].addr = NoBlocks
      ELSE I[i].size = inode[i].size /\ I[i].addr = inode[i].addr
  BY <1>4, IgetFile DEF SameFile
<1>7. \/ /\ granted /\ Unused # {} /\ inode' = I
         /\ ofile' = [ofile EXCEPT ![Min(Unused)] = [ino |-> name[n], flag |-> flag]]
      \/ ~granted /\ Iput(I, A, i) /\ ofile' = ofile
      \/ granted /\ Unused = {} /\ Iput(I, A, i) /\ ofile' = ofile
  BY <1>2, <1>3, <1>4 DEF Open
<1>8. /\ Rests' /\ Answered = FS!None /\ Answered' = Answered
      /\ Outside' = IF empty THEN FS!Empty(i) ELSE Outside
  BY <1>1, <1>2, <1>5, <1>6, <1>7, TakenShows
<1>9. CASE granted
  <2>1. ofile' = IF Unused = {} THEN ofile
                 ELSE [ofile EXCEPT ![Min(Unused)] = [ino |-> name[n], flag |-> flag]]
    BY <1>7, <1>9
  <2>2. Outside' = IF trunc THEN FS!Empty(name[n]) ELSE Outside
    BY <1>2, <1>3, <1>8, <1>9
  <2> QED BY <2>1, <2>2, <1>1, <1>8, OpenGranted
<1>10. CASE ~granted
  BY <1>1, <1>3, <1>7, <1>8, <1>10 DEF FSvars
<1> QED BY <1>8, <1>9, <1>10

LEMMA OpenDescriptorFirstShows ==
  ASSUME Inv, Rests, NEW n \in Names, NEW flag \in Flags,
         NEW granted \in BOOLEAN, OpenDescriptorFirst(n, flag, granted)
  PROVE  Rests' /\ (FS!Open(n, flag, FALSE) \/ UNCHANGED FSvars)
<1>1. /\ name[n] # 0 /\ Unused # {} /\ call.stage = "idle"
      /\ UNCHANGED <<kernel, name, data, call>>
  BY DEF OpenDescriptorFirst, Idle
<1>2. PICK i \in Inos : i = name[n]
  BY <1>1, Named
<1>3. PICK I : I = Iget(i)
  OBVIOUS
<1>4. Taken(I, avail, i)
  BY <1>3, IgetTaken
<1>5. I[i].size = inode[i].size /\ I[i].addr = inode[i].addr
  BY <1>3, IgetFile DEF SameFile
<1>6. \/ /\ granted /\ inode' = I
         /\ ofile' = [ofile EXCEPT ![Min(Unused)] = [ino |-> name[n], flag |-> flag]]
      \/ ~granted /\ Iput(I, avail, i) /\ ofile' = ofile
  BY <1>2, <1>3 DEF OpenDescriptorFirst
<1>7. Rests' /\ Answered = FS!None /\ Answered' = Answered /\ Outside' = Outside
  BY <1>1, <1>2, <1>4, <1>5, <1>6, TakenShows
<1>8. CASE granted
  <2>1. ofile' = IF Unused = {} THEN ofile
                 ELSE [ofile EXCEPT ![Min(Unused)] = [ino |-> name[n], flag |-> flag]]
    BY <1>1, <1>6, <1>8
  <2> QED BY <2>1, <1>1, <1>7, OpenGranted
<1>9. CASE ~granted
  BY <1>1, <1>6, <1>7, <1>9 DEF FSvars
<1> QED BY <1>7, <1>8, <1>9

LEMMA TruncateShows ==
  ASSUME Inv, Rests, NEW n \in Names, Truncate(n)
  PROVE  Rests' /\ FS!Truncate(n, 0)
<1>1. name[n] # 0 /\ call.stage = "idle" /\ UNCHANGED <<kernel, name, data, ofile, call>>
  BY DEF Truncate, Idle
<1>2. PICK i \in Inos : i = name[n]
  BY <1>1, Named
<1>3. PICK I : I = [Iget(i) EXCEPT ![i] = Trunc(@)]
  OBVIOUS
<1>4. PICK A : A = avail \union BlocksOf(inode[i])
  OBVIOUS
<1>5. Taken(I, A, i) /\ Iput(I, A, i)
  BY <1>2, <1>3, <1>4, IgetTaken DEF Truncate
<1>6. I[i].size = 0 /\ I[i].addr = NoBlocks
  BY <1>3, IgetFile
<1>7. /\ Rests' /\ Answered = FS!None /\ Answered' = Answered
      /\ Outside' = FS!Empty(i)
  BY <1>1, <1>2, <1>5, <1>6, TakenShows
<1>8. Outside[i] = Text(i) /\ Text(i) \in Seq(Nat)
  BY <1>1, QuietShown, ContentsRead
<1>9. FS!Upto(SubSeq(Outside[i], 1, FS!Min({0, Len(Outside[i])})), 0) = <<>>
  BY <1>8, CutShort
<1>10. Outside' = [Outside EXCEPT ![i] = <<>>]
  BY <1>7 DEF FS!Empty
<1>11. Outside' = [Outside EXCEPT ![name[n]] =
                     FS!Upto(SubSeq(@, 1, FS!Min({0, Len(@)})), 0)]
  BY <1>2, <1>9, <1>10
<1> QED BY <1>1, <1>7, <1>11 DEF FS!Truncate

-----------------------------------------------------------------------------
(* Files cut and grown.                                                    *)

LEMMA Product ==
  ASSUME NEW a \in Nat, NEW b \in Nat, NEW d \in Nat, a < b
  PROVE  a * d + d <= b * d
<1>1. PICK c \in Nat : b = a + 1 + c
  <2>1. b - a - 1 \in Nat /\ b = a + 1 + (b - a - 1)
    OBVIOUS
  <2> QED BY <2>1
<1>2. b * d = a * d + d + c * d
  BY <1>1
<1>3. c * d \in Nat /\ a * d \in Nat
  OBVIOUS
<1> QED BY <1>2, <1>3

LEMMA Quotient ==
  ASSUME NEW x \in Nat, NEW d \in Nat, d > 0
  PROVE  x = (x \div d) * d + (x % d)
OBVIOUS

(* Places before and after len, by their blocks. *)
LEMMA PlacesInBlocks ==
  ASSUME NEW x \in Nat, NEW len \in Nat
  PROVE  /\ x \div BSIZE \in Nat /\ x % BSIZE \in 0 .. BSIZE - 1
         /\ x < len => (x \div BSIZE) * BSIZE < len
         /\ x < len /\ x \div BSIZE = len \div BSIZE => x % BSIZE < len % BSIZE
         /\ x >= len /\ (x \div BSIZE) * BSIZE < len
            => x \div BSIZE = len \div BSIZE /\ x % BSIZE >= len % BSIZE /\ len % BSIZE # 0
<1>1. PICK d \in Nat : d = BSIZE /\ d > 0
  BY Sizes
<1>2. PICK q \in Nat, r \in Nat : q = x \div BSIZE /\ r = x % BSIZE
  BY Sizes, Divided
<1>3. PICK p \in Nat, s \in Nat : p = len \div BSIZE /\ s = len % BSIZE
  BY Sizes, Divided
<1>9. r < d /\ s < d
  BY <1>1, <1>2, <1>3, Sizes, Divided
<1>10. x = q * d + r /\ len = p * d + s
  BY <1>1, <1>2, <1>3, Quotient
<1>4. q * d \in Nat /\ p * d \in Nat
  OBVIOUS
<1>5. x < len => q * d < len
  BY <1>9, <1>10, <1>4
<1>6. x < len /\ q = p => r < s
  BY <1>9, <1>10, <1>4
<1>7. ASSUME x >= len, q * d < len PROVE q = p /\ r >= s /\ s # 0
  <2>1. ~(q < p)
    <3>1. q < p => q * d + d <= p * d
      BY Product
    <3> QED BY <3>1, <1>9, <1>10, <1>4, <1>7
  <2>2. ~(p < q)
    <3>1. p < q => p * d + d <= q * d
      BY Product
    <3> QED BY <3>1, <1>9, <1>10, <1>4, <1>7
  <2>3. q = p
    BY <2>1, <2>2
  <2> QED BY <2>3, <1>9, <1>10, <1>4, <1>7
<1> QED BY <1>1, <1>2, <1>3, <1>9, <1>5, <1>6, <1>7

(* Nobody else has the blocks of a file, or one that is free. *)
LEMMA OthersBlocks ==
  ASSUME Inv, NEW i \in Inos, NEW j \in Inos, j # i, NEW c \in BlocksOf(inode[j])
  PROVE  c \notin BlocksOf(inode[i]) /\ c \notin avail /\ c \in Blocks
<1>1. inode[i] \in Inodes /\ inode[j] \in Inodes
  BY DEF Inv, Typed
<1>2. \A b : b \in BlocksOf(inode[i]) <=> b # 0 /\ \E a \in Bns : inode[i].addr[a] = b
  BY <1>1, InBlocks
<1>3. \A b : b \in BlocksOf(inode[j]) <=> b # 0 /\ \E a \in Bns : inode[j].addr[a] = b
  BY <1>1, InBlocks
<1>4. PICK a \in Bns : inode[j].addr[a] = c /\ c # 0
  BY <1>3
<1>5. \A b \in Bns : inode[i].addr[b] # c
  BY <1>4 DEF Inv, BlocksOwnedOnce
<1>6. c \notin avail /\ c \in Blocks
  BY <1>1, InBlocks, OwnedNotFree DEF Inv
<1> QED BY <1>2, <1>5, <1>6

(* The block x of file i is in. *)
BlockOf(i, x) == IF x \div BSIZE \in Bns THEN inode[i].addr[x \div BSIZE] ELSE 0

LEMMA ByteIs ==
  ASSUME NEW i \in Inos, NEW x \in Nat
  PROVE  ByteAt(inode[i], x) = IF BlockOf(i, x) = 0 THEN 0
                               ELSE data[BlockOf(i, x)][x % BSIZE]
BY DEF ByteAt, BlockOf

LEMMA ByteIsNext ==
  ASSUME NEW i \in Inos, NEW x \in Nat
  PROVE  ByteAt(inode[i], x)' = IF BlockOf(i, x)' = 0 THEN 0
                                ELSE data'[BlockOf(i, x)'][x % BSIZE]
BY DEF ByteAt, BlockOf

LEMMA BlockTyped ==
  ASSUME Inv, NEW i \in Inos, NEW x \in Nat
  PROVE  /\ BlockOf(i, x) \in Blocks \union {0}
         /\ BlockOf(i, x) # 0 => BlockOf(i, x) \in BlocksOf(inode[i])
                                 /\ BlockOf(i, x) \notin avail
         /\ \A a \in Bns : BlockOf(i, x) # 0 /\ BlockOf(i, x) = inode[i].addr[a]
                           => a = x \div BSIZE
<1>1. inode[i] \in Inodes /\ inode[i].addr \in [Bns -> Blocks \union {0}]
  BY DEF Inv, Typed, Inodes, Addrs
<1>2. BlockOf(i, x) \in Blocks \union {0}
  BY <1>1 DEF BlockOf
<1>3. ASSUME BlockOf(i, x) # 0
      PROVE  x \div BSIZE \in Bns /\ BlockOf(i, x) = inode[i].addr[x \div BSIZE]
  BY <1>3 DEF BlockOf
<1>4. BlockOf(i, x) # 0 => BlockOf(i, x) \in BlocksOf(inode[i])
  BY <1>1, <1>3, InBlocks
<1>5. BlocksOf(inode[i]) \intersect avail = {}
  BY OwnedNotFree DEF Inv
<1>6. \A a, b \in Bns : inode[i].addr[a] # 0 /\ inode[i].addr[a] = inode[i].addr[b] => a = b
  BY DEF Inv, BlocksOwnedOnce
<1>7. \A a \in Bns : BlockOf(i, x) # 0 /\ BlockOf(i, x) = inode[i].addr[a]
                     => a = x \div BSIZE
  BY <1>3, <1>6
<1> QED BY <1>2, <1>4, <1>5, <1>7

(* Each byte before the new end is kept, and there are zeros after it. *)
CutAt(i, len) ==
  \A x \in Nat : ByteAt(inode[i], x)' = IF x < len THEN ByteAt(inode[i], x) ELSE 0

LEMMA CutShows ==
  ASSUME Inv, Inv', Rests, NEW n \in Names, NEW i \in Inos, i = name[n], NEW len \in Nat,
         inode'[i].size = len, CutAt(i, len), inode'[i].used,
         \A j \in Inos : inode'[j].nlink = inode[j].nlink,
         \A j \in Inos : j # i => inode'[j] = inode[j]
                                  /\ \A b \in BlocksOf(inode[j]) : data'[b] = data[b],
         kernel # "v6", call.stage = "idle", UNCHANGED <<kernel, name, ofile, call>>
  PROVE  Rests' /\ (len <= MaxSeek + 1 => FS!Truncate(n, len))
<1>1. Linked'
  BY DEF Rests, Linked
<1>2. Buried'
  BY DEF Rests, Buried
<1>3. Sized'
  BY DEF Sized
<1>4. ASSUME NEW j \in Inos, j # i PROVE Text(j)' = Text(j) /\ Ends(j)'
  <2>1. Stays(j) /\ Ends(j)
    BY <1>4 DEF Stays, Rests, Cleared, Writes
  <2> QED BY <2>1, <1>4, StaysText
<1>5. Ends(i)'
  <2>1. \A x \in Nat : x >= len => ByteAt(inode[i], x)' = 0
    BY DEF CutAt
  <2> QED BY <2>1 DEF Ends
<1>6. Rests'
  BY <1>1, <1>2, <1>3, <1>4, <1>5 DEF Rests, Cleared
<1>7. PICK t \in Seq(Nat) : t = Text(i) /\ Holds(i, t)
  <2>1. Ends(i)
    BY DEF Rests, Cleared, Writes
  <2> QED BY <2>1, TextHeld
<1>8. PICK u : u = FS!Upto(SubSeq(t, 1, FS!Min({len, Len(t)})), len)
  OBVIOUS
<1>9. /\ u \in Seq(Nat) /\ Len(u) = len
      /\ \A x \in Nat : Content(u, x) = IF x < len THEN Content(t, x) ELSE 0
  BY <1>8, CutShort
<1>10. Holds(i, u)'
  <2>1. \A x \in Nat : ByteAt(inode[i], x)' = Content(u, x)
    BY <1>7, <1>9 DEF CutAt, Holds
  <2>2. \A x \in Nat : Content(u, x)' = Content(u, x)
    BY DEF Content
  <2> QED BY <2>1, <2>2, <1>9 DEF Holds
<1>11. Text(i)' = u
  BY <1>9, <1>10, HoldsIsTextNext
<1>12. /\ Answered = FS!None /\ Answered' = Answered
       /\ Outside = [j \in Inos |-> Text(j)]
       /\ Outside' = [j \in Inos |-> Text(j)']
  BY QuietShown
<1>13. Outside[i] = t
  BY <1>7, <1>12
<1>14. Outside' = [Outside EXCEPT ![i] = u]
  BY <1>4, <1>11, <1>12
<1>15. Outside' = [Outside EXCEPT ![name[n]] =
                     FS!Upto(SubSeq(@, 1, FS!Min({len, Len(@)})), len)]
  BY <1>8, <1>13, <1>14
<1>16. name[n] # 0
  BY FileIOAssumption
<1> QED BY <1>6, <1>12, <1>15, <1>16 DEF FS!Truncate

LEMMA TruncateToShows ==
  ASSUME Inv, Inv', Rests, NEW n \in Names, NEW len \in 0 .. MaxSeek, TruncateTo(n, len)
  PROVE  Rests' /\ FS!Truncate(n, len)
<1>0. /\ name[n] # 0 /\ kernel # "v6" /\ call.stage = "idle"
      /\ UNCHANGED <<kernel, name, ofile, call>>
  BY DEF TruncateTo, Idle
<1>1. PICK i \in Inos : i = name[n] /\ inode[i].used
  BY <1>0, Named
<1>2. PICK old \in Inodes : old = inode[i]
  BY DEF Inv, Typed
<1>3. PICK end : end = EndBlock(old, len)
  OBVIOUS
<1> DEFINE Ended(b) == IF b = 0 THEN old ELSE [old EXCEPT !.addr[end] = b]
<1>4. PICK b \in avail \union {0} :
        /\ NeedsEnd(old, len) => end < MaxBlocks
        /\ b # 0 <=> NeedsEnd(old, len) /\ BlockAt(old, end) = 0
        /\ inode' = [inode EXCEPT ![i] = Cut(Ended(b), len)]
        /\ data' = IF b # 0 THEN [data EXCEPT ![b] = ZeroBlock]
                   ELSE IF NeedsEnd(old, len) /\ old.size > len
                        THEN TailCleared(old.addr[end], len % BSIZE)
                        ELSE data
  BY <1>1, <1>2, <1>3 DEF TruncateTo
<1>5. PICK ended : ended = Ended(b)
  OBVIOUS
<1>6. /\ ended = IF b = 0 THEN old ELSE [old EXCEPT !.addr[end] = b]
      /\ inode' = [inode EXCEPT ![i] = Cut(ended, len)]
  BY <1>4, <1>5
<1> HIDE DEF Ended
<1>7. len \in Nat /\ old.size \in Nat /\ 0 \notin Blocks
  BY Sizes, FileIOAssumption DEF Inodes
<1>8. inode \in [Inos -> Inodes] /\ data \in [Blocks -> Contents] /\ avail \subseteq Blocks
  BY DEF Inv, Typed
<1>9. old.addr \in [Bns -> Blocks \union {0}]
  BY DEF Inodes, Addrs
<1>10. end \in Nat
  <2>1. CASE old.size < len
    <3>1. len - 1 \in Nat
      BY <2>1, <1>7
    <3> QED BY <3>1, <2>1, <1>3, Sizes, Divided DEF EndBlock
  <2>2. CASE ~(old.size < len)
    BY <2>2, <1>3, <1>7, Sizes, Divided DEF EndBlock
  <2> QED BY <2>1, <2>2
<1>11. NeedsEnd(old, len) => end \in Bns
  BY <1>4, <1>10, BnsReach
<1>12. b # 0 => end \in Bns /\ old.addr[end] = 0 /\ b \in avail /\ b \in Blocks
  BY <1>4, <1>8, <1>11 DEF BlockAt
<1>13. ASSUME b = 0, NeedsEnd(old, len)
       PROVE  end \in Bns /\ old.addr[end] # 0 /\ old.addr[end] \in Blocks
  BY <1>4, <1>9, <1>11, <1>13 DEF BlockAt
<1>14. /\ ended.size = old.size /\ ended.used = old.used /\ ended.nlink = old.nlink
       /\ ended \in Inodes
       /\ \A a \in Bns : ended.addr[a] = IF b # 0 /\ a = end THEN b ELSE old.addr[a]
  <2>1. CASE b = 0
    BY <2>1, <1>6
  <2>2. CASE b # 0
    <3>1. PICK f : f = [old.addr EXCEPT ![end] = b]
      OBVIOUS
    <3>2. f \in Addrs /\ \A a \in Bns : f[a] = IF a = end THEN b ELSE old.addr[a]
      BY <3>1, <2>2, <1>9, <1>12 DEF Addrs
    <3>3. ended = [old EXCEPT !.addr = f]
      BY <3>1, <2>2, <1>6
    <3> QED BY <3>2, <3>3, <2>2, AddrSet
  <2> QED BY <2>1, <2>2
<1>15. /\ inode'[i] = Cut(ended, len) /\ \A j \in Inos : j # i => inode'[j] = inode[j]
  BY <1>6, <1>8
<1>16. /\ inode'[i].size = len /\ inode'[i].used /\ inode'[i].nlink = inode[i].nlink
       /\ \A a \in Bns : inode'[i].addr[a] =
            IF old.size <= len \/ a * BSIZE < len THEN ended.addr[a] ELSE 0
  <2>1. inode'[i].used /\ inode'[i].nlink = inode[i].nlink
    BY <1>1, <1>2, <1>7, <1>14, <1>15, CutDoes
  <2>2. PICK q \in Inodes : q = [ended EXCEPT !.size = len]
    BY <1>7, <1>14, SizeSet
  <2>3. q.size = len /\ q.addr = ended.addr
    BY <2>2, <1>7, <1>14, SizeSet
  <2>4. PICK f : f = [a \in Bns |-> IF ended.size <= len \/ a * BSIZE < len
                                   THEN ended.addr[a] ELSE 0]
    OBVIOUS
  <2>5. f \in Addrs
    BY <2>4, <1>14 DEF Inodes, Addrs
  <2>6. Cut(ended, len) = [q EXCEPT !.addr = f]
    BY <2>2, <2>3, <2>4 DEF Cut
  <2>7. Cut(ended, len).size = len /\ Cut(ended, len).addr = f
    BY <2>3, <2>5, <2>6, AddrSet
  <2>8. \A a \in Bns : f[a] = IF old.size <= len \/ a * BSIZE < len THEN ended.addr[a] ELSE 0
    BY <2>4, <1>14
  <2> QED BY <2>1, <2>7, <2>8, <1>15
<1>17. \A c \in Blocks : c # b /\ (b = 0 /\ NeedsEnd(old, len) => c # old.addr[end])
                         => data'[c] = data[c]
  BY <1>4, <1>8 DEF TailCleared
<1>18. ASSUME NEW j \in Inos, j # i, NEW c \in BlocksOf(inode[j]) PROVE data'[c] = data[c]
  <2>1. c \notin BlocksOf(old) /\ c \notin avail /\ c \in Blocks
    BY <1>2, <1>18, OthersBlocks
  <2>2. b = 0 /\ NeedsEnd(old, len) => old.addr[end] \in BlocksOf(old)
    BY <1>7, <1>13, InBlocks
  <2> QED BY <2>1, <2>2, <1>7, <1>12, <1>17
<1>19. Ends(i)
  BY <1>0 DEF Rests, Cleared, Writes
<1>20. ASSUME NEW x \in Nat
       PROVE  ByteAt(inode[i], x)' = IF x < len THEN ByteAt(inode[i], x) ELSE 0
  <2> DEFINE o == BlockOf(i, x)
             a == x \div BSIZE
             kept == old.size <= len \/ a * BSIZE < len
             N(c) == IF c = 0 THEN 0 ELSE data'[c][x % BSIZE]
  <2>1. ByteAt(inode[i], x) = IF o = 0 THEN 0 ELSE data[o][x % BSIZE]
    BY ByteIs
  <2>2. ByteAt(inode[i], x)' = N(BlockOf(i, x)')
    BY ByteIsNext
  <2>3. /\ o \in Blocks \union {0}
        /\ o # 0 => o \notin avail
        /\ \A c \in Bns : o # 0 /\ o = old.addr[c] => c = a
    BY <1>2, BlockTyped
  <2>4. /\ a \in Nat /\ x % BSIZE \in 0 .. BSIZE - 1
        /\ x < len => a * BSIZE < len
        /\ x < len /\ a = len \div BSIZE => x % BSIZE < len % BSIZE
        /\ x >= len /\ a * BSIZE < len
           => a = len \div BSIZE /\ x % BSIZE >= len % BSIZE /\ len % BSIZE # 0
    BY <1>7, PlacesInBlocks
  <2>5. o = IF a \in Bns THEN old.addr[a] ELSE 0
    BY <1>2 DEF BlockOf
  <2>6. BlockOf(i, x)' = IF kept THEN IF b # 0 /\ a = end THEN b ELSE o ELSE 0
    BY <1>12, <1>14, <1>16, <2>5 DEF BlockOf
  <2>7. x >= old.size => ByteAt(inode[i], x) = 0
    BY <1>2, <1>19 DEF Ends
  <2>8. ASSUME x < len PROVE kept
    BY <2>4, <2>8
  <2>9. ASSUME x >= len, kept, ~(old.size <= len)
        PROVE  a = len \div BSIZE /\ x % BSIZE >= len % BSIZE /\ len % BSIZE # 0
               /\ NeedsEnd(old, len) /\ end = a
    <3>1. a * BSIZE < len
      BY <2>9
    <3>2. a = len \div BSIZE /\ x % BSIZE >= len % BSIZE /\ len % BSIZE # 0
      BY <3>1, <2>4, <2>9
    <3>3. ~(old.size < len) /\ old.size > len
      BY <1>7, <2>9
    <3>4. NeedsEnd(old, len) /\ end = len \div BSIZE
      BY <1>3, <3>2, <3>3 DEF NeedsEnd, EndBlock
    <3> QED BY <3>2, <3>4
  <2> HIDE DEF kept, o, a
  <2>10. CASE b # 0
    <3>1. data'[b][x % BSIZE] = 0
      BY <2>10, <2>4, <1>4, <1>8, <1>12 DEF ZeroBlock
    <3>2. o # 0 => data'[o] = data[o]
      BY <2>3, <2>10, <1>12, <1>17
    <3>3. a = end => o = 0
      BY <2>5, <2>10, <1>12
    <3>4. CASE x < len
      BY <3>1, <3>2, <3>3, <3>4, <2>1, <2>2, <2>6, <2>8
    <3>5. CASE ~(x < len)
      <4>1. x >= len
        BY <3>5, <1>7
      <4>2. CASE ~kept
        BY <4>2, <3>5, <2>2, <2>6
      <4>3. CASE kept /\ old.size <= len
        <5>1. ByteAt(inode[i], x) = 0
          BY <4>1, <4>3, <2>7, <1>7
        <5> QED BY <5>1, <4>3, <3>1, <3>2, <3>3, <3>5, <2>1, <2>2, <2>6
      <4>4. CASE kept /\ ~(old.size <= len)
        <5>1. end = a
          BY <4>1, <4>4, <2>9
        <5> QED BY <5>1, <4>4, <3>1, <3>5, <2>2, <2>6, <2>10
      <4> QED BY <4>2, <4>3, <4>4
    <3> QED BY <3>4, <3>5
  <2>11. CASE b = 0 /\ NeedsEnd(old, len) /\ old.size > len
    <3>1. PICK e \in Blocks : e = old.addr[end] /\ e # 0 /\ end \in Bns
      BY <2>11, <1>13
    <3>2. data'[e] = [k \in 0 .. BSIZE - 1 |-> IF k < len % BSIZE THEN data[e][k] ELSE 0]
      BY <3>1, <2>11, <1>4, <1>8 DEF TailCleared
    <3>3. data'[e][x % BSIZE] = IF x % BSIZE < len % BSIZE THEN data[e][x % BSIZE] ELSE 0
      BY <3>2, <2>4
    <3>4. o # 0 /\ o # e => data'[o] = data[o]
      BY <3>1, <2>3, <2>11, <1>7, <1>17
    <3>5. o = e => end = a
      BY <3>1, <2>3
    <3>6. end = len \div BSIZE /\ ~(old.size <= len)
      BY <2>11, <1>3, <1>7 DEF EndBlock
    <3>7. CASE x < len
      <4>1. BlockOf(i, x)' = o
        BY <3>7, <2>6, <2>8, <2>11
      <4>2. o = e => x % BSIZE < len % BSIZE
        BY <3>5, <3>6, <3>7, <2>4
      <4> QED BY <4>1, <4>2, <3>3, <3>4, <3>7, <2>1, <2>2
    <3>8. CASE ~(x < len)
      <4>1. x >= len
        BY <3>8, <1>7
      <4>2. CASE ~kept
        BY <4>2, <3>8, <2>2, <2>6
      <4>3. CASE kept
        <5>1. end = a /\ x % BSIZE >= len % BSIZE
          BY <4>1, <4>3, <3>6, <2>9
        <5>2. BlockOf(i, x)' = e
          BY <5>1, <4>3, <3>1, <2>5, <2>6, <2>11
        <5>3. x % BSIZE \in Nat /\ len % BSIZE \in Nat
          BY <1>7, Sizes, Divided
        <5>4. data'[e][x % BSIZE] = 0
          BY <5>1, <5>3, <3>3
        <5> QED BY <5>2, <5>4, <3>1, <3>8, <2>2
      <4> QED BY <4>2, <4>3
    <3> QED BY <3>7, <3>8
  <2>12. CASE b = 0 /\ ~(NeedsEnd(old, len) /\ old.size > len)
    <3>1. data' = data
      BY <2>12, <1>4
    <3>2. kept => BlockOf(i, x)' = o
      BY <2>6, <2>12
    <3>3. kept => ByteAt(inode[i], x)' = ByteAt(inode[i], x)
      BY <3>1, <3>2, <2>1, <2>2
    <3>4. CASE x < len
      BY <3>3, <3>4, <2>8
    <3>5. CASE ~(x < len)
      <4>1. x >= len
        BY <3>5, <1>7
      <4>2. CASE ~kept
        BY <4>2, <3>5, <2>2, <2>6
      <4>3. CASE kept /\ old.size <= len
        <5>1. ByteAt(inode[i], x) = 0
          BY <4>1, <4>3, <2>7, <1>7
        <5> QED BY <5>1, <4>3, <3>3, <3>5
      <4>4. CASE kept /\ ~(old.size <= len)
        BY <4>1, <4>4, <2>9, <2>12, <1>7
      <4> QED BY <4>2, <4>3, <4>4
    <3> QED BY <3>4, <3>5
  <2> QED BY <2>10, <2>11, <2>12
<1>21. CutAt(i, len)
  BY <1>20 DEF CutAt
<1>22. \A j \in Inos : inode'[j].nlink = inode[j].nlink
  BY <1>15, <1>16
<1>23. Rests' /\ (len <= MaxSeek + 1 => FS!Truncate(n, len))
  BY <1>0, <1>1, <1>7, <1>15, <1>16, <1>18, <1>21, <1>22, CutShows
<1>24. len <= MaxSeek + 1
  BY Sizes
<1> QED BY <1>23, <1>24

-----------------------------------------------------------------------------
(* Reads and writes: what a call in progress has done.                     *)

(* What stays of a call until it returns, and the bytes it was to move. *)
SameCall(c, d) ==
  /\ d.op = c.op /\ d.fd = c.fd /\ d.byte = c.byte
  /\ d.before = c.before /\ d.at = c.at

Asked(c) == (c.f_offset - c.at) + c.left

(* Where V6's numbers do not wrap, or nothing is moved. *)
Reaches(c) ==
  IF c.at < SizeRange THEN c.at + Asked(c) < SizeRange
  ELSE c.offset = c.at /\ c.at < 2 * SizeRange

Fits(c) ==
  /\ c.op # "none" /\ Needs(c.op) \in ofile[c.fd].flag
  /\ c.at <= c.f_offset /\ c.at <= MaxSeek /\ Asked(c) \in 1 .. MaxCount
  /\ (c.offset - c.f_offset) + c.count > 0
  /\ c.op = "write" => c.byte \in Bytes /\ c.got = <<>>
  /\ kernel = "v6" => Reaches(c)

(* A read has the bytes from at to offset of what the file was, ...        *)
Got(c) ==
  /\ Len(c.got) = c.offset - c.at
  /\ \A k \in 1 .. Len(c.got) : c.at + k <= Len(c.before) /\ c.got[k] = c.before[c.at + k]

(* ... and a write has written those, but for the block that 2.11BSD has   *)
(* for it and has not cleared.                                             *)
Wrote(c) == FS!Written(c.before, c.at, c.offset - c.at, c.byte)

Pending(x) ==
  /\ Writing /\ Mapped # 0 /\ BlockRest = BSIZE /\ kernel = "211"
  /\ x >= call.offset /\ x < call.offset + BSIZE

WroteSoFar ==
  /\ ip.size = Len(Wrote(call))
  /\ \A x \in Nat : ~Pending(x) => ByteAt(ip, x) = Content(Wrote(call), x)

Doing ==
  call.stage = "rw" =>
    /\ Fits(call)
    /\ call.op = "read" => Holds(fp.ino, call.before) /\ Got(call)
    /\ call.op = "write" => WroteSoFar

Answers == call.stage = "done" => call.op # "none"

Told == Rests /\ Doing /\ Answers

LEMMA FinishFields ==
  ASSUME NEW c \in Calls, NEW ok \in BOOLEAN
  PROVE  LET d == Finish(c, ok) IN
           d.stage = "done" /\ d.ok = ok /\ d.got = c.got /\ SameCall(c, d)
BY DEF Finish, Calls, SameCall

LEMMA MovedFields ==
  ASSUME NEW n \in Nat
  PROVE  call \in Calls => LET d == Moved(n) IN
           /\ d.stage = call.stage /\ d.got = call.got /\ SameCall(call, d)
           /\ d.offset = call.offset + n /\ d.count = call.count - n
           /\ d.left = call.left /\ d.f_offset = call.f_offset
BY DEF Moved, Calls, SameCall

(* The next rdwr of a call that may go on. *)
LEMMA RdwrFields ==
  ASSUME NEW c \in Calls, Needs(c.op) \in ofile[c.fd].flag
  PROVE  IF c.left = 0 THEN Rdwr(c) = Finish(c, TRUE)
         ELSE /\ Rdwr(c).stage = c.stage /\ Rdwr(c).got = c.got /\ SameCall(c, Rdwr(c))
              /\ Rdwr(c).offset = c.f_offset /\ Rdwr(c).f_offset = c.f_offset
              /\ Rdwr(c).left = c.left /\ Rdwr(c).count > 0
<1>1. CASE c.left = 0
  BY <1>1 DEF Rdwr
<1>2. CASE c.left # 0
  <2>1. c.left \in Nat /\ c.f_offset \in Nat /\ c.left > 0
    BY <1>2 DEF Calls
  <2>2. PICK m \in Nat : m = Min({c.left, Chunk}) /\ m > 0
    BY <2>1, Smaller, Sizes
  <2>3. Rdwr(c) = [c EXCEPT !.count = Min({c.left, Chunk}), !.offset = c.f_offset]
    BY <2>1, <1>2, Zenon DEF Rdwr
  <2>4. Rdwr(c) = [c EXCEPT !.count = m, !.offset = c.f_offset]
    BY <2>2, <2>3
  <2>5. /\ Rdwr(c).count = m /\ Rdwr(c).offset = c.f_offset /\ Rdwr(c).left = c.left
        /\ Rdwr(c).f_offset = c.f_offset /\ Rdwr(c).stage = c.stage
        /\ Rdwr(c).got = c.got /\ SameCall(c, Rdwr(c))
    BY <2>4 DEF Calls, SameCall
  <2> QED BY <2>2, <2>5, <1>2
<1> QED BY <1>1, <1>2

LEMMA AdvanceFields ==
  ASSUME Inv, call.stage = "rw", Fits(call)
  PROVE  IF call.left = call.offset - call.f_offset
         THEN /\ Advance(call).stage = "done" /\ Advance(call).ok
              /\ Advance(call).got = call.got /\ SameCall(call, Advance(call))
         ELSE /\ Advance(call).stage = "rw" /\ Advance(call).got = call.got
              /\ SameCall(call, Advance(call))
              /\ Advance(call).offset = call.offset /\ Advance(call).f_offset = call.offset
              /\ Advance(call).left = call.left - (call.offset - call.f_offset)
              /\ Advance(call).count > 0
<1>1. call \in Calls /\ call.left \in Nat /\ call.offset \in Nat /\ call.f_offset \in Nat
      /\ call.f_offset <= call.offset /\ call.count \in Nat
      /\ (call.offset - call.f_offset) + call.count <= call.left
  BY InCall DEF Calls, Runs
<1>2. PICK l \in Nat : l = call.left - (call.offset - call.f_offset)
  BY <1>1
<1>3. PICK d : d = [call EXCEPT !.left = l, !.f_offset = call.offset]
  OBVIOUS
<1>4. Advance(call) = Rdwr(d)
  BY <1>2, <1>3 DEF Advance
<1>5. d \in Calls
  BY <1>1, <1>3 DEF Calls
<1>6. /\ SameCall(call, d) /\ d.stage = "rw" /\ d.got = call.got /\ d.left = l
      /\ d.f_offset = call.offset
  BY <1>1, <1>3 DEF Calls, SameCall
<1>7. Needs(d.op) \in ofile[d.fd].flag
  BY <1>6 DEF Fits, SameCall
<1>8. l = 0 <=> call.left = call.offset - call.f_offset
  BY <1>1, <1>2
<1>9. CASE l = 0
  <2>1. Advance(call) = Finish(d, TRUE)
    BY <1>4, <1>5, <1>6, <1>7, <1>9, RdwrFields
  <2> QED BY <2>1, <1>5, <1>6, <1>8, <1>9, FinishFields DEF SameCall
<1>10. CASE l # 0
  <2>1. /\ Rdwr(d).stage = "rw" /\ Rdwr(d).got = call.got /\ SameCall(d, Rdwr(d))
        /\ Rdwr(d).offset = call.offset /\ Rdwr(d).f_offset = call.offset
        /\ Rdwr(d).left = l /\ Rdwr(d).count > 0
    BY <1>5, <1>6, <1>7, <1>10, RdwrFields
  <2> QED BY <2>1, <1>2, <1>4, <1>6, <1>8, <1>10 DEF SameCall
<1> QED BY <1>9, <1>10

(* A step of a call on file i leaves the other files alone. *)
Touches(i) ==
  /\ UNCHANGED <<kernel, name, ofile>>
  /\ inode'[i].nlink = inode[i].nlink /\ inode'[i].used = inode[i].used
  /\ \A j \in Inos : j # i => inode'[j] = inode[j]
                              /\ \A b \in BlocksOf(inode[j]) : data'[b] = data[b]

LEMMA TouchedText ==
  ASSUME Inv, NEW i \in Inos, Touches(i), NEW j \in Inos, j # i
  PROVE  Text(j)' = Text(j) /\ (Ends(j) => Ends(j)')
<1>1. Stays(j) /\ \A b \in BlocksOf(inode[j]) : data'[b] = data[b]
  BY DEF Touches, Stays
<1> QED BY <1>1, StaysText

LEMMA RestsTouched ==
  ASSUME Inv, Rests, call.stage = "rw", NEW i \in Inos, i = fp.ino, Touches(i),
         kernel = "v6" => inode'[i].size < SizeRange,
         (call'.stage = "rw" /\ call'.op = "write" /\ call'.fd = call.fd) \/ Ends(i)'
  PROVE  Rests'
<1>2. \A j \in Inos : inode'[j].nlink = inode[j].nlink
  BY DEF Touches
<1>3. Linked'
  BY <1>2 DEF Rests, Linked, Touches
<1>4. inode[i].used
  <2>1. inode[i].count > 0
    BY InCall, OpenIsHeld DEF Inv, fp
  <2> QED BY <2>1 DEF Inv, HeldByDescriptors
<1>5. Buried'
  BY <1>4 DEF Rests, Buried, Touches
<1>6. Sized'
  BY DEF Rests, Sized, Touches
<1>7. ASSUME NEW j \in Inos, ~Writes(j)' PROVE Ends(j)'
  <2>1. CASE j = i
    <3>1. call'.stage = "rw" /\ call'.op = "write" /\ call'.fd = call.fd => Writes(i)'
      BY DEF Writes, fp, Touches
    <3> QED BY <3>1, <2>1, <1>7
  <2>2. CASE j # i
    <3>1. Ends(j)
      BY <2>2 DEF Rests, Cleared, Writes
    <3> QED BY <3>1, <2>2, TouchedText
  <2> QED BY <2>1, <2>2
<1>8. Cleared'
  BY <1>7 DEF Cleared
<1> QED BY <1>3, <1>5, <1>6, <1>8 DEF Rests

LEMMA MidShown ==
  ASSUME Inv, call.stage = "rw", call'.stage = "rw", SameCall(call, call'), Touches(fp.ino)
  PROVE  UNCHANGED FSvars
<1>1. PICK i \in Inos : i = fp.ino
  BY InCall
<1>2. fp' = fp /\ call'.before = call.before
  BY DEF fp, SameCall, Touches
<1>3. Outside = [j \in Inos |-> IF i = j THEN call.before ELSE Text(j)]
  BY <1>1 DEF Outside
<1>4. Outside' = [j \in Inos |-> IF i = j THEN call.before ELSE Text(j)']
  BY <1>1, <1>2 DEF Outside
<1>5. \A j \in Inos : j # i => Text(j)' = Text(j)
  BY <1>1, TouchedText
<1>6. Outside' = Outside
  BY <1>3, <1>4, <1>5
<1>7. Answered' = Answered
  BY DEF Answered
<1> QED BY <1>6, <1>7 DEF FSvars, Touches

LEMMA EndShown ==
  ASSUME Inv, call.stage = "rw", call'.stage = "done", SameCall(call, call'),
         NEW i \in Inos, i = fp.ino, Touches(i), NEW t, Text(i)' = t
  PROVE  /\ Outside[i] = call.before /\ Outside' = [Outside EXCEPT ![i] = t]
         /\ Answered = FS!None
         /\ Answered' = [ok |-> call'.ok, of |-> call.op,
                         got |-> IF call'.ok THEN call'.got ELSE <<>>]
<1>2. Outside = [j \in Inos |-> IF i = j THEN call.before ELSE Text(j)]
  BY DEF Outside
<1>3. Outside' = [j \in Inos |-> Text(j)']
  BY ShownTextNext
<1>4. \A j \in Inos : j # i => Text(j)' = Text(j)
  BY TouchedText
<1>5. Outside' = [Outside EXCEPT ![i] = t]
  BY <1>2, <1>3, <1>4
<1>6. Answered = FS!None
  BY DEF Answered, FS!None
<1>7. Answered' = [ok |-> call'.ok, of |-> call.op,
                   got |-> IF call'.ok THEN call'.got ELSE <<>>]
  BY DEF Answered, SameCall
<1> QED BY <1>2, <1>5, <1>6, <1>7

(* A step that changes no file. *)
LEMMA QuietTouch ==
  ASSUME NEW i \in Inos, UNCHANGED <<kernel, name, inode, data, ofile>>
  PROVE  /\ Touches(i)
         /\ \A j \in Inos : Text(j)' = Text(j) /\ (Ends(j) => Ends(j)')
         /\ \A j \in Inos : \A t : Holds(j, t) => Holds(j, t)'
<1>1. Touches(i)
  BY DEF Touches
<1>2. \A j \in Inos : \A x : ByteAt(inode[j], x)' = ByteAt(inode[j], x)
  BY DEF ByteAt
<1>3. ASSUME NEW j \in Inos PROVE Text(j)' = Text(j) /\ (Ends(j) => Ends(j)')
  BY <1>2 DEF Text, Ends
<1>4. ASSUME NEW j \in Inos, NEW t, Holds(j, t) PROVE Holds(j, t)'
  <2>1. \A x \in Nat : Content(t, x)' = Content(t, x)
    BY DEF Content
  <2> QED BY <2>1, <1>2, <1>4 DEF Holds
<1> QED BY <1>1, <1>3, <1>4

LEMMA FitsStep ==
  ASSUME Inv, Inv', call.stage = "rw", Fits(call), UNCHANGED <<kernel, ofile>>,
         SameCall(call, call'), Asked(call') = Asked(call), call.at <= call'.f_offset,
         (call'.offset - call'.f_offset) + call'.count > 0,
         call'.got = call.got \/ call.op = "read",
         kernel = "v6" => call.at < SizeRange \/ call'.offset = call.offset
  PROVE  Fits(call)'
<1>1. Asked(call)' = Asked(call)
  BY DEF Asked
<1>2. kernel = "v6" => Reaches(call)'
  BY <1>1 DEF Fits, Reaches, SameCall
<1> QED BY <1>1, <1>2 DEF Fits, SameCall

(* The next step of a call that began, or the block at which it is.        *)
LEMMA HoldsDoing ==
  ASSUME Inv, call.stage = "rw", NEW i \in Inos, i = fp.ino, Touches(i),
         call'.stage = "rw", SameCall(call, call'), call.op = "write", Fits(call)',
         Holds(i, Wrote(call))'
  PROVE  Doing' /\ Answers'
<1>1. fp' = fp
  BY DEF fp, SameCall, Touches
<1>2. ip' = inode'[i]
  BY <1>1 DEF ip
<1>4. ip'.size = Len(Wrote(call)')
  BY <1>2 DEF Holds
<1>5. \A x \in Nat : ByteAt(inode[i], x)' = Content(Wrote(call), x)'
  BY DEF Holds
<1>6. \A x \in Nat : ByteAt(ip, x)' = ByteAt(inode[i], x)'
  BY <1>2 DEF ByteAt
<1>7. WroteSoFar'
  BY <1>4, <1>5, <1>6 DEF WroteSoFar
<1>3. call'.op # "read"
  BY DEF SameCall
<1> QED BY <1>7, <1>3 DEF Doing, Answers

(* Places by their blocks. *)
LEMMA BlocksApart ==
  ASSUME NEW q \in Nat, NEW p \in Nat, NEW r \in Nat, NEW s \in Nat, NEW d \in Nat,
         r < d, q * d + r < p * d + s, s < d
  PROVE  q <= p
<1>1. CASE p < q
  <2>1. p * d + d <= q * d
    BY <1>1, Product
  <2>2. p * d \in Nat /\ q * d \in Nat
    OBVIOUS
  <2> QED BY <2>1, <2>2
<1> QED BY <1>1

LEMMA Within ==
  ASSUME NEW x \in Nat, NEW off \in Nat, NEW n \in Nat, (off % BSIZE) + n <= BSIZE
  PROVE  /\ off <= x /\ x < off + n
            <=> /\ x \div BSIZE = off \div BSIZE
                /\ x % BSIZE >= off % BSIZE /\ x % BSIZE < (off % BSIZE) + n
         /\ x \div BSIZE = off \div BSIZE => x - off = (x % BSIZE) - (off % BSIZE)
<1>1. PICK d \in Nat : d = BSIZE /\ d > 0
  BY Sizes
<1>2. PICK q \in Nat, r \in Nat : q = x \div BSIZE /\ r = x % BSIZE
  BY Sizes, Divided
<1>3. PICK p \in Nat, s \in Nat : p = off \div BSIZE /\ s = off % BSIZE
  BY Sizes, Divided
<1>4. r < d /\ s < d /\ s + n <= d
  BY <1>1, <1>2, <1>3, Sizes, Divided
<1>5. x = q * d + r /\ off = p * d + s
  BY <1>1, <1>2, <1>3, Quotient
<1>6. q * d \in Nat /\ p * d \in Nat
  OBVIOUS
<1>7. q = p => x - off = r - s
  BY <1>5, <1>6
<1>8. ASSUME off <= x, x < off + n PROVE q = p
  <2>1. ~(q < p)
    <3>1. q < p => q * d + d <= p * d
      BY Product
    <3> QED BY <3>1, <1>4, <1>5, <1>6, <1>8
  <2>2. ~(p < q)
    <3>1. p < q => p * d + d <= q * d
      BY Product
    <3> QED BY <3>1, <1>4, <1>5, <1>6, <1>8
  <2> QED BY <2>1, <2>2
<1>9. off <= x /\ x < off + n <=> q = p /\ r >= s /\ r < s + n
  BY <1>4, <1>5, <1>6, <1>7, <1>8
<1>10. off <= x /\ x < off + n
         <=> /\ x \div BSIZE = off \div BSIZE
             /\ x % BSIZE >= off % BSIZE /\ x % BSIZE < (off % BSIZE) + n
  BY <1>2, <1>3, <1>9
<1>11. ASSUME x \div BSIZE = off \div BSIZE PROVE x - off = (x % BSIZE) - (off % BSIZE)
  <2>1. q = p
    BY <1>2, <1>3, <1>11
  <2>2. x - off = r - s
    BY <2>1, <1>7
  <2> QED BY <2>2, <1>2, <1>3, Zenon
<1> QED BY <1>10, <1>11

LEMMA Below ==
  ASSUME NEW x \in Nat, NEW h \in Nat
  PROVE  x < h * BSIZE <=> x \div BSIZE < h
<1>1. PICK d \in Nat : d = BSIZE /\ d > 0
  BY Sizes
<1>2. PICK q \in Nat, r \in Nat : q = x \div BSIZE /\ r = x % BSIZE /\ r < d
  BY <1>1, Sizes, Divided
<1>3. x = q * d + r
  BY <1>1, <1>2, Quotient
<1>4. q * d \in Nat /\ h * d \in Nat
  OBVIOUS
<1>5. q < h => q * d + d <= h * d
  BY Product
<1>6. h < q => h * d + d <= q * d
  BY Product
<1>7. h = q => h * d = q * d
  OBVIOUS
<1>8. x < h * d <=> q < h
  BY <1>2, <1>3, <1>4, <1>5, <1>6, <1>7
<1> QED BY <1>1, <1>2, <1>8

(* What a call has moved is part of what it was asked for. *)
LEMMA Moving ==
  ASSUME Inv, call.stage = "rw", Fits(call)
  PROVE  /\ call.at \in Nat /\ call.f_offset \in Nat /\ call.left \in Nat
         /\ call.at <= call.offset /\ call.offset - call.at \in Nat
         /\ call.f_offset <= call.offset
         /\ (call.offset - call.f_offset) + call.count <= call.left
         /\ (call.offset - call.at) + call.count <= Asked(call)
         /\ Asked(call) \in Nat
<1>1. call \in Calls /\ Runs(call)
  BY InCall
<1>2. PICK at \in Nat, f \in Nat, off \in Nat, left \in Nat, n \in Nat :
        /\ at = call.at /\ f = call.f_offset /\ off = call.offset
        /\ left = call.left /\ n = call.count
  BY <1>1 DEF Calls
<1>3. f <= off /\ (off - f) + n <= left
  BY <1>1, <1>2 DEF Runs
<1>4. at <= f
  BY <1>2 DEF Fits
<1>5. /\ at <= off /\ off - at \in Nat
      /\ (off - at) + n <= (f - at) + left /\ (f - at) + left \in Nat
  BY <1>3, <1>4
<1> QED BY <1>2, <1>3, <1>5 DEF Asked

(* The numbers do not wrap where a block can be. *)
LEMMA Reached ==
  ASSUME Inv, call.stage = "rw", Fits(call), ~TooBig(call.offset),
         NEW i \in Inos, i = fp.ino
  PROVE  /\ Bn(call.offset) = call.offset \div BSIZE /\ Bn(call.offset) \in Bns
         /\ Mapped = BlockOf(i, call.offset)
         /\ kernel = "v6" => call.at < SizeRange /\ call.at + Asked(call) < SizeRange
<1>1. call.offset \in Nat /\ call.count \in Nat
  BY InCall
<1>2. PICK q \in Nat : q = call.offset \div BSIZE
  BY <1>1, Sizes, Divided
<1>3. PICK h \in Nat : h = BnRange \div 2 /\ BnRange = 2 * h
  <2>1. PICK h \in Nat : h = BnRange \div 2
    BY Sizes, Divided
  <2>2. BnRange = 2 * h
    BY <2>1, Sizes, FileIOAssumption
  <2> QED BY <2>1, <2>2
<1>4. SizeRange = h * BSIZE
  BY <1>3 DEF SizeRange
<1>5. 2 * SizeRange = (2 * h) * BSIZE /\ h * BSIZE \in Nat
  BY <1>3, <1>4, Sizes
<1>6. ASSUME kernel = "v6"
      PROVE  Bn(call.offset) = q /\ call.at < SizeRange /\ call.at + Asked(call) < SizeRange
  <2>1. Reaches(call)
    BY <1>6 DEF Fits
  <2>2. call.offset < 2 * SizeRange
    <3>1. CASE call.at < SizeRange
      BY <3>1, <2>1, <1>1, <1>4, <1>5, Moving DEF Reaches
    <3>2. CASE ~(call.at < SizeRange)
      BY <3>2, <2>1 DEF Reaches
    <3> QED BY <3>1, <3>2
  <2>3. q < 2 * h
    BY <2>2, <1>1, <1>2, <1>5, Below
  <2>4. q % BnRange = q
    BY <2>3, <1>3, Sizes
  <2>5. Bn(call.offset) = q
    BY <1>2, <1>6, <2>4 DEF Bn
  <2>6. q < h
    BY <1>3, <1>6, <2>5 DEF TooBig
  <2>7. call.offset < SizeRange
    BY <2>6, <1>1, <1>2, <1>4, Below
  <2>8. call.at < SizeRange
    BY <2>1, <2>7 DEF Reaches
  <2> QED BY <2>1, <2>5, <2>8 DEF Reaches
<1>7. Bn(call.offset) = q
  BY <1>2, <1>6 DEF Bn
<1>8. q \in Bns
  BY <1>7, AtBlock
<1>9. Mapped = BlockOf(i, call.offset)
  BY <1>2, <1>7, <1>8 DEF Mapped, BlockOf, ip
<1> QED BY <1>2, <1>6, <1>7, <1>8, <1>9

(* r is what the file t has from the place at. *)
PartOf(t, r, at) == \A k \in 1 .. Len(r) : at + k <= Len(t) /\ r[k] = t[at + k]

(* Two parts of a file, one behind the other, are a part of it. *)
LEMMA PartsOfFile ==
  ASSUME NEW t \in Seq(Nat), NEW r \in Seq(Nat), NEW f \in Seq(Nat),
         NEW at \in Nat, NEW off \in Nat, Len(r) = off - at,
         PartOf(t, r, at), PartOf(t, f, off)
  PROVE  Len(r \o f) = (off + Len(f)) - at /\ PartOf(t, r \o f, at)
<1>1. PICK a \in Nat, n \in Nat : a = Len(r) /\ n = Len(f)
  BY LenProperties
<1>2. off = at + a
  BY <1>1
<1>3. PICK g : g = r \o f
  OBVIOUS
<1>4. Len(g) = a + n
  BY <1>1, <1>3, ConcatProperties
<1>5. \A k \in 1 .. a + n : g[k] = IF k <= a THEN r[k] ELSE f[k - a]
  BY <1>1, <1>3, ConcatProperties
<1>6. ASSUME NEW k \in 1 .. a + n PROVE at + k <= Len(t) /\ g[k] = t[at + k]
  <2>1. CASE k <= a
    <3>1. k \in 1 .. Len(r) /\ g[k] = r[k]
      BY <2>1, <1>1, <1>5
    <3> QED BY <3>1 DEF PartOf
  <2>2. CASE ~(k <= a)
    <3>1. PICK l \in 1 .. n : l = k - a
      BY <2>2
    <3>2. at + k = off + l
      BY <3>1, <1>2
    <3>3. g[k] = f[l]
      BY <2>2, <3>1, <1>5
    <3>4. off + l <= Len(t) /\ f[l] = t[off + l]
      BY <1>1 DEF PartOf
    <3> QED BY <3>2, <3>3, <3>4
  <2> QED BY <2>1, <2>2
<1>7. PartOf(t, g, at)
  BY <1>4, <1>6 DEF PartOf
<1>8. Len(g) = (off + n) - at
  BY <1>2, <1>4
<1> QED BY <1>1, <1>3, <1>7, <1>8

-----------------------------------------------------------------------------
(* Reading.                                                                *)
FromFile(f) == \A k \in 1 .. Len(f) : f[k] = ByteAt(ip, call.offset + k - 1)

LEMMA GotMore ==
  ASSUME Inv, Inv', Told, Reading, NEW f \in Seq(Nat), Len(f) = ToRead,
         FromFile(f),
         call' = [Moved(ToRead) EXCEPT !.got = @ \o f],
         UNCHANGED <<kernel, name, inode, data, avail, ofile>>
  PROVE  Told' /\ UNCHANGED FSvars
<1>1. /\ call.stage = "rw" /\ call.op = "read" /\ ~(call.offset >= ip.size)
      /\ Fits(call) /\ Got(call) /\ call \in Calls /\ call.offset \in Nat /\ call.count \in Nat
      /\ ip.size \in Nat
  BY InCall DEF Reading, AtEnd, Told, Doing
<1>2. PICK i \in Inos : i = fp.ino /\ ip = inode[i]
  BY <1>1, InCall DEF ip
<1>3. PICK n \in Nat : n = ToRead /\ n <= call.count /\ call.offset + n <= ip.size
  <2>1. ip.size - call.offset \in Nat /\ BlockRest \in Nat
    BY <1>1, InCall
  <2>2. ToRead \in Nat /\ ToRead <= call.count /\ ToRead <= ip.size - call.offset
    BY <2>1, ReadStep, Smaller DEF ToRead
  <2> QED BY <2>1, <2>2, <1>1
<1>4. PICK m \in Calls : m = Moved(n)
  BY <1>1, <1>3, InCall, MovedDoes
<1>5. /\ m.stage = "rw" /\ m.got = call.got /\ SameCall(call, m)
      /\ m.offset = call.offset + n /\ m.count = call.count - n
      /\ m.left = call.left /\ m.f_offset = call.f_offset
  BY <1>1, <1>4, MovedFields
<1>6. PICK g : g = call.got \o f
  OBVIOUS
<1>7. call' = [m EXCEPT !.got = g]
  BY <1>3, <1>4, <1>5, <1>6
<1>8. /\ call'.stage = "rw" /\ call'.got = g /\ SameCall(call, call')
      /\ call'.offset = call.offset + n /\ call'.count = call.count - n
      /\ call'.left = call.left /\ call'.f_offset = call.f_offset
  BY <1>5, <1>7 DEF Calls, SameCall
<1>9. /\ Touches(i)
      /\ \A j \in Inos : Text(j)' = Text(j) /\ (Ends(j) => Ends(j)')
      /\ \A j \in Inos : \A t : Holds(j, t) => Holds(j, t)'
  BY QuietTouch
<1>10. UNCHANGED FSvars
  BY <1>1, <1>2, <1>8, <1>9, MidShown
<1>11. kernel = "v6" => ip.size < SizeRange
  BY <1>2 DEF Told, Rests, Sized
<1>12. Ends(i)
  BY <1>1, <1>2 DEF Told, Rests, Cleared, Writes
<1>13. Rests'
  BY <1>1, <1>2, <1>9, <1>11, <1>12, RestsTouched DEF Told
<1>14. Fits(call)'
  <2>1. kernel = "v6" => call.at < SizeRange
    <3>1. SizeRange \in Nat
      BY Sizes, BnsReach DEF SizeRange
    <3> QED BY <3>1, <1>1, <1>11, Moving
  <2>2. Asked(call') = Asked(call)
    BY <1>8 DEF Asked, SameCall
  <2>3. (call'.offset - call'.f_offset) + call'.count
        = (call.offset - call.f_offset) + call.count
    <3>1. call.f_offset \in Nat
      BY <1>1, Moving
    <3>2. ((call.offset + n) - call.f_offset) + (call.count - n)
          = (call.offset - call.f_offset) + call.count
      BY <3>1, <1>1, <1>3
    <3> QED BY <3>2, <1>8
  <2>4. (call.offset - call.f_offset) + call.count > 0 /\ call.at <= call.f_offset
    BY <1>1 DEF Fits
  <2> QED BY <2>1, <2>2, <2>3, <2>4, <1>1, <1>8, FitsStep
<1>15. Holds(i, call.before) /\ call.before \in Seq(Nat) /\ call.got \in Seq(Nat)
  BY <1>1, <1>2 DEF Told, Doing, Calls
<1>16. Got(call')
  <2>1. g \in Seq(Nat) /\ Len(g) = Len(call.got) + n
    BY <1>3, <1>6, <1>15, ConcatProperties
  <2>2. Len(call.got) = call.offset - call.at /\ call.offset - call.at \in Nat
        /\ call.at \in Nat /\ Len(call.got) \in Nat
    BY <1>1, <1>15, Moving DEF Got
  <2>3. ip.size = Len(call.before)
    BY <1>2, <1>15 DEF Holds
  <2>4. ASSUME NEW k \in 1 .. Len(f) PROVE f[k] = call.before[call.offset + k]
    <3>1. PICK x \in Nat : x = call.offset + k - 1
      BY <1>1
    <3>2. f[k] = ByteAt(inode[i], x)
      BY <3>1, <1>2 DEF FromFile
    <3>3. ByteAt(inode[i], x) = Content(call.before, x)
      BY <1>15 DEF Holds
    <3>4. x + 1 = call.offset + k
      BY <3>1, <1>1
    <3>5. x < Len(call.before)
      <4>1. k \in Nat /\ k <= n
        BY <1>3
      <4>2. call.offset + k <= Len(call.before)
        BY <4>1, <2>3, <1>1, <1>3
      <4> QED BY <4>2, <3>4, <2>3, <1>1
    <3> QED BY <3>2, <3>3, <3>4, <3>5 DEF Content
  <2>5. PICK off \in Nat, at \in Nat, before \in Seq(Nat), got \in Seq(Nat) :
          /\ off = call.offset /\ at = call.at /\ before = call.before /\ got = call.got
          /\ Len(got) = off - at /\ off + n <= Len(before) /\ g = got \o f
    <3>1. call.offset + n <= Len(call.before)
      BY <2>3, <1>3
    <3> QED BY <3>1, <2>2, <1>1, <1>6, <1>15
  <2>6. PartOf(before, got, at)
    BY <2>5, <1>1 DEF Got, PartOf
  <2>7. PartOf(before, f, off)
    <3>1. ASSUME NEW k \in 1 .. Len(f) PROVE off + k <= Len(before) /\ f[k] = before[off + k]
      BY <2>4, <2>5, <1>3
    <3> QED BY <3>1 DEF PartOf
  <2>8. Len(g) = (off + n) - at /\ PartOf(before, g, at)
    <3>1. Len(got) = off - at /\ g = got \o f /\ Len(f) = n
      BY <2>5, <1>3
    <3>2. Len(got \o f) = (off + Len(f)) - at /\ PartOf(before, got \o f, at)
      BY <3>1, <2>6, <2>7, PartsOfFile, Zenon
    <3> QED BY <3>1, <3>2
  <2> QED BY <2>5, <2>8, <1>8 DEF Got, SameCall, PartOf
<1>17. Doing' /\ Answers'
  <2>1. fp' = fp /\ call'.op = "read" /\ call'.before = call.before
    BY <1>1, <1>8 DEF fp, SameCall
  <2>2. Holds(i, call.before)'
    <3>1. PICK t : t = call.before
      OBVIOUS
    <3>2. Holds(i, t)'
      BY <3>1, <1>9, <1>15
    <3> QED BY <2>1, <3>1, <3>2 DEF Holds
  <2>3. Holds(fp.ino, call.before)'
    BY <2>1, <2>2, <1>2 DEF Holds
  <2>4. Got(call)'
    BY <1>16 DEF Got
  <2> QED BY <2>1, <2>3, <2>4, <1>8, <1>14 DEF Doing, Answers
<1> QED BY <1>10, <1>13, <1>17 DEF Told

LEMMA ReadBlockShows ==
  ASSUME Inv, Inv', Told, ReadBlock
  PROVE  Told' /\ UNCHANGED FSvars
<1>1. /\ Reading /\ Mapped # 0 /\ call.stage = "rw" /\ Fits(call)
      /\ UNCHANGED <<kernel, name, inode, data, avail, ofile>>
  BY DEF ReadBlock, Reading, Told, Doing
<1>2. PICK i \in Inos : i = fp.ino /\ ip = inode[i]
  BY <1>1, InCall DEF ip
<1>3. PICK n \in Nat : n = ToRead /\ On + n <= BSIZE
  BY <1>1, ReadStep
<1>4. PICK f : f = [k \in 1 .. n |-> data[Mapped][On + k - 1]]
  OBVIOUS
<1>5. call' = [Moved(ToRead) EXCEPT !.got = @ \o f]
  BY <1>3, <1>4 DEF ReadBlock
<1>6. Mapped \in Blocks /\ On \in Nat /\ call.offset \in Nat
  BY <1>1, AtBlock, InCall
<1>7. Mapped = BlockOf(i, call.offset)
  <2>1. ~TooBig(call.offset)
    BY <1>1 DEF Mapped
  <2> QED BY <2>1, <1>1, <1>2, Reached
<1>8. f \in Seq(Nat) /\ Len(f) = n
  <2>1. data[Mapped] \in [0 .. BSIZE - 1 -> Nat]
    BY <1>6 DEF Inv, Typed, Contents
  <2>2. \A k \in 1 .. n : On + k - 1 \in 0 .. BSIZE - 1
    BY <1>3, <1>6, Sizes
  <2>3. f \in [1 .. n -> Nat]
    BY <2>1, <2>2, <1>4
  <2> QED BY <2>3
<1>9. ASSUME NEW k \in 1 .. n PROVE f[k] = ByteAt(ip, call.offset + k - 1)
  <2>1. PICK x \in Nat : x = call.offset + k - 1
    BY <1>6
  <2>2. x \div BSIZE = call.offset \div BSIZE /\ x % BSIZE = On + k - 1
    <3>1. (call.offset % BSIZE) + n <= BSIZE
      BY <1>3 DEF On
    <3>2. call.offset <= x /\ x < call.offset + n
      BY <2>1, <1>6
    <3>3. x \div BSIZE = call.offset \div BSIZE
      BY <3>1, <3>2, <1>6, Within
    <3>4. x - call.offset = (x % BSIZE) - On
      BY <3>1, <3>3, <1>6, Within DEF On
    <3>5. x % BSIZE \in Nat
      BY <1>6, Sizes, Divided
    <3> QED BY <3>3, <3>4, <3>5, <2>1, <1>6
  <2>3. BlockOf(i, x) = Mapped
    BY <2>2, <1>7 DEF BlockOf
  <2>4. ByteAt(inode[i], x) = data[Mapped][On + k - 1]
    BY <2>2, <2>3, <1>1, ByteIs
  <2> QED BY <2>1, <2>4, <1>2, <1>4
<1>10. FromFile(f)
  BY <1>8, <1>9 DEF FromFile
<1> QED BY <1>1, <1>3, <1>5, <1>8, <1>10, GotMore

LEMMA ReadHoleShows ==
  ASSUME Inv, Inv', Told, ReadHole
  PROVE  Told' /\ UNCHANGED FSvars
<1>1. /\ Reading /\ Mapped = 0 /\ call.stage = "rw" /\ Fits(call) /\ ~TooBig(call.offset)
      /\ UNCHANGED <<kernel, name, inode, data, avail, ofile>>
  BY DEF ReadHole, Reading, Told, Doing
<1>2. PICK i \in Inos : i = fp.ino /\ ip = inode[i]
  BY <1>1, InCall DEF ip
<1>3. PICK n \in Nat : n = ToRead /\ On + n <= BSIZE
  BY <1>1, ReadStep
<1>4. PICK f : f = [k \in 1 .. n |-> 0]
  OBVIOUS
<1>5. call' = [Moved(ToRead) EXCEPT !.got = @ \o f]
  BY <1>3, <1>4 DEF ReadHole
<1>6. On \in Nat /\ call.offset \in Nat
  BY <1>1, InCall
<1>7. BlockOf(i, call.offset) = 0
  BY <1>1, <1>2, Reached
<1>8. f \in Seq(Nat) /\ Len(f) = n
  BY <1>4
<1>9. ASSUME NEW k \in 1 .. n PROVE f[k] = ByteAt(ip, call.offset + k - 1)
  <2>1. PICK x \in Nat : x = call.offset + k - 1
    BY <1>6
  <2>2. x \div BSIZE = call.offset \div BSIZE
    <3>1. (call.offset % BSIZE) + n <= BSIZE
      BY <1>3 DEF On
    <3>2. call.offset <= x /\ x < call.offset + n
      BY <2>1, <1>6
    <3> QED BY <3>1, <3>2, <1>6, Within
  <2>3. BlockOf(i, x) = 0
    BY <2>2, <1>7 DEF BlockOf
  <2> QED BY <2>1, <2>3, <1>2, <1>4, ByteIs
<1>10. FromFile(f)
  BY <1>8, <1>9 DEF FromFile
<1> QED BY <1>1, <1>3, <1>5, <1>8, <1>10, GotMore

(* A read that ends leaves what it found, and answers that or nothing. *)
LEMMA ReadEnded ==
  ASSUME Inv, Told, call.stage = "rw", call.op = "read", call'.stage = "done",
         SameCall(call, call'), UNCHANGED <<kernel, name, inode, data, avail, ofile>>
  PROVE  /\ Told' /\ UNCHANGED <<Outside, name, ofile>> /\ Answered = FS!None
         /\ Outside[fp.ino] = call.before
         /\ Answered' = [ok |-> call'.ok, of |-> "read",
                         got |-> IF call'.ok THEN call'.got ELSE <<>>]
<1>1. PICK i \in Inos : i = fp.ino /\ ip = inode[i]
  BY InCall DEF ip
<1>2. /\ Touches(i)
      /\ \A j \in Inos : Text(j)' = Text(j) /\ (Ends(j) => Ends(j)')
  BY QuietTouch
<1>3. Text(i)' = call.before
  <2>1. Holds(i, call.before) /\ call.before \in Seq(Nat)
    BY <1>1, InCall DEF Told, Doing, Calls
  <2> QED BY <2>1, <1>2, HoldsIsText
<1>4. /\ Outside[i] = call.before /\ Outside' = [Outside EXCEPT ![i] = call.before]
      /\ Answered = FS!None
      /\ Answered' = [ok |-> call'.ok, of |-> call.op,
                      got |-> IF call'.ok THEN call'.got ELSE <<>>]
  BY <1>1, <1>2, <1>3, EndShown
<1>5. Outside' = Outside
  <2>1. [Outside EXCEPT ![i] = Outside[i]] = Outside
    BY DEF Outside
  <2> QED BY <2>1, <1>4
<1>6. kernel = "v6" => inode[i].size < SizeRange
  BY DEF Told, Rests, Sized
<1>7. Ends(i)
  BY <1>1 DEF Told, Rests, Cleared, Writes
<1>8. Rests'
  BY <1>1, <1>2, <1>6, <1>7, RestsTouched DEF Told
<1>9. Doing' /\ Answers'
  BY DEF Doing, Answers, SameCall
<1> QED BY <1>1, <1>4, <1>5, <1>8, <1>9 DEF Told

LEMMA ReadFailed ==
  ASSUME Answered = FS!None, Answered' = [ok |-> FALSE, of |-> "read", got |-> <<>>],
         UNCHANGED <<Outside, name, ofile>>
  PROVE  FS!Read
<1>1. 0 \in FDs /\ 0 \in 0 .. MaxSeek + 1 /\ 1 \in 1 .. MaxCount
  BY Sizes, FileIOAssumption DEF FDs
<1>2. FS!Answer("read", FALSE, <<>>)
  BY DEF FS!Answer
<1>3. FS!Pread(0, 0, 1)
  BY <1>2 DEF FS!Pread
<1>4. Answered'.of = "read"
  OBVIOUS
<1> QED BY <1>1, <1>3, <1>4 DEF FS!Read

LEMMA ReadErrorShows ==
  ASSUME Inv, Told, ReadError
  PROVE  Told' /\ FS!Read
<1>1. /\ call.stage = "rw" /\ call.op = "read" /\ call' = Finish(call, FALSE)
      /\ UNCHANGED <<kernel, name, inode, data, avail, ofile>> /\ call \in Calls
  BY DEF ReadError, Reading, Inv, Typed
<1>2. call'.stage = "done" /\ ~call'.ok /\ call'.ok = FALSE /\ SameCall(call, call')
  BY <1>1, FinishFields
<1>3. /\ Told' /\ UNCHANGED <<Outside, name, ofile>> /\ Answered = FS!None
      /\ Answered' = [ok |-> call'.ok, of |-> "read",
                      got |-> IF call'.ok THEN call'.got ELSE <<>>]
  BY <1>1, <1>2, ReadEnded
<1>4. Answered' = [ok |-> FALSE, of |-> "read", got |-> <<>>]
  BY <1>2, <1>3
<1> QED BY <1>3, <1>4, ReadFailed

(* What a read that is done has got is what it was asked for. *)
LEMMA AllGot ==
  ASSUME NEW t \in Seq(Nat), NEW g \in Seq(Nat), NEW at \in Nat, NEW n \in Nat, n > 0,
         Len(g) <= n, Len(g) = n \/ at + Len(g) >= Len(t),
         \A k \in 1 .. Len(g) : at + k <= Len(t) /\ g[k] = t[at + k]
  PROVE  g = FS!ReadOf(t, at, n)
<1>1. PICK m \in Nat : m = IF at + n < Len(t) THEN at + n ELSE Len(t)
  OBVIOUS
<1>2. FS!Min({at + n, Len(t)}) = m
  BY <1>1 DEF FS!Min
<1>3. FS!ReadOf(t, at, n) = SubSeq(t, at + 1, m)
  BY <1>2 DEF FS!ReadOf
<1>4. Len(g) # 0 => at + Len(g) <= Len(t)
  OBVIOUS
<1>5. IF at <= m THEN Len(g) = m - at ELSE Len(g) = 0
  <2>1. PICK a \in Nat, l \in Nat : a = Len(g) /\ l = Len(t)
    OBVIOUS
  <2>2. a <= n /\ (a = n \/ at + a >= l) /\ (a # 0 => at + a <= l)
    BY <2>1, <1>4
  <2>3. m = IF at + n < l THEN at + n ELSE l
    BY <2>1, <1>1
  <2>4. IF at <= m THEN a = m - at ELSE a = 0
    BY <2>2, <2>3
  <2> QED BY <2>1, <2>4
<1>6. SubSeq(t, at + 1, m) = [k \in 1 .. Len(g) |-> t[at + k]]
  <2>1. SubSeq(t, at + 1, m) = [k \in 1 .. (m - (at + 1) + 1) |-> t[k + (at + 1) - 1]]
    OBVIOUS
  <2>2. 1 .. (m - (at + 1) + 1) = 1 .. Len(g)
    BY <1>5
  <2>3. \A k \in 1 .. Len(g) : k + (at + 1) - 1 = at + k
    OBVIOUS
  <2> QED BY <2>1, <2>2, <2>3
<1>7. g = [k \in 1 .. Len(g) |-> t[at + k]]
  OBVIOUS
<1> QED BY <1>3, <1>6, <1>7

(* The read is done, or goes on with its next rdwr. *)
LEMMA ReadEndShows ==
  ASSUME Inv, Inv', Told, ReadEnd
  PROVE  Told' /\ (FS!Read \/ UNCHANGED FSvars)
<1>1. /\ call.stage = "rw" /\ call.op = "read" /\ (call.count = 0 \/ AtEnd)
      /\ call' = IF call.offset = call.f_offset THEN Finish(call, TRUE) ELSE Advance(call)
      /\ UNCHANGED <<kernel, name, inode, data, avail, ofile>> /\ call \in Calls
  BY DEF ReadEnd, Inv, Typed
<1>2. Fits(call) /\ Got(call) /\ call.offset \in Nat /\ call.count \in Nat /\ call.fd \in FDs
      /\ ofile[call.fd] # Closed
  BY <1>1, InCall DEF Told, Doing, Runs
<1>3. PICK i \in Inos : i = fp.ino /\ ip = inode[i]
  BY <1>1, InCall DEF ip
<1>4. Holds(i, call.before) /\ call.before \in Seq(Nat) /\ call.got \in Seq(Nat)
  BY <1>1, <1>3 DEF Told, Doing, Calls
<1>5. AtEnd => call.offset >= Len(call.before)
  BY <1>3, <1>4 DEF AtEnd, Holds
<1>6. ASSUME call'.stage = "done", call'.ok, call'.got = call.got, SameCall(call, call'),
             call.left = call.offset - call.f_offset \/ AtEnd
      PROVE  Told' /\ FS!Read
  <2>1. /\ Told' /\ UNCHANGED <<Outside, name, ofile>> /\ Answered = FS!None
        /\ Outside[i] = call.before
        /\ Answered' = [ok |-> call'.ok, of |-> "read",
                        got |-> IF call'.ok THEN call'.got ELSE <<>>]
    BY <1>1, <1>3, <1>6, ReadEnded
  <2>2. call'.ok = TRUE
    <3>1. call'.ok \in BOOLEAN
      BY DEF Inv, Typed, Calls
    <3> QED BY <3>1, <1>6
  <2>3. Answered' = [ok |-> TRUE, of |-> "read", got |-> call.got]
    BY <2>1, <2>2, <1>6
  <2>4. PICK n \in 1 .. MaxCount : n = Asked(call)
    BY <1>2 DEF Fits
  <2>5. PICK at \in 0 .. MaxSeek : at = call.at
    BY <1>1, <1>2, Moving, Sizes DEF Fits
  <2>6. Len(call.got) = call.offset - at /\ Len(call.got) <= n
    <3>1. Len(call.got) = call.offset - at
      BY <1>2, <2>5 DEF Got
    <3>2. call.offset - call.at <= n
      BY <1>1, <1>2, <2>4, Moving, Sizes
    <3> QED BY <3>1, <3>2, <2>5
  <2>7. Len(call.got) = n \/ at + Len(call.got) >= Len(call.before)
    <3>1. CASE call.left = call.offset - call.f_offset
      <4>1. n = call.offset - call.at
        BY <3>1, <1>1, <1>2, <2>4, Moving DEF Asked
      <4> QED BY <4>1, <2>5, <2>6
    <3>2. CASE AtEnd
      BY <3>2, <1>2, <1>5, <2>5, <2>6
    <3> QED BY <3>1, <3>2, <1>6
  <2>8. \A k \in 1 .. Len(call.got) :
          at + k <= Len(call.before) /\ call.got[k] = call.before[at + k]
    BY <1>2, <2>5 DEF Got
  <2>9. call.got = FS!ReadOf(call.before, at, n)
    <3>1. n \in Nat /\ at \in Nat /\ n > 0
      BY <2>4, <2>5, Sizes
    <3> QED BY <3>1, <2>6, <2>7, <2>8, <1>4, AllGot
  <2>10. "r" \in ofile[call.fd].flag
    BY <1>1, <1>2 DEF Fits, Needs
  <2>11. FS!Pread(call.fd, at, n)
    <3>1. FS!Answer("read", TRUE, FS!ReadOf(Outside[ofile[call.fd].ino], at, n))
      BY <2>1, <2>3, <2>9, <1>3 DEF FS!Answer, fp
    <3>2. ofile[call.fd] # FS!Closed
      BY <1>2 DEF FS!Closed, Closed
    <3> QED BY <3>1, <3>2, <2>10 DEF FS!Pread
  <2>12. at \in 0 .. MaxSeek + 1
    BY <2>5, Sizes
  <2>13. Answered'.of = "read"
    BY <2>3
  <2> QED BY <2>1, <2>11, <2>12, <2>13, <1>2 DEF FS!Read
<1>7. CASE call.offset = call.f_offset
  <2>1. call' = Finish(call, TRUE)
    BY <1>1, <1>7
  <2>2. call'.stage = "done" /\ call'.ok /\ call'.got = call.got /\ SameCall(call, call')
    BY <2>1, <1>1, FinishFields
  <2>3. AtEnd
    <3>1. call.count > 0
      BY <1>1, <1>2, <1>7, Moving DEF Fits
    <3> QED BY <3>1, <1>1
  <2> QED BY <2>2, <2>3, <1>6
<1>8. CASE call.offset # call.f_offset /\ call.left = call.offset - call.f_offset
  <2>1. call' = Advance(call)
    BY <1>1, <1>8
  <2>2. call'.stage = "done" /\ call'.ok /\ call'.got = call.got /\ SameCall(call, call')
    BY <2>1, <1>1, <1>2, <1>8, AdvanceFields
  <2> QED BY <2>2, <1>6, <1>8
<1>9. CASE call.offset # call.f_offset /\ call.left # call.offset - call.f_offset
  <2>1. call' = Advance(call)
    BY <1>1, <1>9
  <2>2. /\ call'.stage = "rw" /\ call'.got = call.got /\ SameCall(call, call')
        /\ call'.offset = call.offset /\ call'.f_offset = call.offset
        /\ call'.left = call.left - (call.offset - call.f_offset) /\ call'.count > 0
    BY <2>1, <1>1, <1>2, <1>9, AdvanceFields
  <2>3. Touches(i) /\ (\A j \in Inos : Ends(j) => Ends(j)')
        /\ (\A j \in Inos : \A t : Holds(j, t) => Holds(j, t)')
    BY <1>1, QuietTouch
  <2>4. UNCHANGED FSvars
    BY <2>2, <2>3, <1>1, <1>3, MidShown
  <2>5. Rests'
    <3>1. Ends(i)
      BY <1>1, <1>3 DEF Told, Rests, Cleared, Writes
    <3>2. kernel = "v6" => inode[i].size < SizeRange
      BY DEF Told, Rests, Sized
    <3> QED BY <3>1, <3>2, <2>3, <1>1, <1>3, RestsTouched DEF Told
  <2>6. Fits(call)'
    <3>1. Asked(call') = Asked(call)
      BY <2>2, <1>1, <1>2, Moving DEF Asked, SameCall
    <3>2. call.at <= call'.f_offset /\ (call'.offset - call'.f_offset) + call'.count > 0
      <4>1. call'.count \in Nat
        BY DEF Inv, Typed, Calls
      <4>2. call.offset - call.offset = 0 /\ call.at <= call.offset
        BY <1>1, <1>2, Moving
      <4>3. call'.offset - call'.f_offset = 0 /\ call.at <= call'.f_offset
        BY <4>2, <2>2
      <4>4. call'.count > 0
        BY <2>2
      <4> QED BY <4>1, <4>3, <4>4
    <3> QED BY <3>1, <3>2, <2>2, <1>1, <1>2, FitsStep
  <2>7. fp' = fp /\ call'.op = "read" /\ call'.before = call.before
    BY <2>2, <1>1 DEF fp, SameCall
  <2>8. Holds(fp.ino, call.before)'
    <3>1. PICK t : t = call.before
      OBVIOUS
    <3>2. Holds(i, t)'
      BY <3>1, <2>3, <1>4
    <3>3. inode'[i].size = Len(t) /\ \A x \in Nat : ByteAt(inode[i], x)' = Content(t, x)'
      BY <3>2 DEF Holds
    <3> QED BY <3>1, <3>3, <2>7, <1>3 DEF Holds, Content
  <2>9. Got(call)'
    BY <2>2, <1>2 DEF Got, SameCall
  <2> QED BY <2>2, <2>4, <2>5, <2>6, <2>7, <2>8, <2>9 DEF Told, Doing, Answers
<1> QED BY <1>7, <1>8, <1>9

LEMMA ReturnShows ==
  ASSUME Inv, Told, Return
  PROVE  Told' /\ FS!Return
<1>1. /\ call.stage = "done" /\ call.op # "none" /\ call' = Idle
      /\ UNCHANGED <<kernel, name, inode, data, avail, ofile>>
  BY DEF Return, Told, Answers
<1>2. call'.stage = "idle"
  BY <1>1 DEF Idle
<1>3. Answered # FS!None /\ Answered' = FS!None
  <2>1. Answered.of = call.op
    BY <1>1 DEF Answered
  <2>2. FS!None.of = "none"
    BY DEF FS!None
  <2>3. Answered' = FS!None
    BY <1>2 DEF Answered, FS!None
  <2> QED BY <2>1, <2>2, <2>3, <1>1
<1>4. \A j \in Inos : Text(j)' = Text(j) /\ (Ends(j) => Ends(j)')
  <2> TAKE j \in Inos
  <2> QED BY <1>1, QuietTouch
<1>5. Outside' = Outside
  <2>1. Outside = [j \in Inos |-> Text(j)]
    BY <1>1, ShownText
  <2>2. Outside' = [j \in Inos |-> Text(j)']
    BY <1>2, ShownTextNext
  <2> QED BY <2>1, <2>2, <1>4
<1>6. Rests'
  <2>1. \A j \in Inos : Ends(j)
    BY <1>1 DEF Told, Rests, Cleared, Writes
  <2>2. Cleared'
    BY <2>1, <1>4 DEF Cleared
  <2>3. Linked' /\ Buried' /\ Sized'
    BY <1>1 DEF Told, Rests, Linked, Buried, Sized
  <2> QED BY <2>2, <2>3 DEF Rests
<1>7. Doing' /\ Answers'
  BY <1>2 DEF Doing, Answers
<1> QED BY <1>1, <1>3, <1>5, <1>6, <1>7 DEF Told, FS!Return

-----------------------------------------------------------------------------
(* Calls that begin.                                                       *)
LEMMA WriteFailed ==
  ASSUME Answered = FS!None, Answered' = [ok |-> FALSE, of |-> "write", got |-> <<>>],
         UNCHANGED <<Outside, name, ofile>>, NEW b \in Bytes
  PROVE  FS!Write
<1>1. 0 \in FDs /\ 0 \in 0 .. MaxSeek + 1 /\ 1 \in 1 .. MaxCount
  BY Sizes, FileIOAssumption DEF FDs
<1>2. FS!Answer("write", FALSE, <<>>)
  BY DEF FS!Answer
<1>3. FS!Pwrite(0, 0, 1, b)
  BY <1>2 DEF FS!Pwrite
<1>4. Answered'.of = "write"
  OBVIOUS
<1> QED BY <1>1, <1>3, <1>4 DEF FS!Write

(* The call c, and how it begins. *)
Fresh(c, op, fd, off, n, byte) ==
  /\ c \in Calls
  /\ c.stage = "rw" /\ c.op = op /\ c.fd = fd /\ c.left = n /\ c.byte = byte
  /\ c.before = Text(ofile[fd].ino) /\ c.at = off /\ c.got = <<>>

LEMMA BeginDoes ==
  ASSUME Inv, NEW op \in {"read", "write"}, NEW fd \in FDs, NEW off \in Nat,
         NEW n \in Nat, n > 0, NEW byte \in Nat, Begin(op, fd, off, n, byte)
  PROVE  /\ ofile[fd] # Closed /\ call.stage = "idle"
         /\ UNCHANGED <<kernel, name, inode, data, avail, ofile>>
         /\ Wide \/ ~Wraps(op, off, n)
         /\ \/ call'.stage = "done" /\ call'.ok = FALSE /\ call'.op = op
            \/ /\ Fresh(call', op, fd, off, n, byte) /\ off <= MaxSeek
               /\ Needs(op) \in ofile[fd].flag
               /\ call'.offset = off /\ call'.f_offset = off /\ call'.count > 0
<1>1. /\ ofile[fd] # Closed /\ UNCHANGED <<kernel, name, inode, data, avail, ofile>>
      /\ Wide \/ ~Wraps(op, off, n)
  BY DEF Begin
<1>2. call.stage = "idle"
  BY DEF Begin, Idle
<1>3. PICK was \in Seq(Nat) : was = Text(ofile[fd].ino)
  <2>1. ofile[fd].ino \in Inos
    BY <1>1 DEF Inv, Typed
  <2> QED BY <2>1, ContentsRead
<1>4. PICK c : c = [Idle EXCEPT !.stage = "rw", !.op = op, !.fd = fd, !.left = n,
                                !.byte = byte, !.before = was, !.at = off]
  OBVIOUS
<1>5. c = [stage |-> "rw", op |-> op, fd |-> fd, left |-> n, count |-> 0,
           f_offset |-> 0, offset |-> 0, byte |-> byte, got |-> <<>>, ok |-> TRUE,
           before |-> was, at |-> off]
  BY <1>4 DEF Idle
<1>6. c \in Calls
  <2>1. <<>> \in Seq(Nat) /\ "rw" \in {"idle", "rw", "done"}
        /\ op \in {"none", "read", "write"}
    OBVIOUS
  <2> QED BY <1>5, <2>1 DEF Calls
<1>7. PICK d : d = [c EXCEPT !.f_offset = off]
  OBVIOUS
<1>8. d \in Calls /\ d.f_offset = off
  BY <1>6, <1>7 DEF Calls
<1>9. Fresh(d, op, fd, off, n, byte)
  <2>1. /\ d.stage = "rw" /\ d.op = op /\ d.fd = fd /\ d.left = n /\ d.byte = byte
        /\ d.before = was /\ d.at = off /\ d.got = <<>>
    BY <1>5, <1>7
  <2> QED BY <2>1, <1>3, <1>8 DEF Fresh
<1>10. call' = IF off > MaxSeek THEN Finish(c, FALSE) ELSE Rdwr(d)
  BY <1>3, <1>4, <1>7 DEF Begin
<1>11. CASE off > MaxSeek
  <2>1. call' = Finish(c, FALSE) /\ c.op = op
    BY <1>5, <1>10, <1>11
  <2> QED BY <2>1, <1>1, <1>2, <1>6, FinishFields DEF SameCall
<1>12. CASE ~(off > MaxSeek) /\ Needs(op) \notin ofile[fd].flag
  <2>1. call' = Finish(d, FALSE)
    <3>1. d.left # 0 /\ d.left > 0 /\ Needs(d.op) \notin ofile[d.fd].flag
      BY <1>9, <1>12 DEF Fresh
    <3>2. Rdwr(d) = Finish(d, FALSE)
      BY <3>1, Zenon DEF Rdwr
    <3> QED BY <3>2, <1>10, <1>12
  <2>2. d.op = op
    BY <1>9 DEF Fresh
  <2> QED BY <2>1, <2>2, <1>1, <1>2, <1>8, FinishFields DEF SameCall
<1>13. CASE ~(off > MaxSeek) /\ Needs(op) \in ofile[fd].flag
  <2>1. call' = Rdwr(d)
    BY <1>10, <1>13
  <2>2. Needs(d.op) \in ofile[d.fd].flag /\ d.left # 0 /\ ofile[d.fd] # Closed
    BY <1>1, <1>9, <1>13 DEF Fresh
  <2>3. /\ call'.stage = d.stage /\ call'.got = d.got /\ SameCall(d, call')
        /\ call'.offset = d.f_offset /\ call'.f_offset = d.f_offset
        /\ call'.left = d.left /\ call'.count > 0
    BY <2>1, <2>2, <1>8, RdwrFields
  <2>4. call' \in Calls
    BY <2>1, <2>2, <1>8, RdwrDoes
  <2>5. Fresh(call', op, fd, off, n, byte)
    BY <2>3, <2>4, <1>9 DEF Fresh, SameCall
  <2>6. off <= MaxSeek
    BY <1>13, Sizes
  <2> QED BY <2>3, <2>5, <2>6, <1>1, <1>2, <1>8, <1>13
<1> QED BY <1>11, <1>12, <1>13

LEMMA BeginShows ==
  ASSUME Inv, Inv', Told, ~Wide, NEW op \in {"read", "write"}, NEW fd \in FDs,
         NEW off \in Nat, NEW n \in 1 .. MaxCount, NEW byte \in Nat,
         op = "write" => byte \in Bytes, Begin(op, fd, off, n, byte)
  PROVE  Told' /\ (FS!Read \/ FS!Write \/ UNCHANGED FSvars)
<1>1. n \in Nat /\ n > 0
  BY Sizes
<1>2. /\ ofile[fd] # Closed /\ call.stage = "idle"
      /\ UNCHANGED <<kernel, name, inode, data, avail, ofile>>
      /\ Wide \/ ~Wraps(op, off, n)
      /\ \/ call'.stage = "done" /\ call'.ok = FALSE /\ call'.op = op
         \/ /\ Fresh(call', op, fd, off, n, byte) /\ off <= MaxSeek
            /\ Needs(op) \in ofile[fd].flag
            /\ call'.offset = off /\ call'.f_offset = off /\ call'.count > 0
  BY <1>1, BeginDoes
<1>3. PICK i \in Inos : i = ofile[fd].ino
  BY <1>2 DEF Inv, Typed
<1>4. /\ \A j \in Inos : Text(j)' = Text(j) /\ (Ends(j) => Ends(j)')
      /\ \A j \in Inos : \A t : Holds(j, t) => Holds(j, t)'
  BY <1>2, <1>3, QuietTouch
<1>5. \A j \in Inos : Ends(j)
  BY <1>2 DEF Told, Rests, Cleared, Writes
<1>6. Rests'
  <2>1. Cleared'
    BY <1>4, <1>5 DEF Cleared
  <2>2. Linked' /\ Buried' /\ Sized'
    BY <1>2 DEF Told, Rests, Linked, Buried, Sized
  <2> QED BY <2>1, <2>2 DEF Rests
<1>7. Answered = FS!None /\ Outside = [j \in Inos |-> Text(j)]
  BY <1>2, ShownText DEF Answered, FS!None
<1>8. CASE call'.stage = "done" /\ call'.ok = FALSE /\ call'.op = op
  <2>1. Doing' /\ Answers'
    BY <1>8 DEF Doing, Answers
  <2>2. Outside' = Outside
    <3>1. Outside' = [j \in Inos |-> Text(j)']
      BY <1>8, ShownTextNext
    <3> QED BY <3>1, <1>4, <1>7
  <2>3. Answered' = [ok |-> FALSE, of |-> op, got |-> <<>>]
    BY <1>8 DEF Answered
  <2>4. FS!Read \/ FS!Write
    <3>1. CASE op = "read"
      BY <3>1, <2>2, <2>3, <1>2, <1>7, ReadFailed
    <3>2. CASE op = "write"
      BY <3>2, <2>2, <2>3, <1>2, <1>7, WriteFailed
    <3> QED BY <3>1, <3>2
  <2> QED BY <2>1, <2>4, <1>6 DEF Told
<1>9. CASE /\ Fresh(call', op, fd, off, n, byte) /\ off <= MaxSeek
           /\ Needs(op) \in ofile[fd].flag
           /\ call'.offset = off /\ call'.f_offset = off /\ call'.count > 0
  <2>1. /\ call'.stage = "rw" /\ call'.op = op /\ call'.fd = fd /\ call'.left = n
        /\ call'.byte = byte /\ call'.before = Text(i) /\ call'.at = off /\ call'.got = <<>>
        /\ call'.count \in Nat
    BY <1>3, <1>9 DEF Fresh, Calls
  <2>2. fp' = ofile[fd]
    BY <2>1, <1>2 DEF fp
  <2>3. Outside' = Outside
    <3>1. Outside' = [j \in Inos |-> IF i = j THEN Text(i) ELSE Text(j)']
      BY <2>1, <2>2, <1>3 DEF Outside
    <3> QED BY <3>1, <1>4, <1>7
  <2>4. Answered' = Answered
    BY <2>1, <1>7 DEF Answered, FS!None
  <2>5. Asked(call') = n
    BY <2>1, <1>1, <1>9 DEF Asked
  <2>6. kernel = "v6" => Reaches(call')
    <3>1. ~Wraps(op, off, n)
      BY <1>2
    <3>2. SizeRange \in Nat
      BY Sizes, BnsReach DEF SizeRange
    <3> QED BY <3>1, <3>2, <2>1, <2>5, <1>1, <1>9 DEF Wraps, Reaches
  <2>7. Fits(call)'
    <3>1. op # "none"
      OBVIOUS
    <3>2. call'.at <= call'.f_offset /\ (call'.offset - call'.f_offset) + call'.count > 0
      BY <2>1, <1>9
    <3>3. Needs(call'.op) \in ofile'[call'.fd].flag
      BY <2>1, <1>2, <1>9
    <3>4. Asked(call)' \in 1 .. MaxCount
      BY <2>5 DEF Asked
    <3>5. kernel' = "v6" => Reaches(call)'
      BY <2>6, <1>2 DEF Reaches, Asked
    <3> QED BY <3>1, <3>2, <3>3, <3>4, <3>5, <2>1, <1>9 DEF Fits
  <2>8. PICK t \in Seq(Nat) : t = Text(i) /\ Holds(i, t)
    BY <1>5, TextHeld
  <2>9. Holds(i, t)'
    BY <2>8, <1>4
  <2>10. /\ inode'[i].size = Len(t) /\ ip' = inode'[i]
         /\ \A x \in Nat : ByteAt(ip, x)' = Content(t, x)
    <3>1. ip' = inode'[i]
      BY <2>2, <1>3 DEF ip
    <3>2. \A x \in Nat : ByteAt(inode[i], x)' = Content(t, x)' /\ Content(t, x)' = Content(t, x)
      BY <2>9 DEF Holds, Content
    <3>3. \A x \in Nat : ByteAt(ip, x)' = ByteAt(inode[i], x)'
      BY <3>1 DEF ByteAt
    <3> QED BY <3>1, <3>2, <3>3, <2>9 DEF Holds
  <2>11. op = "read" => Holds(fp.ino, call.before)' /\ Got(call)'
    <3>1. Holds(fp.ino, call.before)'
      BY <2>1, <2>2, <2>8, <2>9, <1>3 DEF Holds, Content
    <3>2. Got(call)'
      BY <2>1, <1>9 DEF Got
    <3> QED BY <3>1, <3>2
  <2>12. op = "write" => WroteSoFar'
    <3>1. call'.offset - call'.at = 0
      BY <2>1, <1>9
    <3>2. Wrote(call') = t
      BY <3>1, <2>1, <2>8 DEF Wrote, FS!Written
    <3>3. Wrote(call)' = t
      BY <3>2 DEF Wrote
    <3>4. \A x \in Nat : Content(Wrote(call), x)' = Content(t, x)
      BY <3>3 DEF Content
    <3> QED BY <3>3, <3>4, <2>10 DEF WroteSoFar
  <2>13. Doing' /\ Answers'
    BY <2>1, <2>7, <2>11, <2>12 DEF Doing, Answers
  <2> QED BY <2>3, <2>4, <2>13, <1>2, <1>6 DEF Told, FSvars
<1> QED BY <1>2, <1>8, <1>9

-----------------------------------------------------------------------------
(* Holes filled.                                                           *)
Allocates(b) ==
  /\ inode' = [inode EXCEPT ![fp.ino].addr[Bn(call.offset)] = b]
  /\ data' \in [Blocks -> Contents]
  /\ \A c \in Blocks : c # b => data'[c] = data[c]
  /\ UNCHANGED <<kernel, name, ofile, call>>

LEMMA AllocatesDoes ==
  ASSUME Inv, Inv', call.stage = "rw", Fits(call), NEW i \in Inos, i = fp.ino,
         Mapped = 0, ~TooBig(call.offset), NEW b \in avail, Allocates(b)
  PROVE  /\ Touches(i) /\ inode'[i].size = inode[i].size /\ b # 0 /\ b \in Blocks
         /\ Mapped' = b
         /\ \A x \in Nat : IF x \div BSIZE = call.offset \div BSIZE
                           THEN /\ ByteAt(inode[i], x) = 0
                                /\ ByteAt(inode[i], x)' = data'[b][x % BSIZE]
                           ELSE ByteAt(inode[i], x)' = ByteAt(inode[i], x)
<1>1. b \in Blocks /\ b # 0 /\ avail \subseteq Blocks
  BY FileIOAssumption DEF Inv, Typed
<1>2. PICK p \in Bns : p = call.offset \div BSIZE /\ p = Bn(call.offset)
  BY Reached
<1>3. BlockOf(i, call.offset) = 0
  BY Reached
<1>4. inode \in [Inos -> Inodes] /\ inode[i] \in Inodes
  BY DEF Inv, Typed
<1>5. inode[i].addr[p] = 0 /\ inode[i].addr \in [Bns -> Blocks \union {0}]
  BY <1>2, <1>3, <1>4 DEF BlockOf, Inodes, Addrs
<1>6. PICK f : f = [inode[i].addr EXCEPT ![p] = b]
  OBVIOUS
<1>7. f \in Addrs /\ \A a \in Bns : f[a] = IF a = p THEN b ELSE inode[i].addr[a]
  BY <1>1, <1>5, <1>6 DEF Addrs
<1>8. PICK r \in Inodes : r = [inode[i] EXCEPT !.addr = f]
  BY <1>4, <1>7, AddrSet
<1>9. /\ r.addr = f /\ r.used = inode[i].used /\ r.nlink = inode[i].nlink
      /\ r.size = inode[i].size
  BY <1>4, <1>7, <1>8, AddrSet
<1>10. inode' = [inode EXCEPT ![i] = r]
  BY <1>2, <1>4, <1>6, <1>8 DEF Allocates
<1>11. inode'[i] = r /\ \A j \in Inos : j # i => inode'[j] = inode[j]
  BY <1>4, <1>10
<1>12. Touches(i)
  <2>1. ASSUME NEW j \in Inos, j # i, NEW c \in BlocksOf(inode[j]) PROVE data'[c] = data[c]
    <3>1. c \notin avail /\ c \in Blocks
      BY <2>1, OthersBlocks
    <3> QED BY <3>1 DEF Allocates
  <2> QED BY <2>1, <1>9, <1>11 DEF Touches, Allocates
<1>13. ASSUME NEW x \in Nat
       PROVE  IF x \div BSIZE = call.offset \div BSIZE
              THEN /\ ByteAt(inode[i], x) = 0
                   /\ ByteAt(inode[i], x)' = data'[b][x % BSIZE]
              ELSE ByteAt(inode[i], x)' = ByteAt(inode[i], x)
  <2>1. CASE x \div BSIZE = p
    <3>1. BlockOf(i, x) = 0 /\ BlockOf(i, x)' = b
      BY <2>1, <1>5, <1>7, <1>9, <1>11 DEF BlockOf
    <3>2. ByteAt(inode[i], x) = 0
      BY <3>1, ByteIs
    <3>3. ByteAt(inode[i], x)' = data'[b][x % BSIZE]
      BY <3>1, <1>1, ByteIsNext
    <3> QED BY <3>2, <3>3, <2>1, <1>2
  <2>2. CASE x \div BSIZE # p
    <3>1. BlockOf(i, x)' = BlockOf(i, x)
      BY <2>2, <1>7, <1>9, <1>11 DEF BlockOf
    <3>2. BlockOf(i, x) # 0 => data'[BlockOf(i, x)] = data[BlockOf(i, x)]
      BY <1>1, BlockTyped DEF Allocates
    <3>3. ByteAt(inode[i], x)' = ByteAt(inode[i], x)
      BY <3>1, <3>2, ByteIs, ByteIsNext
    <3> QED BY <3>3, <2>2, <1>2
  <2> QED BY <2>1, <2>2
<1>14. Mapped' = b
  <2>1. TooBig(call.offset)' = TooBig(call.offset) /\ Bn(call.offset)' = p
    BY <1>2 DEF TooBig, Bn, Allocates
  <2>2. ip' = r
    BY <1>11 DEF ip, fp, Allocates
  <2> QED BY <2>1, <2>2, <1>7, <1>9 DEF Mapped
<1> QED BY <1>1, <1>9, <1>11, <1>12, <1>13, <1>14

LEMMA ClearedAlloc ==
  ASSUME Inv, NEW b \in avail, Alloc(b), UNCHANGED <<kernel, name, ofile, call>>
  PROVE  Allocates(b) /\ \A k \in 0 .. BSIZE - 1 : data'[b][k] = 0
<1>1. b \in Blocks /\ data \in [Blocks -> Contents] /\ ZeroBlock \in Contents
  BY ZeroTyped DEF Inv, Typed
<1>2. data' = [data EXCEPT ![b] = ZeroBlock]
  BY DEF Alloc
<1>3. data'[b] = ZeroBlock /\ data' \in [Blocks -> Contents]
      /\ \A c \in Blocks : c # b => data'[c] = data[c]
  BY <1>1, <1>2
<1>4. Allocates(b)
  BY <1>3 DEF Alloc, Allocates
<1> QED BY <1>3, <1>4 DEF ZeroBlock

(* A hole filled with zeros is what it was. *)
LEMMA HoleFilled ==
  ASSUME Inv, Inv', call.stage = "rw", Fits(call), NEW i \in Inos, i = fp.ino,
         Mapped = 0, ~TooBig(call.offset), NEW b \in avail, Alloc(b),
         UNCHANGED <<kernel, name, ofile, call>>, NEW t, Holds(i, t)
  PROVE  Touches(i) /\ inode'[i].size = inode[i].size /\ Holds(i, t)'
<1>1. Allocates(b) /\ \A k \in 0 .. BSIZE - 1 : data'[b][k] = 0
  BY ClearedAlloc
<1>2. /\ Touches(i) /\ inode'[i].size = inode[i].size
      /\ \A x \in Nat : IF x \div BSIZE = call.offset \div BSIZE
                        THEN /\ ByteAt(inode[i], x) = 0
                             /\ ByteAt(inode[i], x)' = data'[b][x % BSIZE]
                        ELSE ByteAt(inode[i], x)' = ByteAt(inode[i], x)
  BY <1>1, AllocatesDoes
<1>3. \A x \in Nat : ByteAt(inode[i], x)' = ByteAt(inode[i], x)
  <2> TAKE x \in Nat
  <2>1. x % BSIZE \in 0 .. BSIZE - 1
    BY Sizes, Divided
  <2>2. data'[b][x % BSIZE] = 0
    BY <2>1, <1>1
  <2> QED BY <2>2, <1>2
<1>4. \A x \in Nat : Content(t, x)' = Content(t, x)
  BY DEF Content
<1> QED BY <1>2, <1>3, <1>4 DEF Holds

(* The call is where it was. *)
LEMMA SameFits ==
  ASSUME Fits(call), UNCHANGED <<kernel, ofile, call>>
  PROVE  Fits(call)'
BY DEF Fits, Asked, Reaches

LEMMA FillHoleShows ==
  ASSUME Inv, Inv', Told, NEW b \in avail, FillHole(b)
  PROVE  Told' /\ UNCHANGED FSvars
<1>1. /\ call.stage = "rw" /\ call.op = "read" /\ Mapped = 0 /\ ~TooBig(call.offset)
      /\ Alloc(b) /\ UNCHANGED <<kernel, name, ofile, call>>
  BY DEF FillHole, Reading
<1>2. PICK i \in Inos : i = fp.ino
  BY <1>1, InCall
<1>3. Fits(call) /\ Holds(i, call.before) /\ call.before \in Seq(Nat) /\ Got(call)
  BY <1>1, <1>2, InCall DEF Told, Doing, Calls
<1>4. PICK t \in Seq(Nat) : t = call.before
  BY <1>3
<1>5. Touches(i) /\ inode'[i].size = inode[i].size /\ Holds(i, t)'
  BY <1>1, <1>2, <1>3, <1>4, HoleFilled
<1>6. SameCall(call, call')
  BY <1>1 DEF SameCall
<1>7. UNCHANGED FSvars
  BY <1>1, <1>2, <1>5, <1>6, MidShown
<1>8. Ends(i)'
  <2>1. \A x \in Nat : x >= Len(t) => Content(t, x)' = 0
    BY <1>4 DEF Content
  <2> QED BY <2>1, <1>5 DEF Holds, Ends
<1>9. kernel = "v6" => inode[i].size < SizeRange
  BY DEF Told, Rests, Sized
<1>10. Rests'
  BY <1>1, <1>2, <1>5, <1>8, <1>9, RestsTouched DEF Told
<1>11. fp' = fp /\ call' = call
  BY <1>1 DEF fp
<1>12. Holds(fp.ino, call.before)'
  BY <1>2, <1>4, <1>5, <1>11 DEF Holds, Content
<1>13. Fits(call)' /\ Got(call)'
  BY <1>1, <1>3, SameFits DEF Got
<1>14. Doing' /\ Answers'
  BY <1>1, <1>11, <1>12, <1>13 DEF Doing, Answers
<1> QED BY <1>7, <1>10, <1>14 DEF Told

-----------------------------------------------------------------------------
(* Writing.                                                                *)

(* What has been written, as a sequence. *)
LEMMA WroteDoes ==
  ASSUME NEW c \in Calls, c.offset - c.at \in Nat
  PROVE  /\ Wrote(c) \in Seq(Nat)
         /\ Len(Wrote(c)) = IF c.offset - c.at > 0 /\ Len(c.before) < c.offset
                            THEN c.offset ELSE Len(c.before)
         /\ \A x \in Nat : Content(Wrote(c), x) = IF c.at <= x /\ x < c.offset THEN c.byte
                                                  ELSE Content(c.before, x)
<1>1. c.before \in Seq(Nat) /\ c.at \in Nat /\ c.offset \in Nat /\ c.byte \in Nat
  BY DEF Calls
<1>2. PICK n \in Nat : n = c.offset - c.at
  OBVIOUS
<1>3. c.at + n = c.offset
  BY <1>1, <1>2
<1>4. PICK w : w = FS!Written(c.before, c.at, n, c.byte)
  OBVIOUS
<1>5. /\ w \in Seq(Nat)
      /\ Len(w) = IF n > 0 /\ Len(c.before) < c.at + n THEN c.at + n ELSE Len(c.before)
      /\ \A x \in Nat : Content(w, x) = IF c.at <= x /\ x < c.at + n THEN c.byte
                                        ELSE Content(c.before, x)
  <2>1. PICK t \in Seq(Nat), at \in Nat, b \in Nat : t = c.before /\ at = c.at /\ b = c.byte
    BY <1>1
  <2>2. w = FS!Written(t, at, n, b)
    BY <2>1, <1>4
  <2>3. /\ w \in Seq(Nat)
        /\ Len(w) = IF n > 0 /\ Len(t) < at + n THEN at + n ELSE Len(t)
        /\ \A x \in Nat : Content(w, x) = IF at <= x /\ x < at + n THEN b ELSE Content(t, x)
    BY <2>2, WrittenDoes
  <2> QED BY <2>1, <2>3
<1>6. Wrote(c) = w
  BY <1>2, <1>4 DEF Wrote
<1> QED BY <1>2, <1>3, <1>5, <1>6

LEMMA NotPending ==
  ASSUME WroteSoFar, NEW i \in Inos, ip = inode[i],
         Mapped = 0 \/ call.count = 0 \/ BlockRest < BSIZE
  PROVE  Holds(i, Wrote(call))
<1>1. \A x : ~Pending(x)
  BY Sizes DEF Pending, Writing
<1> QED BY <1>1 DEF WroteSoFar, Holds

LEMMA AllocToWriteShows ==
  ASSUME Inv, Inv', Told, NEW b \in avail, AllocToWrite(b)
  PROVE  Told' /\ UNCHANGED FSvars
<1>1. /\ call.stage = "rw" /\ call.op = "write" /\ Mapped = 0 /\ ~TooBig(call.offset)
      /\ Writing /\ UNCHANGED <<kernel, name, ofile, call>>
  BY DEF AllocToWrite, Writing
<1>2. PICK i \in Inos : i = fp.ino /\ ip = inode[i]
  BY <1>1, InCall DEF ip
<1>3. Fits(call) /\ WroteSoFar /\ call \in Calls
  BY <1>1, <1>2, InCall DEF Told, Doing
<1>4. Wrote(call) \in Seq(Nat)
  BY <1>1, <1>3, Moving, WroteDoes
<1>5. PICK w \in Seq(Nat) : w = Wrote(call)
  BY <1>4
<1>6. Holds(i, w)
  BY <1>1, <1>2, <1>3, <1>5, NotPending
<1>7. SameCall(call, call') /\ fp' = fp /\ call' = call
  BY <1>1 DEF SameCall, fp
<1>8. Fits(call)'
  BY <1>1, <1>3, SameFits
<1>9. kernel = "v6" => inode[i].size < SizeRange
  BY DEF Told, Rests, Sized
<1>10. CASE kernel = "211" /\ BlockRest = BSIZE
  <2>1. Allocates(b)
    <3>1. AllocUncleared(b)
      BY <1>10 DEF AllocToWrite
    <3> QED BY <3>1, <1>1 DEF AllocUncleared, Allocates, Inv, Typed
  <2>2. /\ Touches(i) /\ inode'[i].size = inode[i].size /\ b # 0
        /\ Mapped' = b
        /\ \A x \in Nat : x \div BSIZE # call.offset \div BSIZE
                          => ByteAt(inode[i], x)' = ByteAt(inode[i], x)
    BY <2>1, <1>1, <1>2, <1>3, AllocatesDoes
  <2>3. UNCHANGED FSvars
    BY <2>2, <1>1, <1>2, <1>7, MidShown
  <2>4. Rests'
    BY <2>2, <1>1, <1>2, <1>7, <1>9, RestsTouched DEF Told
  <2>5. ip' = inode'[i] /\ Wrote(call)' = w
    BY <1>2, <1>5, <1>7 DEF ip
  <2>6. ASSUME NEW x \in Nat, ~Pending(x)' PROVE ByteAt(ip, x)' = Content(w, x)
    <3>1. Writing' /\ BlockRest' = BSIZE /\ kernel' = "211"
      BY <1>1, <1>7, <1>10 DEF Writing, BlockRest, On
    <3>2. ~(x >= call.offset /\ x < call.offset + BSIZE)
      BY <3>1, <2>2, <2>6, <1>7 DEF Pending
    <3>3. x \div BSIZE # call.offset \div BSIZE
      <4>1. call.offset \in Nat /\ On \in Nat /\ On + BSIZE <= BSIZE
        BY <1>1, <1>10, InCall
      <4>2. On = 0
        BY <4>1, Sizes
      <4>3. (call.offset % BSIZE) + BSIZE <= BSIZE /\ call.offset % BSIZE = 0
        BY <4>1, <4>2 DEF On
      <4>4. x % BSIZE \in Nat /\ x % BSIZE < BSIZE
        BY Sizes, Divided
      <4>5. call.offset <= x /\ x < call.offset + BSIZE
              <=> /\ x \div BSIZE = call.offset \div BSIZE
                  /\ x % BSIZE >= call.offset % BSIZE
                  /\ x % BSIZE < (call.offset % BSIZE) + BSIZE
        BY <4>1, <4>3, Sizes, Within
      <4> QED BY <4>1, <4>3, <4>4, <4>5, <3>2, Sizes
    <3>4. ByteAt(inode[i], x)' = ByteAt(inode[i], x)
      BY <3>3, <2>2
    <3>5. ByteAt(ip, x)' = ByteAt(inode[i], x)'
      BY <2>5 DEF ByteAt
    <3> QED BY <3>4, <3>5, <1>6 DEF Holds
  <2>7. WroteSoFar'
    <3>1. \A x \in Nat : Content(Wrote(call), x)' = Content(w, x)
      BY <2>5 DEF Content
    <3> QED BY <3>1, <2>2, <2>5, <2>6, <1>6 DEF WroteSoFar, Holds
  <2>8. Doing' /\ Answers'
    BY <2>7, <1>1, <1>7, <1>8 DEF Doing, Answers
  <2> QED BY <2>3, <2>4, <2>8 DEF Told
<1>11. CASE ~(kernel = "211" /\ BlockRest = BSIZE)
  <2>1. Alloc(b)
    BY <1>11 DEF AllocToWrite
  <2>2. Touches(i) /\ inode'[i].size = inode[i].size /\ Holds(i, w)'
    BY <2>1, <1>1, <1>2, <1>3, <1>6, HoleFilled
  <2>3. UNCHANGED FSvars
    BY <2>2, <1>1, <1>2, <1>7, MidShown
  <2>4. Rests'
    BY <2>2, <1>1, <1>2, <1>7, <1>9, RestsTouched DEF Told
  <2>5. Holds(i, Wrote(call))'
    BY <2>2, <1>5, <1>7 DEF Holds, Content
  <2>6. Doing' /\ Answers'
    BY <2>2, <2>5, <1>1, <1>2, <1>7, <1>8, HoldsDoing
  <2> QED BY <2>3, <2>4, <2>6 DEF Told
<1> QED BY <1>10, <1>11

(* The size after a write that does not wrap. *)
LEMMA SizeGrows ==
  ASSUME Inv, NEW off \in Nat, kernel = "v6" => off < SizeRange
  PROVE  SizeUpto(off) = IF off <= ip.size THEN ip.size ELSE off
<1>1. SizeRange \in Nat
  BY Sizes, BnsReach DEF SizeRange
<1>2. kernel = "v6" => off % SizeRange = off
  BY <1>1
<1> QED BY <1>2 DEF SizeUpto

LEMMA SizeMoved ==
  ASSUME NEW s \in Nat, NEW l \in Nat, NEW at \in Nat, NEW off \in Nat, NEW n \in Nat,
         at <= off, n > 0, s = IF off - at > 0 /\ l < off THEN off ELSE l
  PROVE  (IF off + n <= s THEN s ELSE off + n) = IF l < off + n THEN off + n ELSE l
<1>1. CASE l < off + n
  BY <1>1
<1>2. CASE ~(l < off + n)
  BY <1>2
<1> QED BY <1>1, <1>2

LEMMA RestMoves ==
  ASSUME Inv, Writing
  PROVE  BlockRest > 0 /\ BlockRest <= BSIZE
<1>1. /\ call.count \in Nat /\ call.count > 0 /\ On \in Nat /\ On < BSIZE
      /\ On + BlockRest <= BSIZE /\ BlockRest \in Nat
  BY InCall DEF Writing
<1>2. BSIZE - On \in Nat /\ BSIZE - On > 0
  BY <1>1, Sizes
<1>3. BlockRest = BSIZE - On \/ BlockRest = call.count
  BY <1>1, <1>2, Smaller DEF BlockRest
<1> QED BY <1>1, <1>2, <1>3, Sizes

(* The bytes of the block at which the call is, and no others. *)
LEMMA BlockWritten ==
  ASSUME Inv, call.stage = "rw", Fits(call), NEW i \in Inos, i = fp.ino, Mapped # 0,
         NEW n \in Nat, On + n <= BSIZE, NEW byte,
         inode'[i].addr = inode[i].addr,
         data' = [data EXCEPT ![Mapped] =
                    [k \in 0 .. BSIZE - 1 |-> IF k >= On /\ k < On + n THEN byte ELSE @[k]]]
  PROVE  /\ \A j \in Inos : j # i => \A b \in BlocksOf(inode[j]) : data'[b] = data[b]
         /\ \A x \in Nat : ByteAt(inode[i], x)' =
              IF call.offset <= x /\ x < call.offset + n THEN byte ELSE ByteAt(inode[i], x)
<1>1. ~TooBig(call.offset) /\ call.offset \in Nat
  BY InCall DEF Mapped
<1>2. PICK p \in Bns : p = call.offset \div BSIZE
  BY <1>1, Reached
<1>3. PICK m \in Blocks : m = Mapped /\ m # 0
  BY AtBlock
<1>4. m = BlockOf(i, call.offset) /\ m = inode[i].addr[p]
  BY <1>1, <1>2, <1>3, Reached DEF BlockOf
<1>5. m \in BlocksOf(inode[i])
  BY <1>1, <1>3, <1>4, BlockTyped
<1>6. data \in [Blocks -> Contents]
  BY DEF Inv, Typed
<1>7. /\ data'[m] = [k \in 0 .. BSIZE - 1 |-> IF k >= On /\ k < On + n THEN byte
                                              ELSE data[m][k]]
      /\ \A c \in Blocks : c # m => data'[c] = data[c]
  BY <1>3, <1>6
<1>8. ASSUME NEW j \in Inos, j # i, NEW b \in BlocksOf(inode[j]) PROVE data'[b] = data[b]
  BY <1>5, <1>7, <1>8, OthersBlocks
<1>9. ASSUME NEW x \in Nat
      PROVE  ByteAt(inode[i], x)' =
               IF call.offset <= x /\ x < call.offset + n THEN byte ELSE ByteAt(inode[i], x)
  <2>1. BlockOf(i, x)' = BlockOf(i, x)
    BY DEF BlockOf
  <2>2. call.offset <= x /\ x < call.offset + n
          <=> x \div BSIZE = p /\ x % BSIZE >= On /\ x % BSIZE < On + n
    <3>1. (call.offset % BSIZE) + n <= BSIZE
      BY DEF On
    <3> QED BY <3>1, <1>1, <1>2, Within DEF On
  <2>3. BlockOf(i, x) = m <=> x \div BSIZE = p
    <3>1. BlockOf(i, x) = m => x \div BSIZE = p
      BY <1>3, <1>4, BlockTyped
    <3>2. x \div BSIZE = p => BlockOf(i, x) = m
      BY <1>4 DEF BlockOf
    <3> QED BY <3>1, <3>2
  <2>4. CASE BlockOf(i, x) = m
    <3>1. x % BSIZE \in 0 .. BSIZE - 1
      BY Sizes, Divided
    <3>2. ByteAt(inode[i], x)' = data'[m][x % BSIZE] /\ ByteAt(inode[i], x) = data[m][x % BSIZE]
      BY <2>1, <2>4, <1>3, ByteIs, ByteIsNext
    <3>3. data'[m][x % BSIZE] = IF x % BSIZE >= On /\ x % BSIZE < On + n THEN byte
                                ELSE data[m][x % BSIZE]
      BY <3>1, <1>7
    <3> QED BY <3>2, <3>3, <2>2, <2>3, <2>4
  <2>5. CASE BlockOf(i, x) # m
    <3>1. BlockOf(i, x) # 0 => data'[BlockOf(i, x)] = data[BlockOf(i, x)]
      BY <2>5, <1>7, BlockTyped
    <3>2. PICK o : o = BlockOf(i, x) /\ BlockOf(i, x)' = o
      BY <2>1
    <3>3. ByteAt(inode[i], x) = IF o = 0 THEN 0 ELSE data[o][x % BSIZE]
      BY <3>2, ByteIs
    <3>4. ByteAt(inode[i], x)' = IF o = 0 THEN 0 ELSE data'[o][x % BSIZE]
      BY <3>2, ByteIsNext
    <3>5. ByteAt(inode[i], x)' = ByteAt(inode[i], x)
      BY <3>1, <3>2, <3>3, <3>4
    <3> QED BY <3>5, <2>2, <2>3, <2>5
  <2> QED BY <2>4, <2>5
<1> QED BY <1>8, <1>9

(* A write keeps the size V6 can hold. *)
LEMMA WithinRange ==
  ASSUME Inv, call.stage = "rw", Fits(call), ~TooBig(call.offset), kernel = "v6",
         NEW n \in Nat, n <= call.count
  PROVE  call.offset + n < SizeRange
<1>1. fp.ino \in Inos /\ call.offset \in Nat /\ call.count \in Nat
  BY InCall
<1>2. call.at + Asked(call) < SizeRange
  BY <1>1, Reached
<1>3. SizeRange \in Nat
  BY Sizes, BnsReach DEF SizeRange
<1>4. call.offset + n <= call.at + Asked(call)
  BY <1>1, Moving
<1> QED BY <1>1, <1>2, <1>3, <1>4, Moving

LEMMA SizedInode ==
  ASSUME Inv, NEW i \in Inos, NEW s \in Nat, inode' = [inode EXCEPT ![i].size = s]
  PROVE  /\ inode'[i].size = s /\ inode'[i].addr = inode[i].addr
         /\ inode'[i].nlink = inode[i].nlink /\ inode'[i].used = inode[i].used
         /\ \A j \in Inos : j # i => inode'[j] = inode[j]
<1>1. inode \in [Inos -> Inodes] /\ inode[i] \in Inodes
  BY DEF Inv, Typed
<1>2. PICK r \in Inodes : r = [inode[i] EXCEPT !.size = s]
  BY <1>1, SizeSet
<1>3. r.size = s /\ r.addr = inode[i].addr /\ r.nlink = inode[i].nlink /\ r.used = inode[i].used
  BY <1>1, <1>2, SizeSet
<1>4. inode' = [inode EXCEPT ![i] = r]
  BY <1>2
<1> QED BY <1>1, <1>3, <1>4



LEMMA WriteBlockShows ==
  ASSUME Inv, Inv', Told, WriteBlock
  PROVE  Told' /\ UNCHANGED FSvars
<1>1. /\ call.stage = "rw" /\ call.op = "write" /\ Mapped # 0 /\ Writing
      /\ UNCHANGED <<kernel, name, avail, ofile>> /\ call' = Moved(BlockRest)
  BY DEF WriteBlock, Writing
<1>2. PICK i \in Inos : i = fp.ino /\ ip = inode[i]
  BY <1>1, InCall DEF ip
<1>3. Fits(call) /\ WroteSoFar /\ call \in Calls /\ call.offset \in Nat /\ call.count \in Nat
      /\ ip.size \in Nat
  BY <1>1, <1>2, InCall DEF Told, Doing
<1>4. PICK n \in Nat : n = BlockRest /\ n > 0 /\ n <= BSIZE /\ n <= call.count
                       /\ On + n <= BSIZE
  BY <1>1, InCall, RestMoves
<1>5. /\ call'.stage = "rw" /\ call'.got = call.got /\ SameCall(call, call')
      /\ call'.offset = call.offset + n /\ call'.count = call.count - n
      /\ call'.left = call.left /\ call'.f_offset = call.f_offset
  BY <1>1, <1>3, <1>4, MovedFields
<1>6. PICK off \in Nat : off = call.offset + n
  BY <1>3
<1>7. ~TooBig(call.offset)
  BY <1>1 DEF Mapped
<1>8. kernel = "v6" => off < SizeRange
  BY <1>1, <1>3, <1>4, <1>6, <1>7, WithinRange
<1>9. PICK s \in Nat : s = SizeUpto(off) /\ s = IF off <= ip.size THEN ip.size ELSE off
  BY <1>3, <1>8, SizeGrows
<1>10. inode' = [inode EXCEPT ![i].size = s]
  BY <1>2, <1>4, <1>6, <1>9 DEF WriteBlock
<1>11. /\ inode'[i].size = s /\ inode'[i].addr = inode[i].addr
       /\ inode'[i].nlink = inode[i].nlink /\ inode'[i].used = inode[i].used
       /\ \A j \in Inos : j # i => inode'[j] = inode[j]
  BY <1>10, SizedInode
<1>12. data' = [data EXCEPT ![Mapped] =
                  [k \in 0 .. BSIZE - 1 |-> IF k >= On /\ k < On + n THEN call.byte ELSE @[k]]]
  BY <1>4 DEF WriteBlock
<1>13. /\ \A j \in Inos : j # i => \A b \in BlocksOf(inode[j]) : data'[b] = data[b]
       /\ \A x \in Nat : ByteAt(inode[i], x)' =
            IF call.offset <= x /\ x < call.offset + n THEN call.byte
            ELSE ByteAt(inode[i], x)
  <2>1. PICK y : y = call.byte
    OBVIOUS
  <2>2. data' = [data EXCEPT ![Mapped] =
                   [k \in 0 .. BSIZE - 1 |-> IF k >= On /\ k < On + n THEN y ELSE @[k]]]
    BY <2>1, <1>12
  <2>3. /\ call.stage = "rw" /\ Fits(call) /\ i = fp.ino /\ Mapped # 0 /\ On + n <= BSIZE
        /\ inode'[i].addr = inode[i].addr
    BY <1>1, <1>2, <1>3, <1>4, <1>11
  <2>4. /\ \A j \in Inos : j # i => \A b \in BlocksOf(inode[j]) : data'[b] = data[b]
        /\ \A x \in Nat : ByteAt(inode[i], x)' =
             IF call.offset <= x /\ x < call.offset + n THEN y ELSE ByteAt(inode[i], x)
    BY <2>2, <2>3, BlockWritten
  <2> QED BY <2>1, <2>4
<1>14. Touches(i)
  BY <1>1, <1>11, <1>13 DEF Touches
<1>15. UNCHANGED FSvars
  BY <1>1, <1>2, <1>5, <1>14, MidShown
<1>16. Rests'
  <2>1. kernel = "v6" => inode'[i].size < SizeRange
    <3>1. kernel = "v6" => inode[i].size < SizeRange
      BY DEF Told, Rests, Sized
    <3> QED BY <3>1, <1>2, <1>8, <1>9, <1>11
  <2>2. call'.op = "write" /\ call'.fd = call.fd
    BY <1>1, <1>5 DEF SameCall
  <2> QED BY <2>1, <2>2, <1>1, <1>2, <1>5, <1>14, RestsTouched DEF Told
<1>17. Fits(call)'
  <2>1. Asked(call') = Asked(call)
    BY <1>5 DEF Asked, SameCall
  <2>2. (call'.offset - call'.f_offset) + call'.count
        = (call.offset - call.f_offset) + call.count
    <3>1. call.f_offset \in Nat
      BY <1>1, <1>3, Moving
    <3>2. ((call.offset + n) - call.f_offset) + (call.count - n)
          = (call.offset - call.f_offset) + call.count
      BY <3>1, <1>3, <1>4
    <3> QED BY <3>2, <1>5
  <2>3. (call.offset - call.f_offset) + call.count > 0 /\ call.at <= call.f_offset
    BY <1>3 DEF Fits
  <2>4. kernel = "v6" => call.at < SizeRange
    BY <1>1, <1>2, <1>3, <1>7, Reached
  <2> QED BY <2>1, <2>2, <2>3, <2>4, <1>1, <1>3, <1>5, FitsStep
<1>18. Holds(i, Wrote(call))'
  <2>1. /\ call.at \in Nat /\ call.at <= call.offset /\ call.offset - call.at \in Nat
        /\ call.before \in Seq(Nat)
    BY <1>1, <1>3, Moving DEF Calls
  <2>2. PICK w \in Seq(Nat) : w = Wrote(call)
    BY <2>1, <1>3, WroteDoes
  <2>3. /\ Len(w) = IF call.offset - call.at > 0 /\ Len(call.before) < call.offset
                    THEN call.offset ELSE Len(call.before)
        /\ \A x \in Nat : Content(w, x) = IF call.at <= x /\ x < call.offset THEN call.byte
                                          ELSE Content(call.before, x)
    BY <2>1, <2>2, <1>3, WroteDoes
  <2>4. PICK c \in Calls : c = call'
    BY DEF Inv, Typed
  <2>5. c.offset = off /\ c.at = call.at /\ c.before = call.before /\ c.byte = call.byte
    BY <2>4, <1>5, <1>6 DEF SameCall
  <2>6. off - call.at \in Nat /\ off - call.at > 0 /\ off - call.at = (call.offset - call.at) + n
    <3>1. PICK a \in Nat, o \in Nat : a = call.at /\ o = call.offset /\ a <= o
      BY <2>1, <1>3
    <3>2. off = o + n /\ n > 0
      BY <3>1, <1>4, <1>6
    <3>3. PICK d \in Int : d = o - a
      OBVIOUS
    <3>4. d >= 0
      BY <3>1, <3>3
    <3>5. off - a = d + n
      BY <3>2, <3>3
    <3>6. d + n \in Nat /\ d + n > 0
      BY <3>2, <3>4
    <3> QED BY <3>1, <3>3, <3>5, <3>6
  <2>7. PICK v \in Seq(Nat) : v = Wrote(c)
    BY <2>5, <2>6, WroteDoes
  <2>8. /\ Len(v) = IF Len(call.before) < off THEN off ELSE Len(call.before)
        /\ \A x \in Nat : Content(v, x) = IF call.at <= x /\ x < off THEN call.byte
                                          ELSE Content(call.before, x)
    BY <2>5, <2>6, <2>7, WroteDoes
  <2>9. inode'[i].size = Len(v)
    <3>1. ip.size = Len(w)
      BY <2>2, <1>3 DEF WroteSoFar
    <3>2. PICK l \in Nat : l = Len(call.before)
      BY <2>1
    <3>3. ip.size = IF call.offset - call.at > 0 /\ l < call.offset THEN call.offset ELSE l
      BY <3>1, <3>2, <2>3
    <3>4. (IF call.offset + n <= ip.size THEN ip.size ELSE call.offset + n)
          = IF l < call.offset + n THEN call.offset + n ELSE l
      BY <3>3, <2>1, <1>3, <1>4, SizeMoved
    <3> QED BY <3>2, <3>4, <2>8, <1>6, <1>9, <1>11
  <2>10. ASSUME NEW x \in Nat PROVE ByteAt(inode[i], x)' = Content(v, x)
    <3>1. CASE call.offset <= x /\ x < call.offset + n
      <4>1. call.at <= x /\ x < off
        BY <3>1, <2>1, <1>3, <1>6
      <4>2. ByteAt(inode[i], x)' = call.byte
        BY <3>1, <1>13
      <4> QED BY <4>1, <4>2, <2>8
    <3>2. CASE ~(call.offset <= x /\ x < call.offset + n)
      <4>1. ByteAt(inode[i], x)' = ByteAt(inode[i], x)
        BY <3>2, <1>13
      <4>2. ~Pending(x)
        BY <3>2, <1>4 DEF Pending
      <4>3. ByteAt(inode[i], x) = Content(w, x)
        BY <4>2, <2>2, <1>2, <1>3 DEF WroteSoFar
      <4>4. (call.at <= x /\ x < call.offset) <=> (call.at <= x /\ x < off)
        BY <3>2, <2>1, <1>3, <1>6
      <4> QED BY <4>1, <4>3, <4>4, <2>3, <2>8
    <3> QED BY <3>1, <3>2
  <2>11. Wrote(call)' = v
    BY <2>4, <2>7 DEF Wrote
  <2> QED BY <2>9, <2>10, <2>11 DEF Holds, Content
<1>19. Doing' /\ Answers'
  BY <1>1, <1>2, <1>5, <1>14, <1>17, <1>18, HoldsDoing
<1> QED BY <1>15, <1>16, <1>19 DEF Told

LEMMA WriteEnded ==
  ASSUME Inv, Inv', Told, call.stage = "rw", call.op = "write", call'.stage = "done",
         SameCall(call, call'), NEW i \in Inos, i = fp.ino, Touches(i),
         kernel = "v6" => inode'[i].size < SizeRange, NEW t \in Seq(Nat), Holds(i, t)'
  PROVE  /\ Told' /\ UNCHANGED <<name, ofile>> /\ Answered = FS!None
         /\ Outside[i] = call.before /\ Outside' = [Outside EXCEPT ![i] = t]
         /\ Answered' = [ok |-> call'.ok, of |-> "write",
                         got |-> IF call'.ok THEN call'.got ELSE <<>>]
<1>1. Text(i)' = t
  BY HoldsIsTextNext
<1>2. Ends(i)'
  <2>1. Len(t) \in Nat /\ \A x \in Nat : x >= Len(t) => Content(t, x)' = 0
    BY DEF Content
  <2> QED BY <2>1 DEF Holds, Ends
<1>3. Rests'
  BY <1>2, RestsTouched DEF Told
<1>4. Doing' /\ Answers'
  BY DEF Doing, Answers, SameCall
<1> QED BY <1>1, <1>3, <1>4, EndShown DEF Told, Touches

(* A write ends early: k bytes are there, and perhaps m zeros. *)
LEMMA WriteShort ==
  ASSUME Inv, call.stage = "rw", call.op = "write", Fits(call), Answered = FS!None,
         Answered' = [ok |-> FALSE, of |-> "write", got |-> <<>>],
         NEW i \in Inos, i = fp.ino, NEW m \in Nat, m <= call.count,
         UNCHANGED <<name, ofile>>, Outside[i] = call.before, NEW t,
         Outside' = [Outside EXCEPT ![i] = t],
         t = IF call.offset - call.at + m = 0 THEN call.before
             ELSE FS!Upto(Wrote(call), call.offset + m)
  PROVE  FS!Write
<1>1. call.offset \in Nat /\ call.count \in Nat /\ call.fd \in FDs /\ ofile[call.fd] # Closed
  BY InCall DEF Runs
<1>2. PICK n \in 1 .. MaxCount : n = Asked(call)
  BY DEF Fits
<1>3. PICK at \in 0 .. MaxSeek : at = call.at
  BY Moving, Sizes DEF Fits
<1>4. PICK k \in Nat : k = call.offset - call.at /\ k + m <= n
  BY <1>1, <1>2, Moving
<1>5. k \in 0 .. n /\ m \in 0 .. n - k
  <2>1. n \in Nat
    BY <1>2, Sizes
  <2> QED BY <2>1, <1>4
<1>6. call.offset + m = at + k + m
  BY <1>1, <1>3, <1>4
<1>7. t = IF k + m = 0 THEN Outside[i]
          ELSE FS!Upto(FS!Written(Outside[i], at, k, call.byte), at + k + m)
  <2>1. Wrote(call) = FS!Written(Outside[i], at, k, call.byte)
    BY <1>3, <1>4 DEF Wrote
  <2> QED BY <2>1, <1>4, <1>6
<1>8. FS!Answer("write", FALSE, <<>>)
  BY DEF FS!Answer
<1>9. Outside' = [Outside EXCEPT ![i] =
                    IF k + m = 0 THEN @
                    ELSE FS!Upto(FS!Written(@, at, k, call.byte), at + k + m)]
  BY <1>7
<1>10. i = ofile[call.fd].ino /\ ofile[call.fd] # FS!Closed /\ "w" \in ofile[call.fd].flag
  BY <1>1 DEF fp, FS!Closed, Closed, Fits, Needs
<1>11. FS!Pwrite(call.fd, at, n, call.byte)
  <2>1. \E a \in 0 .. n : \E z \in 0 .. n - a :
          Outside' = [Outside EXCEPT ![ofile[call.fd].ino] =
                        IF a + z = 0 THEN @
                        ELSE FS!Upto(FS!Written(@, at, a, call.byte), at + a + z)]
    <3>1. Outside' = [Outside EXCEPT ![ofile[call.fd].ino] =
                        IF k + m = 0 THEN @
                        ELSE FS!Upto(FS!Written(@, at, k, call.byte), at + k + m)]
      BY <1>9, <1>10
    <3> k \in 0 .. n /\ m \in 0 .. n - k
      BY <1>5
    <3> WITNESS k \in 0 .. n
    <3> WITNESS m \in 0 .. n - k
    <3> QED BY <3>1
  <2> QED BY <2>1, <1>8, <1>10, Zenon DEF FS!Pwrite
<1>12. at \in 0 .. MaxSeek + 1 /\ call.byte \in Bytes
  BY <1>3, Sizes DEF Fits
<1>13. Answered'.of = "write"
  OBVIOUS
<1> QED BY <1>1, <1>11, <1>12, <1>13 DEF FS!Write

LEMMA WriteStopsShows ==
  ASSUME Inv, Inv', Told, WriteStops
  PROVE  Told' /\ FS!Write
<1>1. /\ call.stage = "rw" /\ call.op = "write" /\ Mapped = 0 /\ call' = Finish(call, FALSE)
      /\ UNCHANGED <<kernel, name, inode, data, avail, ofile>>
  BY DEF WriteStops, Writing
<1>2. PICK i \in Inos : i = fp.ino /\ ip = inode[i]
  BY <1>1, InCall DEF ip
<1>3. Fits(call) /\ WroteSoFar /\ call \in Calls /\ call.offset \in Nat /\ call.count \in Nat
  BY <1>1, InCall DEF Told, Doing
<1>4. call'.stage = "done" /\ call'.ok = FALSE /\ SameCall(call, call')
  BY <1>1, <1>3, FinishFields
<1>5. /\ call.at \in Nat /\ call.at <= call.offset /\ call.offset - call.at \in Nat
      /\ call.before \in Seq(Nat)
  BY <1>1, <1>3, Moving DEF Calls
<1>6. PICK w \in Seq(Nat) : w = Wrote(call)
  BY <1>3, <1>5, WroteDoes
<1>7. Holds(i, w)
  BY <1>1, <1>2, <1>3, <1>6, NotPending
<1>8. PICK t : t = IF call.offset - call.at + 0 = 0 THEN call.before
                   ELSE FS!Upto(Wrote(call), call.offset + 0)
  OBVIOUS
<1>9. t = w
  <2>1. CASE call.offset - call.at = 0
    BY <2>1, <1>6, <1>8 DEF Wrote, FS!Written
  <2>2. CASE call.offset - call.at # 0
    <3>1. PICK u \in Seq(Nat) : u = FS!Upto(w, call.offset)
      BY <1>3, UptoDoes
    <3>2. /\ Len(u) = IF Len(w) < call.offset THEN call.offset ELSE Len(w)
          /\ \A x \in Nat : Content(u, x) = Content(w, x)
      BY <3>1, <1>3, UptoDoes
    <3>3. Len(w) >= call.offset
      <4>1. Len(w) = IF call.offset - call.at > 0 /\ Len(call.before) < call.offset
                     THEN call.offset ELSE Len(call.before)
        BY <1>3, <1>5, <1>6, WroteDoes
      <4>2. call.offset - call.at > 0 /\ Len(call.before) \in Nat
        BY <2>2, <1>5
      <4> QED BY <4>1, <4>2, <1>3
    <3>4. u = w
      BY <3>2, <3>3, <1>3, SameContent
    <3>5. t = u
      BY <3>1, <2>2, <1>3, <1>5, <1>6, <1>8
    <3> QED BY <3>4, <3>5
  <2> QED BY <2>1, <2>2
<1>10. Touches(i) /\ Holds(i, w)'
  <2>1. Touches(i) /\ \A j \in Inos : \A v : Holds(j, v) => Holds(j, v)'
    BY <1>1, QuietTouch
  <2> QED BY <2>1, <1>7
<1>11. kernel = "v6" => inode'[i].size < SizeRange
  BY <1>1 DEF Told, Rests, Sized
<1>12. /\ Told' /\ UNCHANGED <<name, ofile>> /\ Answered = FS!None
       /\ Outside[i] = call.before /\ Outside' = [Outside EXCEPT ![i] = w]
       /\ Answered' = [ok |-> call'.ok, of |-> "write",
                       got |-> IF call'.ok THEN call'.got ELSE <<>>]
  BY <1>1, <1>2, <1>4, <1>10, <1>11, WriteEnded
<1>13. Answered' = [ok |-> FALSE, of |-> "write", got |-> <<>>]
  BY <1>4, <1>12
<1>14. 0 \in Nat /\ 0 <= call.count
  BY <1>3
<1> QED BY <1>1, <1>2, <1>3, <1>8, <1>9, <1>12, <1>13, <1>14, WriteShort

LEMMA WriteMissesShows ==
  ASSUME Inv, Inv', Told, WriteMisses
  PROVE  Told' /\ FS!Write
<1>1. /\ call.stage = "rw" /\ call.op = "write" /\ Writing /\ call' = Finish(call, FALSE)
      /\ UNCHANGED <<kernel, name, data, avail, ofile>>
      /\ \/ Mapped # 0 /\ BlockRest < BSIZE
         \/ TooBig(call.offset) /\ kernel # "v6"
  BY DEF WriteMisses, Writing
<1>2. PICK i \in Inos : i = fp.ino /\ ip = inode[i]
  BY <1>1, InCall DEF ip
<1>3. /\ Fits(call) /\ WroteSoFar /\ call \in Calls /\ call.offset \in Nat /\ call.count \in Nat
      /\ ip.size \in Nat
  BY <1>1, InCall DEF Told, Doing
<1>4. call'.stage = "done" /\ call'.ok = FALSE /\ SameCall(call, call')
  BY <1>1, <1>3, FinishFields
<1>5. /\ call.at \in Nat /\ call.at <= call.offset /\ call.offset - call.at \in Nat
      /\ call.before \in Seq(Nat)
  BY <1>1, <1>3, Moving DEF Calls
<1>6. PICK m \in Nat : m = BlockRest /\ m > 0 /\ m <= call.count
  BY <1>1, InCall, RestMoves
<1>7. PICK w \in Seq(Nat) : w = Wrote(call)
  BY <1>3, <1>5, WroteDoes
<1>8. Holds(i, w)
  <2>1. Mapped = 0 \/ BlockRest < BSIZE
    BY <1>1 DEF Mapped
  <2> QED BY <2>1, <1>2, <1>3, <1>7, NotPending
<1>9. PICK off \in Nat : off = call.offset + m
  BY <1>3
<1>10. kernel = "v6" => off < SizeRange
  <2>1. kernel = "v6" => ~TooBig(call.offset)
    BY <1>1 DEF Mapped
  <2> QED BY <2>1, <1>1, <1>3, <1>6, <1>9, WithinRange
<1>11. PICK s \in Nat : s = SizeUpto(off) /\ s = IF off <= ip.size THEN ip.size ELSE off
  BY <1>3, <1>10, SizeGrows
<1>12. inode' = [inode EXCEPT ![i].size = s]
  BY <1>2, <1>6, <1>9, <1>11 DEF WriteMisses
<1>13. /\ inode'[i].size = s /\ inode'[i].addr = inode[i].addr
       /\ inode'[i].nlink = inode[i].nlink /\ inode'[i].used = inode[i].used
       /\ \A j \in Inos : j # i => inode'[j] = inode[j]
  BY <1>12, SizedInode
<1>14. Touches(i)
  BY <1>1, <1>13 DEF Touches
<1>15. PICK t \in Seq(Nat) : t = FS!Upto(w, off)
  BY UptoDoes
<1>16. /\ Len(t) = IF Len(w) < off THEN off ELSE Len(w)
       /\ \A x \in Nat : Content(t, x) = Content(w, x)
  BY <1>15, UptoDoes
<1>17. Holds(i, t)'
  <2>1. inode'[i].size = Len(t)
    <3>1. ip.size = Len(w) /\ Len(w) \in Nat
      BY <1>2, <1>8 DEF Holds
    <3> QED BY <3>1, <1>11, <1>13, <1>16
  <2>2. \A x \in Nat : ByteAt(inode[i], x)' = ByteAt(inode[i], x)
    BY <1>1, <1>13, BytesKept
  <2>3. \A x \in Nat : ByteAt(inode[i], x)' = Content(t, x)
    BY <2>2, <1>8, <1>16 DEF Holds
  <2> QED BY <2>1, <2>3 DEF Holds, Content
<1>18. kernel = "v6" => inode'[i].size < SizeRange
  <2>1. kernel = "v6" => ip.size < SizeRange
    BY <1>2 DEF Told, Rests, Sized
  <2> QED BY <2>1, <1>10, <1>11, <1>13
<1>19. /\ Told' /\ UNCHANGED <<name, ofile>> /\ Answered = FS!None
       /\ Outside[i] = call.before /\ Outside' = [Outside EXCEPT ![i] = t]
       /\ Answered' = [ok |-> call'.ok, of |-> "write",
                       got |-> IF call'.ok THEN call'.got ELSE <<>>]
  BY <1>1, <1>2, <1>4, <1>14, <1>17, <1>18, WriteEnded
<1>20. Answered' = [ok |-> FALSE, of |-> "write", got |-> <<>>]
  BY <1>4, <1>19
<1>21. t = IF call.offset - call.at + m = 0 THEN call.before
           ELSE FS!Upto(Wrote(call), call.offset + m)
  <2>1. call.offset - call.at + m # 0
    BY <1>3, <1>5, <1>6
  <2> QED BY <2>1, <1>7, <1>9, <1>15
<1> QED BY <1>1, <1>2, <1>3, <1>6, <1>19, <1>20, <1>21, WriteShort

(* The write is all there, or goes on with its next rdwr. *)
LEMMA WriteEndShows ==
  ASSUME Inv, Inv', Told, WriteEnd
  PROVE  Told' /\ (FS!Write \/ UNCHANGED FSvars)
<1>1. /\ call.stage = "rw" /\ call.op = "write" /\ call.count = 0 /\ call' = Advance(call)
      /\ UNCHANGED <<kernel, name, inode, data, avail, ofile>>
  BY DEF WriteEnd
<1>2. PICK i \in Inos : i = fp.ino /\ ip = inode[i]
  BY <1>1, InCall DEF ip
<1>3. /\ Fits(call) /\ WroteSoFar /\ call \in Calls /\ call.offset \in Nat
      /\ call.fd \in FDs /\ ofile[call.fd] # Closed
  BY <1>1, InCall DEF Told, Doing, Runs
<1>4. /\ call.at \in Nat /\ call.at <= call.offset /\ call.offset - call.at \in Nat
      /\ call.before \in Seq(Nat)
  BY <1>1, <1>3, Moving DEF Calls
<1>5. PICK w \in Seq(Nat) : w = Wrote(call)
  BY <1>3, <1>4, WroteDoes
<1>6. Holds(i, w)
  BY <1>1, <1>2, <1>3, <1>5, NotPending
<1>7. Touches(i) /\ Holds(i, w)'
  <2>1. Touches(i) /\ \A j \in Inos : \A v : Holds(j, v) => Holds(j, v)'
    BY <1>1, QuietTouch
  <2> QED BY <2>1, <1>6
<1>8. kernel = "v6" => inode'[i].size < SizeRange
  BY <1>1 DEF Told, Rests, Sized
<1>9. CASE call.left = call.offset - call.f_offset
  <2>1. call'.stage = "done" /\ call'.ok /\ call'.got = <<>> /\ SameCall(call, call')
    BY <1>1, <1>3, <1>9, AdvanceFields DEF Fits
  <2>2. /\ Told' /\ UNCHANGED <<name, ofile>> /\ Answered = FS!None
        /\ Outside[i] = call.before /\ Outside' = [Outside EXCEPT ![i] = w]
        /\ Answered' = [ok |-> call'.ok, of |-> "write",
                        got |-> IF call'.ok THEN call'.got ELSE <<>>]
    BY <2>1, <1>1, <1>2, <1>7, <1>8, WriteEnded
  <2>3. call'.ok = TRUE
    <3>1. call'.ok \in BOOLEAN
      BY DEF Inv, Typed, Calls
    <3> QED BY <3>1, <2>1
  <2>4. Answered' = [ok |-> TRUE, of |-> "write", got |-> <<>>]
    BY <2>1, <2>2, <2>3
  <2>5. PICK n \in 1 .. MaxCount : n = Asked(call)
    BY <1>3 DEF Fits
  <2>6. PICK at \in 0 .. MaxSeek : at = call.at
    BY <1>3, <1>4, Sizes DEF Fits
  <2>7. n = call.offset - call.at
    BY <1>1, <1>3, <1>9, <2>5, Moving DEF Asked
  <2>8. w = FS!Written(Outside[i], at, n, call.byte)
    BY <1>5, <2>2, <2>6, <2>7 DEF Wrote
  <2>9. i = ofile[call.fd].ino /\ ofile[call.fd] # FS!Closed /\ "w" \in ofile[call.fd].flag
    BY <1>1, <1>2, <1>3 DEF fp, FS!Closed, Closed, Fits, Needs
  <2>10. FS!Answer("write", TRUE, <<>>)
    BY <2>4 DEF FS!Answer
  <2>11. Outside' = [Outside EXCEPT ![ofile[call.fd].ino] = FS!Written(@, at, n, call.byte)]
    BY <2>2, <2>8, <2>9
  <2>12. FS!Pwrite(call.fd, at, n, call.byte)
    BY <2>9, <2>10, <2>11, Zenon DEF FS!Pwrite
  <2>13. at \in 0 .. MaxSeek + 1 /\ call.byte \in Bytes /\ Answered'.of = "write"
    BY <2>4, <2>6, <1>1, <1>3, Sizes DEF Fits
  <2> QED BY <2>2, <2>12, <2>13, <1>3 DEF FS!Write
<1>10. CASE call.left # call.offset - call.f_offset
  <2>1. /\ call'.stage = "rw" /\ call'.got = call.got /\ SameCall(call, call')
        /\ call'.offset = call.offset /\ call'.f_offset = call.offset
        /\ call'.left = call.left - (call.offset - call.f_offset) /\ call'.count > 0
    BY <1>1, <1>3, <1>10, AdvanceFields
  <2>2. UNCHANGED FSvars
    BY <2>1, <1>1, <1>2, <1>7, MidShown
  <2>3. Rests'
    <3>1. call'.op = "write" /\ call'.fd = call.fd
      BY <2>1, <1>1 DEF SameCall
    <3> QED BY <3>1, <2>1, <1>1, <1>2, <1>7, <1>8, RestsTouched DEF Told
  <2>4. Fits(call)'
    <3>1. Asked(call') = Asked(call)
      BY <2>1, <1>1, <1>3, Moving DEF Asked, SameCall
    <3>2. call.at <= call'.f_offset /\ (call'.offset - call'.f_offset) + call'.count > 0
      <4>1. call'.count \in Nat
        BY DEF Inv, Typed, Calls
      <4>2. call.offset - call.offset = 0
        BY <1>3
      <4>3. call'.offset - call'.f_offset = 0 /\ call.at <= call'.f_offset
        BY <4>2, <2>1, <1>4
      <4>4. call'.count > 0
        BY <2>1
      <4> QED BY <4>1, <4>3, <4>4
    <3> QED BY <3>1, <3>2, <2>1, <1>1, <1>3, FitsStep
  <2>5. Wrote(call') = w
    BY <2>1, <1>5 DEF Wrote, SameCall
  <2>6. Wrote(call)' = w
    BY <2>5 DEF Wrote
  <2>7. Holds(i, Wrote(call))'
    BY <2>6, <1>7 DEF Holds, Content
  <2>8. Doing' /\ Answers'
    BY <2>1, <2>4, <2>7, <1>1, <1>2, <1>7, HoldsDoing
  <2> QED BY <2>2, <2>3, <2>8 DEF Told
<1> QED BY <1>9, <1>10

-----------------------------------------------------------------------------
(* Every step is one of the store, or none.                                *)
LEMMA ToldInit ==
  ASSUME Init
  PROVE  Told /\ FS!Init
<1>1. /\ inode = [i \in Inos |-> FreeInode] /\ call = Idle /\ name = [n \in Names |-> 0]
      /\ ofile = [fd \in FDs |-> Closed]
  BY DEF Init
<1>2. call.stage = "idle"
  BY <1>1 DEF Idle
<1>3. /\ FreeInode.size = 0 /\ FreeInode.nlink = 0 /\ ~FreeInode.used
      /\ FreeInode.addr = NoBlocks
  BY DEF FreeInode
<1>4. \A i \in Inos : inode[i] = FreeInode
  BY <1>1
<1>5. Linked /\ Buried
  BY <1>3, <1>4 DEF Linked, Buried
<1>6. Sized
  <2>1. PICK h \in Nat : h = BnRange \div 2
    BY BnsReach
  <2>2. h > 0
    BY <2>1, Sizes, FileIOAssumption
  <2>3. h * BSIZE \in Nat /\ h * BSIZE > 0
    BY <2>2, Sizes
  <2>4. 0 < SizeRange
    BY <2>1, <2>3 DEF SizeRange
  <2> QED BY <2>4, <1>3, <1>4 DEF Sized
<1>7. ASSUME NEW i \in Inos PROVE Ends(i) /\ Text(i) = <<>>
  <2>1. \A x \in Nat : ByteAt(inode[i], x) = 0
    BY <1>3, <1>4 DEF ByteAt, NoBlocks
  <2>2. Text(i) = <<>>
    BY <1>3, <1>4 DEF Text
  <2> QED BY <2>1, <2>2 DEF Ends
<1>8. Told
  BY <1>2, <1>5, <1>6, <1>7 DEF Told, Rests, Cleared, Doing, Answers
<1>9. Outside = [i \in Inos |-> <<>>] /\ Answered = FS!None
  BY <1>2, <1>7, ShownText DEF Answered, FS!None
<1>10. FS!Closed = Closed
  BY DEF FS!Closed, Closed
<1> QED BY <1>1, <1>8, <1>9, <1>10 DEF FS!Init

LEMMA ToldNext ==
  ASSUME ~Wide, Inv, Inv', Told, [Next]_vars
  PROVE  Told' /\ [FS!Next]_FSvars
<1>1. ASSUME NEW n \in Names, Unlink(n) PROVE Told' /\ [FS!Next]_FSvars
  <2>1. Rests' /\ FS!Unlink(n) /\ call'.stage = "idle"
    BY <1>1, UnlinkShows DEF Told, Unlink, Idle
  <2> QED BY <2>1 DEF Told, Doing, Answers, FS!Next
<1>2. ASSUME NEW n \in Names, Truncate(n) PROVE Told' /\ [FS!Next]_FSvars
  <2>1. Rests' /\ FS!Truncate(n, 0)
    BY <1>2, TruncateShows DEF Told
  <2>2. call'.stage = "idle"
    BY <1>2 DEF Truncate, Idle
  <2>3. 0 \in 0 .. MaxSeek + 1
    BY Sizes
  <2> QED BY <2>1, <2>2, <2>3 DEF Told, Doing, Answers, FS!Next
<1>3. ASSUME NEW n \in Names, NEW i \in Inos, Mknod(n, i) PROVE Told' /\ [FS!Next]_FSvars
  <2>1. Rests' /\ FS!Create(n, i) /\ call'.stage = "idle"
    BY <1>3, MknodShows DEF Told, Mknod, Idle
  <2> QED BY <2>1 DEF Told, Doing, Answers, FS!Next
<1>4. ASSUME NEW n \in Names, NEW len \in 0 .. MaxSeek, TruncateTo(n, len)
      PROVE  Told' /\ [FS!Next]_FSvars
  <2>1. Rests' /\ FS!Truncate(n, len)
    BY <1>4, TruncateToShows DEF Told
  <2>2. call'.stage = "idle"
    BY <1>4 DEF TruncateTo, Idle
  <2>3. len \in 0 .. MaxSeek + 1
    BY Sizes
  <2> QED BY <2>1, <2>2, <2>3 DEF Told, Doing, Answers, FS!Next
<1>5. ASSUME NEW n \in Names, NEW flag \in Flags, NEW granted \in BOOLEAN,
             OpenDescriptorFirst(n, flag, granted)
      PROVE  Told' /\ [FS!Next]_FSvars
  <2>1. /\ Rests' /\ (FS!Open(n, flag, FALSE) \/ UNCHANGED FSvars) /\ call'.stage = "idle"
        /\ flag \in SUBSET {"r", "w"}
    BY <1>5, OpenDescriptorFirstShows, FileIOAssumption DEF Told, OpenDescriptorFirst, Idle
  <2> QED BY <2>1 DEF Told, Doing, Answers, FS!Next
<1>6. ASSUME NEW n \in Names, NEW flag \in Flags, NEW t \in BOOLEAN, NEW granted \in BOOLEAN,
             Open(n, flag, t, granted)
      PROVE  Told' /\ [FS!Next]_FSvars
  <2>1. Rests' /\ (FS!Open(n, flag, t) \/ UNCHANGED FSvars)
    BY <1>6, OpenShows DEF Told
  <2>2. call'.stage = "idle"
    BY <1>6 DEF Open, Idle
  <2>3. flag \in SUBSET {"r", "w"}
    BY FileIOAssumption
  <2> QED BY <2>1, <2>2, <2>3 DEF Told, Doing, Answers, FS!Next
<1>7. ASSUME NEW fd \in FDs, Close(fd) PROVE Told' /\ [FS!Next]_FSvars
  <2>1. Rests' /\ FS!Close(fd) /\ call'.stage = "idle"
    BY <1>7, CloseShows DEF Told, Close, Idle
  <2> QED BY <2>1 DEF Told, Doing, Answers, FS!Next
<1>8. ASSUME NEW fd \in FDs, NEW off \in 0 .. MaxSeek + 1, NEW n \in 1 .. MaxCount,
             \/ Begin("read", fd, off, n, 0)
             \/ \E byte \in Bytes : Begin("write", fd, off, n, byte)
      PROVE  Told' /\ [FS!Next]_FSvars
  <2>1. off \in Nat /\ Bytes \subseteq Nat
    BY Sizes, FileIOAssumption
  <2>2. CASE Begin("read", fd, off, n, 0)
    <3>1. Told' /\ (FS!Read \/ FS!Write \/ UNCHANGED FSvars)
      BY <2>1, <2>2, BeginShows
    <3> QED BY <3>1 DEF FS!Next
  <2>3. ASSUME NEW byte \in Bytes, Begin("write", fd, off, n, byte)
        PROVE  Told' /\ [FS!Next]_FSvars
    <3>1. Told' /\ (FS!Read \/ FS!Write \/ UNCHANGED FSvars)
      BY <2>1, <2>3, BeginShows
    <3> QED BY <3>1 DEF FS!Next
  <2> QED BY <1>8, <2>2, <2>3
<1>9. ASSUME NEW b \in avail, FillHole(b) \/ AllocToWrite(b)
      PROVE  Told' /\ [FS!Next]_FSvars
  BY <1>9, FillHoleShows, AllocToWriteShows
<1>10. CASE UNCHANGED vars
  <2>1. UNCHANGED <<kernel, name, inode, data, avail, ofile, call>>
    BY <1>10 DEF vars
  <2>2. UNCHANGED FSvars
    BY <2>1 DEF FSvars, Outside, Answered, Text, ByteAt, fp
  <2>3. Told'
    BY <2>1 DEF Told, Rests, Linked, Buried, Sized, Cleared, Writes, Ends, Doing, Answers,
                Fits, Reaches, Asked, Holds, Got, WroteSoFar, Wrote, Pending, Writing,
                Mapped, BlockRest, On, ByteAt, fp, ip, TooBig, Bn, Content
  <2> QED BY <2>2, <2>3
<1>11. CASE ReadBlock \/ ReadHole
  BY <1>11, ReadBlockShows, ReadHoleShows
<1>12. CASE ReadError
  BY <1>12, ReadErrorShows DEF FS!Next
<1>13. CASE ReadEnd
  BY <1>13, ReadEndShows DEF FS!Next
<1>14. CASE WriteBlock
  BY <1>14, WriteBlockShows
<1>15. CASE WriteStops
  BY <1>15, WriteStopsShows DEF FS!Next
<1>16. CASE WriteMisses
  BY <1>16, WriteMissesShows DEF FS!Next
<1>17. CASE WriteEnd
  BY <1>17, WriteEndShows DEF FS!Next
<1>18. CASE Return
  BY <1>18, ReturnShows DEF FS!Next
<1> QED BY <1>1, <1>2, <1>3, <1>4, <1>5, <1>6, <1>7, <1>8, <1>9, <1>10, <1>11, <1>12, <1>13,
           <1>14, <1>15, <1>16, <1>17, <1>18
        DEF Next

(* As long as no call is made beyond the reach of the numbers, open files  *)
(* are a FileStore: each open, close, unlink, truncate, read and write of  *)
(* the four kernels, whatever rdwr calls, blocks, holes and errors it      *)
(* takes, happens all at once, when it answers.                            *)
THEOREM FilesAreAStore == ~Wide => (Spec => IsAFileStore)
<1> SUFFICES ASSUME ~Wide PROVE Spec => IsAFileStore
  OBVIOUS
<1>1. Init => Inv /\ Told /\ FS!Init
  BY InvInit, ToldInit
<1>2. Inv /\ Told /\ [Next]_vars => Inv' /\ Told' /\ [FS!Next]_FSvars
  BY InvNext, ToldNext
<1>3. Inv /\ Told /\ [Next]_vars => Inv' /\ Told' /\ [FS!Next]_(FS!vars)
  BY <1>2 DEF FSvars, FS!vars
<1> QED BY <1>1, <1>3, PTL DEF Spec, IsAFileStore, FS!Spec
=============================================================================
