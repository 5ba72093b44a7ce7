-------------------------- MODULE InodeTableProofs ---------------------------
(***************************************************************************)
(* Proofs about the in-core inode table, for every number of slots, inodes *)
(* and links.  The inductive invariant ties three places that hold an      *)
(* inode's fields together: the slot that is in use, the slot that is free *)
(* but still stands for its inode (2.11BSD), and the disk.                 *)
(***************************************************************************)
EXTENDS InodeTable, ListFacts, FiniteSetTheorems

(* The type invariant, by the pieces an action changes. *)
SlotsTyped ==
  /\ kernel \in Kernels
  /\ number \in [Slots -> Inos \union {0}]
  /\ count \in [Slots -> 0 .. MaxRefs + 1]
  /\ used \in [Slots -> BOOLEAN]
  /\ nlink \in [Slots -> 0 .. MaxLinks]
  /\ updated \in [Slots -> BOOLEAN]
  /\ dinode \in [Inos -> Dinodes]

IsList(list) == list \in Seq(Inos \union {0}) /\ Len(list) <= NICINOD

SuperTyped ==
  /\ IsList(s_inode) /\ s_tinode \in Int /\ s_fmod \in BOOLEAN
  /\ s_lasti \in Inos /\ s_nbehind \in 0 .. Behind

RestTyped ==
  /\ IsList(super.s_inode) /\ super.s_tinode \in Int
  /\ calling \in BOOLEAN
  /\ links \in [Inos -> 0 .. MaxLinks]
  /\ answer \in Inos \union {ENOSPC, ENFILE, NONE}
  /\ happened \subseteq MayHappen[kernel]

(* 2.11BSD's free list holds each spare slot once. *)
SpareListed ==
  Caches => /\ ifree \in Seq(Slots) /\ Distinct(ifree)
            /\ \A s \in Slots : OnList(ifree, s) <=> count[s] = 0

(* Whose the slots are, and which of them the disk agrees with. *)
SlotShape ==
  /\ OneSlotPerInode
  /\ \A s \in Slots :
       /\ count[s] > 0 => number[s] # 0
       /\ count[s] = 0 => ~updated[s] /\ (~Caches => number[s] = 0)
       /\ count[s] > MaxRefs => used[s]
       /\ number[s] # 0 /\ ~updated[s] =>
            dinode[number[s]] = [used |-> used[s], nlink |-> nlink[s]]

Inv == SlotsTyped /\ SuperTyped /\ RestTyped /\ SpareListed /\ SlotShape

(* Inode i is in no slot. *)
Nowhere(i) == \A s \in Slots : number[s] # i

(* A file with links has them in its slot, or on the disk. *)
LinksKept ==
  ~StaleIput =>
    /\ \A s \in Slots : count[s] > 0 => used[s]
    /\ \A s \in Slots : number[s] # 0 /\ links[number[s]] > 0
                          => used[s] /\ nlink[s] = links[number[s]]
    /\ \A i \in Inos : Nowhere(i) /\ links[i] > 0
                          => dinode[i] = [used |-> TRUE, nlink |-> links[i]]

(* A file without links is on its way to be freed. *)
UnlinkedGo ==
  happened \subseteq {"read error"} /\ ~StaleIput =>
    /\ \A s \in Slots : number[s] # 0 /\ links[number[s]] = 0
                          => nlink[s] = 0 /\ (count[s] = 0 => ~used[s])
    /\ \A i \in Inos : Nowhere(i) /\ links[i] = 0 => ~dinode[i].used

FreeInodes == {i \in Inos : ~IsTaken(i)}

FreeCounted ==
  BSD /\ happened \subseteq {"read error"} /\ (Caches => happened = {})
    => s_tinode = Cardinality(FreeInodes)

-----------------------------------------------------------------------------
(* Slots and lists.                                                        *)

LEMMA Bounds ==
  /\ NINODE \in Nat \ {0} /\ NICINOD \in Nat \ {0} /\ INOPB \in Nat \ {0} /\ Behind \in Nat
  /\ MaxLinks \in Nat \ {0} /\ MaxRefs \in Nat \ {0}
BY InodeTableAssumption

LEMMA Kinds ==
  /\ Inos \subseteq Nat \ {0} /\ 1 \in Inos /\ 0 \notin Inos
  /\ IsFiniteSet(Inos) /\ Cardinality(Inos) \in Nat
<1>1. IsFiniteSet(Inos) /\ Inos # {} /\ Inos = 1 .. Cardinality(Inos)
  BY InodeTableAssumption
<1>2. Cardinality(Inos) \in Nat
  BY <1>1, FS_CardinalityType
<1> QED BY <1>1, <1>2

LEMMA InItsSlot ==
  ASSUME NEW i, InCore(i) PROVE SlotOf(i) \in Slots /\ number[SlotOf(i)] = i
BY DEF InCore, SlotOf

LEMMA HeldIs ==
  ASSUME Inv, NEW s \in Slots, count[s] > 0 PROVE number[s] \in Inos /\ number[s] # 0
<1>1. number[s] # 0
  BY DEF Inv, SlotShape
<1>2. number[s] \in Inos \union {0}
  BY DEF Inv, SlotsTyped
<1> QED BY <1>1, <1>2

LEMMA SlotOfIt ==
  ASSUME OneSlotPerInode, NEW s \in Slots, number[s] # 0
  PROVE  InCore(number[s]) /\ SlotOf(number[s]) = s
BY DEF OneSlotPerInode, InCore, SlotOf

LEMMA OldestIsSpare ==
  ASSUME SpareListed, Spare # {} PROVE Oldest \in Slots /\ count[Oldest] = 0
<1>1. CASE Caches
  <2>1. PICK s \in Slots : OnList(ifree, s)
    BY <1>1 DEF SpareListed, Spare
  <2>2. ifree \in Seq(Slots) /\ Len(ifree) \in Nat /\ 1 \in 1 .. Len(ifree)
    BY <2>1, <1>1, LenProperties DEF SpareListed, OnList
  <2>3. Oldest = ifree[1] /\ ifree[1] \in Slots /\ OnList(ifree, ifree[1])
    BY <2>2, <1>1 DEF Oldest, OnList
  <2> QED BY <2>3, <1>1 DEF SpareListed
<1>2. CASE ~Caches
  <2>1. Spare \subseteq Nat
    BY Bounds DEF Spare, Slots
  <2>2. PICK m \in Spare : \A k \in Spare : m <= k
    BY <2>1, LeastNatural
  <2>3. Min(Spare) \in Spare
    BY <2>2 DEF Min
  <2> QED BY <2>3, <1>2 DEF Oldest, Spare
<1> QED BY <1>1, <1>2

LEMMA Grabs ==
  ASSUME SpareListed, Caches, NEW s \in Slots
  PROVE  /\ Grabbed(s) \in Seq(Slots) /\ Distinct(Grabbed(s))
         /\ \A t \in Slots : OnList(Grabbed(s), t) <=> count[t] = 0 /\ t # s
BY Removes DEF SpareListed, Grabbed

-----------------------------------------------------------------------------
(* The ways of a slot: it is released, or it is used.                      *)

LEMMA IfreeList ==
  ASSUME NEW list, IsList(list), NEW i \in Inos \union {0} PROVE IsList(Ifree(list, i))
BY AppendProperties, LenProperties, Bounds DEF IsList, Ifree

LEMMA Releases ==
  ASSUME SlotsTyped, SuperTyped, SpareListed, SlotShape,
         NEW s \in Slots, NEW i \in Inos \union {0}, NEW u \in BOOLEAN,
         NEW n \in 0 .. MaxLinks, NEW changed \in BOOLEAN, NEW list, IsList(list),
         NEW tinode \in Int, i # 0 => \A t \in Slots \ {s} : number[t] # i,
         Caches /\ i # 0 /\ ~changed => dinode[i] = [used |-> u, nlink |-> n],
         LastIput(s, i, u, n, changed, list, tinode), kernel' = kernel
  PROVE  SlotsTyped' /\ SuperTyped' /\ SpareListed' /\ SlotShape'
<1>1. /\ number' = [number EXCEPT ![s] = IF Caches THEN i ELSE 0]
      /\ count' = [count EXCEPT ![s] = 0]
      /\ updated' = [updated EXCEPT ![s] = FALSE]
      /\ used' = [used EXCEPT ![s] = Caches /\ u /\ n > 0]
  BY DEF LastIput
<1>2. nlink' \in [Slots -> 0 .. MaxLinks] /\ (Caches => nlink' = [nlink EXCEPT ![s] = n])
      /\ \A t \in Slots \ {s} : nlink'[t] = nlink[t]
  <2>1. Min({n, 1}) \in 0 .. 1
    BY Bounds DEF Min
  <2>2. PICK m \in 0 .. MaxLinks : /\ nlink' = [nlink EXCEPT ![s] = m]
                                   /\ Caches => m = n
    <3> DEFINE m == IF Caches THEN n ELSE IF BSD THEN 0 ELSE Min({n, 1})
    <3>1. m \in 0 .. MaxLinks /\ (Caches => m = n)
      BY <2>1, Bounds
    <3>2. nlink' = [nlink EXCEPT ![s] = m]
      BY DEF LastIput
    <3> HIDE DEF m
    <3> QED BY <3>1, <3>2
  <2> QED BY <2>2 DEF SlotsTyped
<1>3. /\ dinode' \in [Inos -> Dinodes]
      /\ \A j \in Inos \ {i} : dinode'[j] = dinode[j]
      /\ i # 0 => dinode'[i] = IF changed \/ n <= 0 THEN [used |-> u /\ n > 0, nlink |-> n]
                               ELSE dinode[i]
  BY Bounds DEF LastIput, SlotsTyped, Updated, Dinodes
<1>4. SlotsTyped'
  <2>1. number' \in [Slots -> Inos \union {0}] /\ count' \in [Slots -> 0 .. MaxRefs + 1]
    BY Bounds, <1>1 DEF SlotsTyped
  <2>2. used' \in [Slots -> BOOLEAN] /\ updated' \in [Slots -> BOOLEAN]
    BY <1>1 DEF SlotsTyped
  <2> QED BY <2>1, <2>2, <1>2, <1>3 DEF SlotsTyped
<1>5. SuperTyped'
  <2>1. IsList(s_inode')
    BY IfreeList DEF LastIput
  <2>2. s_tinode' \in Int /\ s_fmod' \in BOOLEAN /\ s_lasti' = s_lasti
    BY DEF LastIput, SuperTyped
  <2>3. s_nbehind' \in 0 .. Behind
    <3>1. \A k \in 0 .. Behind : Min({k + 1, Behind}) \in 0 .. Behind
      BY Bounds DEF Min
    <3> QED BY <3>1 DEF LastIput, SuperTyped
  <2> QED BY <2>1, <2>2, <2>3 DEF SuperTyped
<1>6. SpareListed'
  <2>1. SUFFICES ASSUME Caches
                 PROVE  /\ ifree' \in Seq(Slots) /\ Distinct(ifree')
                        /\ \A t \in Slots : OnList(ifree', t) <=> count'[t] = 0
    BY DEF SpareListed, Caches
  <2>2. ifree' = Append(Grabbed(s), s)
    BY <2>1 DEF LastIput
  <2>3. \A t \in Slots : count'[t] = 0 <=> t = s \/ count[t] = 0
    BY <1>1 DEF SlotsTyped
  <2>4. /\ Grabbed(s) \in Seq(Slots) /\ Distinct(Grabbed(s)) /\ ~OnList(Grabbed(s), s)
        /\ \A t \in Slots : OnList(Grabbed(s), t) <=> count[t] = 0 /\ t # s
    BY <2>1, Grabs
  <2> QED BY <2>2, <2>3, <2>4, Appends
<1>7. SlotShape'
  <2>1. Caches' <=> Caches
    BY DEF Caches
  <2>2. OneSlotPerInode'
    BY <1>1 DEF SlotShape, OneSlotPerInode, SlotsTyped
  <2>3. ASSUME NEW t \in Slots \ {s}
        PROVE  /\ count'[t] > 0 => number'[t] # 0
               /\ count'[t] = 0 => ~updated'[t] /\ (~Caches => number'[t] = 0)
               /\ count'[t] > MaxRefs => used'[t]
               /\ number'[t] # 0 /\ ~updated'[t] =>
                    dinode'[number'[t]] = [used |-> used'[t], nlink |-> nlink'[t]]
    <3>1. /\ number'[t] = number[t] /\ count'[t] = count[t] /\ updated'[t] = updated[t]
          /\ used'[t] = used[t] /\ nlink'[t] = nlink[t]
      BY <1>1, <1>2 DEF SlotsTyped
    <3>2. number[t] # 0 => dinode'[number[t]] = dinode[number[t]]
      BY <1>3 DEF SlotsTyped
    <3> QED BY <3>1, <3>2 DEF SlotShape
  <2>4. /\ count'[s] = 0 /\ ~updated'[s] /\ (~Caches => number'[s] = 0)
        /\ number'[s] # 0 => dinode'[number'[s]] = [used |-> used'[s], nlink |-> nlink'[s]]
    BY Bounds, <1>1, <1>2, <1>3 DEF SlotsTyped
  <2> QED BY Bounds, <2>1, <2>2, <2>3, <2>4 DEF SlotShape
<1> QED BY <1>4, <1>5, <1>6, <1>7

(* What iget and maknode do to slot s: it is inode i's. *)
Holds(s, i, c, u, n, changed) ==
  /\ number' = [number EXCEPT ![s] = i]
  /\ count' = [count EXCEPT ![s] = c]
  /\ used' = [used EXCEPT ![s] = u]
  /\ nlink' = [nlink EXCEPT ![s] = n]
  /\ updated' = [updated EXCEPT ![s] = changed]
  /\ ifree' = Grabbed(s)

LEMMA Gets ==
  ASSUME SlotsTyped, SpareListed, SlotShape, NEW s \in Slots, NEW i \in Inos,
         number[s] = i \/ Nowhere(i), NEW c \in 1 .. MaxRefs + 1, NEW u \in BOOLEAN,
         NEW n \in 0 .. MaxLinks, NEW changed \in BOOLEAN, Holds(s, i, c, u, n, changed),
         c > MaxRefs => u, ~changed => dinode[i] = [used |-> u, nlink |-> n],
         UNCHANGED <<kernel, dinode>>
  PROVE  SlotsTyped' /\ SpareListed' /\ SlotShape'
<1>1. SlotsTyped'
  BY DEF SlotsTyped, Holds
<1>2. Caches' <=> Caches
  BY DEF Caches
<1>3. \A t \in Slots : count'[t] = 0 <=> count[t] = 0 /\ t # s
  BY DEF SlotsTyped, Holds
<1>4. SpareListed'
  BY <1>2, <1>3, Grabs DEF SpareListed, Holds
<1>5. OneSlotPerInode'
  BY DEF SlotShape, OneSlotPerInode, SlotsTyped, Holds, Nowhere
<1>6. ASSUME NEW t \in Slots \ {s}
      PROVE  /\ number'[t] = number[t] /\ count'[t] = count[t] /\ updated'[t] = updated[t]
             /\ used'[t] = used[t] /\ nlink'[t] = nlink[t]
  BY DEF SlotsTyped, Holds
<1>7. /\ number'[s] = i /\ count'[s] = c /\ updated'[s] = changed
      /\ used'[s] = u /\ nlink'[s] = n /\ i # 0
  BY Kinds DEF SlotsTyped, Holds
<1>8. SlotShape'
  BY Bounds, <1>2, <1>5, <1>6, <1>7 DEF SlotShape
<1> QED BY <1>1, <1>4, <1>8

-----------------------------------------------------------------------------
(* What ialloc finds.                                                      *)

(* The numbers of a finite set have ranks, all of them. *)
LEMMA Ranks ==
  ASSUME NEW S, IsFiniteSet(S), S \subseteq Nat, NEW k \in 1 .. Cardinality(S)
  PROVE  \E i \in S : Below(S, i) = k - 1
<1> DEFINE n == Cardinality(S)
           rank == [i \in S |-> Below(S, i)]
           B(i) == {j \in S : j < i}
<1>1. n \in Nat
  BY FS_CardinalityType
<1>2. ASSUME NEW i \in S
      PROVE  IsFiniteSet(B(i)) /\ Below(S, i) = Cardinality(B(i)) /\ Below(S, i) \in 0 .. n - 1
  <2>1. B(i) \in SUBSET S /\ B(i) # S
    OBVIOUS
  <2>2. /\ IsFiniteSet(B(i)) /\ Cardinality(B(i)) <= n
        /\ n = Cardinality(B(i)) => S = B(i)
    BY <2>1, FS_Subset
  <2>3. Cardinality(B(i)) \in Nat
    BY <2>2, FS_CardinalityType
  <2> HIDE DEF B, n
  <2>4. Below(S, i) = Cardinality(B(i))
    BY DEF Below, B
  <2> QED BY <2>1, <2>2, <2>3, <2>4, <1>1
<1>3. ASSUME NEW i \in S, NEW j \in S, i < j PROVE Below(S, i) < Below(S, j)
  <2>0. i \in Nat /\ j \in Nat /\ \A l \in S : l \in Nat
    OBVIOUS
  <2>1. B(i) \union {i} \in SUBSET B(j) /\ i \notin B(i)
    <3>1. \A l \in B(i) \union {i} : l \in S /\ l < j
      BY <2>0, <1>3
    <3>2. B(i) \union {i} \subseteq B(j)
      BY <3>1
    <3>3. i \notin B(i)
      BY <2>0
    <3> QED BY <3>2, <3>3
  <2>2. IsFiniteSet(B(i)) /\ IsFiniteSet(B(j))
    BY <1>2
  <2>3. Cardinality(B(i) \union {i}) = Cardinality(B(i)) + 1
    BY <2>1, <2>2, FS_AddElement
  <2>4. Cardinality(B(i) \union {i}) <= Cardinality(B(j))
    BY <2>1, <2>2, FS_Subset
  <2>5. /\ Below(S, i) = Cardinality(B(i)) /\ Below(S, j) = Cardinality(B(j))
        /\ Cardinality(B(i)) \in Nat /\ Cardinality(B(j)) \in Nat
    BY <1>2, <1>1
  <2> HIDE DEF B
  <2> QED BY <2>3, <2>4, <2>5
<1>4. rank \in Injection(S, 0 .. n - 1)
  <2>1. rank \in [S -> 0 .. n - 1]
    BY <1>2
  <2>2. \A i, j \in S : rank[i] = rank[j] => i = j
    <3>1. \A i, j \in S : i # j => i < j \/ j < i
      OBVIOUS
    <3>2. \A i \in S : rank[i] = Below(S, i) /\ rank[i] \in Nat
      <4>1. \A i \in S : rank[i] = Below(S, i)
        OBVIOUS
      <4>2. \A i \in S : Below(S, i) \in 0 .. n - 1
        BY <1>2
      <4> HIDE DEF rank, n
      <4> QED BY <4>1, <4>2, <1>1
    <3> HIDE DEF rank
    <3> QED BY <3>1, <3>2, <1>3
  <2> HIDE DEF rank, n
  <2> QED BY <2>1, <2>2 DEF Injection, IsInjective
<1>5. IsFiniteSet(0 .. n - 1) /\ Cardinality(0 .. n - 1) = n
  <2> HIDE DEF n
  <2> QED BY <1>1, FS_Interval
<1>6. rank \in Surjection(S, 0 .. n - 1)
  <2> HIDE DEF rank
  <2> QED BY <1>4, <1>5, FS_Injection
<1>7. k - 1 \in 0 .. n - 1
  BY <1>1
<1> QED BY <1>6, <1>7 DEF Surjection

LEMMA FirstOfs ==
  ASSUME NEW S \in SUBSET Inos, NEW n \in Nat
  PROVE  FirstOf(S, n) \in Seq(S) /\ Len(FirstOf(S, n)) <= n
<1> DEFINE m == Min({n, Cardinality(S)})
<1>1. S \subseteq Nat /\ IsFiniteSet(S) /\ Cardinality(S) \in Nat
  BY Kinds, FS_Subset, FS_CardinalityType, InodeTableAssumption
<1>2. m \in Nat /\ m <= n /\ m <= Cardinality(S)
  BY <1>1 DEF Min
<1> HIDE DEF m
<1>3. ASSUME NEW k \in 1 .. m PROVE \E i \in S : Below(S, i) = k - 1
  <2>1. k \in 1 .. Cardinality(S)
    BY <1>1, <1>2
  <2> QED BY <2>1, <1>1, Ranks
<1>4. FirstOf(S, n) = [k \in 1 .. m |-> CHOOSE i \in S : Below(S, i) = k - 1]
  BY DEF FirstOf, m
<1>5. FirstOf(S, n) \in [1 .. m -> S]
  BY <1>3, <1>4
<1> QED BY <1>2, <1>5

LEMMA NoneFound == <<>> \in Seq(Inos) /\ Len(<<>>) <= NICINOD /\ Len(<<>>) \in Nat
BY Bounds

LEMMA Finds ==
  ASSUME SuperTyped PROVE Found \in Seq(Inos) /\ Len(Found) <= NICINOD
<1>1. NICINOD \in Nat
  BY Bounds
<1>0. ASSUME NEW S \in SUBSET Inos, NEW n \in Nat
      PROVE  /\ FirstOf(S, n) \in Seq(Inos) /\ Len(FirstOf(S, n)) \in Nat
             /\ Len(FirstOf(S, n)) <= n
  <2>1. FirstOf(S, n) \in Seq(S) /\ Len(FirstOf(S, n)) <= n
    BY FirstOfs
  <2> HIDE DEF FirstOf
  <2> QED BY <2>1, LenProperties
<1>2. Onward \in Seq(Inos) /\ Len(Onward) <= NICINOD /\ Len(Onward) \in Nat
  <2> DEFINE o == FirstOf({i \in Free : i >= s_lasti}, NICINOD)
  <2>1. o \in Seq(Inos) /\ Len(o) <= NICINOD /\ Len(o) \in Nat
    <3>1. {i \in Free : i >= s_lasti} \in SUBSET Inos
      BY DEF Free
    <3> QED BY <3>1, <1>0, <1>1
  <2>2. Onward = o \/ Onward = <<>>
    BY DEF Onward
  <2> HIDE DEF o
  <2>3. CASE Onward = o
    BY <2>1, <2>3
  <2>4. CASE Onward = <<>>
    BY <2>4, NoneFound
  <2> QED BY <2>2, <2>3, <2>4
<1>3. ASSUME NEW kept \in Seq(Inos), Len(kept) <= NICINOD
      PROVE  /\ kept \o FirstOf(Free, NICINOD - Len(kept)) \in Seq(Inos)
             /\ Len(kept \o FirstOf(Free, NICINOD - Len(kept))) <= NICINOD
  <2>1. Len(kept) \in Nat /\ NICINOD - Len(kept) \in Nat
    BY <1>1, <1>3, LenProperties
  <2>2. /\ FirstOf(Free, NICINOD - Len(kept)) \in Seq(Inos)
        /\ Len(FirstOf(Free, NICINOD - Len(kept))) <= NICINOD - Len(kept)
        /\ Len(FirstOf(Free, NICINOD - Len(kept))) \in Nat
    <3>1. Free \in SUBSET Inos
      BY DEF Free
    <3> QED BY <3>1, <2>1, <1>0
  <2> QED BY <1>1, <2>1, <2>2, ConcatProperties
<1>4. PICK kept : /\ kept = Onward \/ kept = <<>>
                  /\ Found = IF FromTop THEN kept \o FirstOf(Free, NICINOD - Len(kept)) ELSE Onward
  BY DEF Found
<1>5. kept \in Seq(Inos) /\ Len(kept) <= NICINOD
  <2>1. CASE kept = Onward
    BY <2>1, <1>2
  <2>2. CASE kept = <<>>
    BY <2>2, NoneFound
  <2> QED BY <2>1, <2>2, <1>4
<1> QED BY <1>2, <1>3, <1>4, <1>5

LEMMA Stops ==
  ASSUME NEW list \in Seq(Inos), Len(list) <= NICINOD PROVE Stopped(list) \in Inos
<1> DEFINE last == Cardinality(Inos)
           i == IF Len(list) < NICINOD THEN Max(Inos) ELSE Last(list)
<1>1. last \in Nat /\ last > 0 /\ Inos = 1 .. last
  <2>1. IsFiniteSet(Inos) /\ Inos # {} /\ Inos = 1 .. last
    BY InodeTableAssumption
  <2>2. last \in Nat
    BY <2>1, FS_CardinalityType
  <2> QED BY <2>1, <2>2
<1>2. Max(Inos) \in Inos
  <2>1. last \in Inos /\ \A j \in Inos : last >= j
    BY <1>1
  <2> QED BY <2>1 DEF Max
<1>3. i \in Inos
  <2>1. Len(list) \in Nat
    BY LenProperties
  <2>2. ~(Len(list) < NICINOD) => Last(list) \in Inos
    BY <2>1, Bounds DEF Last
  <2> QED BY <1>2, <2>2
<1> HIDE DEF i, last
<1>4. i - ((i - 1) % INOPB) \in 1 .. i
  BY <1>1, <1>3, Bounds
<1>5. Stopped(list) = i - ((i - 1) % INOPB)
  BY DEF Stopped, i
<1> QED BY <1>1, <1>3, <1>4, <1>5

-----------------------------------------------------------------------------
(* iget.                                                                   *)

LEMMA IgetCachedHolds ==
  ASSUME Inv, NEW i \in Inos, IgetCached(i)
  PROVE  \E s \in Slots : /\ number[s] = i /\ s = SlotOf(i) /\ count[s] < MaxRefs
                          /\ Holds(s, i, count[s] + 1, used[s], nlink[s], updated[s])
<1>1. PICK s \in Slots : s = SlotOf(i) /\ number[s] = i
  BY InItsSlot DEF IgetCached
<1>2. /\ number' = [number EXCEPT ![s] = i] /\ used' = [used EXCEPT ![s] = used[s]]
      /\ nlink' = [nlink EXCEPT ![s] = nlink[s]] /\ updated' = [updated EXCEPT ![s] = updated[s]]
  BY <1>1 DEF IgetCached, Inv, SlotsTyped
<1>3. count' = [count EXCEPT ![s] = count[s] + 1] /\ ifree' = Grabbed(s) /\ count[s] < MaxRefs
  BY <1>1 DEF IgetCached
<1> QED BY <1>1, <1>2, <1>3 DEF Holds

LEMMA IgetReadHolds ==
  ASSUME Inv, NEW i \in Inos, IgetRead(i)
  PROVE  \E s \in Slots : /\ Nowhere(i) /\ s = Oldest /\ count[s] = 0
                          /\ Holds(s, i, 1, dinode[i].used, dinode[i].nlink, FALSE)
<1>1. PICK s \in Slots : s = Oldest /\ count[s] = 0
  BY OldestIsSpare DEF IgetRead, Inv
<1>2. updated' = [updated EXCEPT ![s] = FALSE]
  BY <1>1 DEF IgetRead, Inv, SlotsTyped, SlotShape
<1>3. Nowhere(i)
  BY DEF IgetRead, InCore, Nowhere
<1> QED BY <1>1, <1>2, <1>3 DEF IgetRead, Holds

LEMMA DinodeFields ==
  ASSUME SlotsTyped, NEW i \in Inos
  PROVE  /\ dinode[i].used \in BOOLEAN /\ dinode[i].nlink \in 0 .. MaxLinks
         /\ dinode[i] = [used |-> dinode[i].used, nlink |-> dinode[i].nlink]
<1>1. dinode[i] \in Dinodes
  BY DEF SlotsTyped
<1> QED BY <1>1 DEF Dinodes

LEMMA IgetInv ==
  ASSUME Inv, NEW i \in Inos, IgetCached(i) \/ IgetRead(i), UNCHANGED <<kernel, dinode>>
  PROVE  SlotsTyped' /\ SpareListed' /\ SlotShape'
<1>1. CASE IgetCached(i)
  <2>1. PICK s \in Slots :
          /\ number[s] = i /\ count[s] < MaxRefs
          /\ Holds(s, i, count[s] + 1, used[s], nlink[s], updated[s])
    BY <1>1, IgetCachedHolds
  <2>2. PICK c \in 1 .. MaxRefs + 1, u \in BOOLEAN, n \in 0 .. MaxLinks, ch \in BOOLEAN :
          c = count[s] + 1 /\ u = used[s] /\ n = nlink[s] /\ ch = updated[s]
    BY <2>1, Bounds DEF Inv, SlotsTyped
  <2>3. c <= MaxRefs
    BY <2>1, <2>2, Bounds DEF Inv, SlotsTyped
  <2>4. ~ch => dinode[i] = [used |-> u, nlink |-> n]
    BY <2>1, <2>2, Kinds DEF Inv, SlotShape
  <2>5. Holds(s, i, c, u, n, ch)
    BY <2>1, <2>2
  <2> QED BY <2>1, <2>3, <2>4, <2>5, Bounds, Gets DEF Inv
<1>2. CASE IgetRead(i)
  <2>1. PICK s \in Slots :
          Nowhere(i) /\ Holds(s, i, 1, dinode[i].used, dinode[i].nlink, FALSE)
    BY <1>2, IgetReadHolds
  <2>2. PICK c \in 1 .. MaxRefs + 1, u \in BOOLEAN, n \in 0 .. MaxLinks, ch \in BOOLEAN :
          c = 1 /\ u = dinode[i].used /\ n = dinode[i].nlink /\ ch = FALSE
    <3>1. dinode[i].used \in BOOLEAN /\ dinode[i].nlink \in 0 .. MaxLinks
      BY DinodeFields DEF Inv
    <3>2. 1 \in 1 .. MaxRefs + 1 /\ FALSE \in BOOLEAN
      BY Bounds
    <3> QED BY <3>1, <3>2, Zenon
  <2>3. c <= MaxRefs /\ dinode[i] = [used |-> u, nlink |-> n]
    BY <2>2, DinodeFields, Bounds DEF Inv
  <2>4. Holds(s, i, c, u, n, ch)
    BY <2>1, <2>2
  <2> QED BY <2>1, <2>3, <2>4, Bounds, Gets DEF Inv
<1> QED BY <1>1, <1>2

LEMMA IgetErrorInv ==
  ASSUME Inv, NEW i \in Inos, NEW list, IsList(list), IgetError(i, list), kernel' = kernel
  PROVE  SlotsTyped' /\ SuperTyped' /\ SpareListed' /\ SlotShape'
<1>1. CASE kernel = "29"
  BY <1>1 DEF IgetError, Inv, slot, scan, SlotsTyped, SuperTyped, SpareListed, SlotShape,
              OneSlotPerInode, Caches
<1>2. CASE kernel # "29"
  <2>1. PICK s \in Slots : s = Oldest
    BY OldestIsSpare DEF IgetError, Inv
  <2>2. PICK j \in Inos \union {0}, u \in BOOLEAN, n \in 0 .. MaxLinks, t \in Int,
             ch \in BOOLEAN :
          /\ j = (IF Caches THEN 0 ELSE i) /\ u = used[s] /\ n = nlink[s] /\ t = s_tinode
          /\ ch = FALSE
    BY DEF Inv, SlotsTyped, SuperTyped
  <2>3. LastIput(s, j, u, n, ch, list, t)
    BY <1>2, <2>1, <2>2 DEF IgetError
  <2>4. j # 0 => ~Caches /\ \A r \in Slots \ {s} : number[r] # j
    BY <2>2 DEF IgetError, InCore
  <2> QED BY <2>3, <2>4, Releases DEF Inv
<1> QED BY <1>1, <1>2

LEMMA LookupInv ==
  ASSUME Inv, NEW i \in Inos, Lookup(i) PROVE Inv'
<1>1. SlotsTyped' /\ SuperTyped' /\ SpareListed' /\ SlotShape'
  <2>1. CASE (IgetCached(i) \/ IgetRead(i)) /\ UNCHANGED <<dinode, sb, happened>>
    <3>1. SuperTyped'
      BY <2>1 DEF Inv, sb, scan, SuperTyped
    <3> QED BY <2>1, <3>1, IgetInv DEF Lookup
  <2>2. CASE IgetError(i, s_inode)
    BY <2>2, IgetErrorInv DEF Lookup, Inv, SuperTyped
  <2> QED BY <2>1, <2>2 DEF Lookup
<1>2. RestTyped'
  BY DEF Lookup, IgetError, Inv, RestTyped
<1> QED BY <1>1, <1>2 DEF Inv

LEMMA IputInv ==
  ASSUME Inv, NEW s \in Slots, Iput(s) PROVE Inv'
<1>1. RestTyped'
  BY DEF Iput, Inv, RestTyped
<1>2. CASE /\ count[s] = 1
           /\ LastIput(s, number[s], used[s], nlink[s], updated[s], s_inode, s_tinode)
  <2>1. PICK j \in Inos \union {0}, u \in BOOLEAN, n \in 0 .. MaxLinks, t \in Int,
             ch \in BOOLEAN :
          j = number[s] /\ u = used[s] /\ n = nlink[s] /\ t = s_tinode /\ ch = updated[s]
    BY DEF Inv, SlotsTyped, SuperTyped
  <2>2. /\ j # 0 => \A r \in Slots \ {s} : number[r] # j
        /\ j # 0 /\ ~ch => dinode[j] = [used |-> u, nlink |-> n]
    BY <2>1 DEF Inv, SlotShape, OneSlotPerInode
  <2>3. LastIput(s, j, u, n, ch, s_inode, t) /\ IsList(s_inode) /\ kernel' = kernel
    BY <1>2, <2>1 DEF Iput, Inv, SuperTyped
  <2> QED BY <2>2, <2>3, <1>1, Releases DEF Inv
<1>3. CASE /\ count[s] > 1 /\ count' = [count EXCEPT ![s] = @ - 1]
           /\ UNCHANGED <<number, used, nlink, updated, ifree, dinode, sb>>
  <2>1. kernel' = kernel
    BY DEF Iput
  <2>2. /\ count' \in [Slots -> 0 .. MaxRefs + 1]
        /\ \A t \in Slots : /\ count'[t] = 0 <=> count[t] = 0
                            /\ count'[t] > MaxRefs => count[t] > MaxRefs
    BY <1>3, Bounds DEF Inv, SlotsTyped
  <2>3. SlotsTyped' /\ SuperTyped'
    BY <1>3, <2>1, <2>2 DEF Inv, SlotsTyped, SuperTyped, sb, scan
  <2>4. SpareListed'
    BY <1>3, <2>1, <2>2 DEF Inv, SpareListed, Caches
  <2>5. SlotShape'
    <3>1. \A t \in Slots : count[t] \in Nat /\ count'[t] \in Nat
      BY <2>2, Bounds DEF Inv, SlotsTyped
    <3> QED BY <1>3, <2>1, <2>2, <3>1 DEF Inv, SlotShape, OneSlotPerInode, Caches
  <2> QED BY <2>3, <2>4, <2>5, <1>1 DEF Inv
<1> QED BY <1>2, <1>3 DEF Iput

LEMMA RelinkInv ==
  ASSUME Inv, NEW s \in Slots, NEW by \in {-1, 1}, Relink(s, by) PROVE Inv'
<1>1. /\ number[s] \in Inos /\ nlink[s] + by \in 0 .. MaxLinks
      /\ links[number[s]] + by \in 0 .. MaxLinks
  <2>1. number[s] \in Inos /\ nlink[s] + by \in 0 .. MaxLinks
    <3>1. count[s] > 0 /\ nlink[s] + by \in 0 .. MaxLinks
      BY DEF Relink
    <3> QED BY <3>1, HeldIs
  <2>2. links[number[s]] \in 1 .. MaxLinks /\ links[number[s]] + by <= MaxLinks
    BY DEF Relink
  <2> QED BY <2>1, <2>2, Bounds
<1>2. SlotsTyped' /\ SuperTyped' /\ SpareListed'
  BY <1>1 DEF Relink, Inv, SlotsTyped, SuperTyped, SpareListed, sb, scan, Caches
<1>3. RestTyped'
  BY <1>1 DEF Relink, Inv, RestTyped
<1>4. SlotShape'
  <2>1. UNCHANGED <<kernel, number, count, used, dinode>>
    BY DEF Relink
  <2>2. updated'[s] /\ count[s] > 0
    BY DEF Relink, Inv, SlotsTyped
  <2>3. \A t \in Slots \ {s} : nlink'[t] = nlink[t] /\ updated'[t] = updated[t]
    BY DEF Relink, Inv, SlotsTyped
  <2>4. count[s] # 0
    BY <2>2
  <2>5. OneSlotPerInode'
    BY <2>1 DEF Inv, SlotShape, OneSlotPerInode
  <2>6. /\ \A t \in Slots : /\ count'[t] > 0 => number'[t] # 0
                            /\ count'[t] = 0 /\ ~Caches' => number'[t] = 0
                            /\ count'[t] > MaxRefs => used'[t]
    BY <2>1 DEF Inv, SlotShape, Caches
  <2>7. \A t \in Slots : /\ count'[t] = 0 => ~updated'[t]
                         /\ number'[t] # 0 /\ ~updated'[t] =>
                              dinode'[number'[t]] = [used |-> used'[t], nlink |-> nlink'[t]]
    <3>1. ASSUME NEW t \in Slots \ {s}
          PROVE  /\ count'[t] = 0 => ~updated'[t]
                 /\ number'[t] # 0 /\ ~updated'[t] =>
                      dinode'[number'[t]] = [used |-> used'[t], nlink |-> nlink'[t]]
      BY <2>1, <2>3 DEF Inv, SlotShape
    <3>2. count'[s] # 0 /\ updated'[s]
      BY <2>1, <2>2, <2>4
    <3> QED BY <3>1, <3>2
  <2> QED BY <2>5, <2>6, <2>7 DEF SlotShape
<1> QED BY <1>2, <1>3, <1>4 DEF Inv

-----------------------------------------------------------------------------
(* ialloc.                                                                 *)

LEMMA Pops ==
  ASSUME SuperTyped, s_inode # <<>>
  PROVE  Popped \in Inos \union {0} /\ IsList(Rest)
<1>1. s_inode \in Seq(Inos \union {0}) /\ Len(s_inode) \in Nat /\ Len(s_inode) <= NICINOD
  BY LenProperties DEF SuperTyped, IsList
<1>2. Len(s_inode) \in 1 .. Len(s_inode)
  BY <1>1, EmptySeq
<1>3. Rest \in Seq(Inos \union {0}) /\ Len(Rest) = Len(s_inode) - 1
  <2>1. \A k \in 1 .. Len(s_inode) - 1 : s_inode[k] \in Inos \union {0}
    BY <1>1
  <2>2. Len(s_inode) - 1 \in Int /\ 1 \in Int /\ Len(s_inode) >= 1
    BY <1>1, <1>2
  <2>3. Rest \in Seq(Inos \union {0})
    BY <2>1, <2>2, SubSeqProperties DEF Rest
  <2>4. Len(Rest) = IF 1 <= Len(s_inode) - 1 THEN Len(s_inode) - 1 - 1 + 1 ELSE 0
    BY <2>1, <2>2, SubSeqProperties DEF Rest
  <2>5. \A l \in Int : l >= 1 => (IF 1 <= l - 1 THEN l - 1 - 1 + 1 ELSE 0) = l - 1
    OBVIOUS
  <2>6. Len(s_inode) \in Int
    BY <1>1
  <2>7. Len(Rest) = Len(s_inode) - 1
    BY <2>2, <2>4, <2>5, <2>6
  <2> QED BY <2>3, <2>7
<1> QED BY <1>1, <1>2, <1>3, Bounds DEF Popped, IsList

LEMMA PopLowInv ==
  ASSUME Inv, PopLow PROVE Inv'
<1>1. IsList(s_inode')
  BY Pops DEF PopLow, Inv
<1>2. SuperTyped'
  BY <1>1 DEF PopLow, Inv, SuperTyped, scan
<1> QED BY <1>2 DEF PopLow, Inv, slot, SlotsTyped, SlotShape, SpareListed, RestTyped,
                    OneSlotPerInode, Caches

LEMMA PopNoSlotInv ==
  ASSUME Inv, PopNoSlot PROVE Inv'
<1>1. IsList(s_inode')
  BY Pops DEF PopNoSlot, Inv
<1>2. SuperTyped'
  BY <1>1 DEF PopNoSlot, Inv, SuperTyped, scan
<1> QED BY <1>2 DEF PopNoSlot, Return, Inv, slot, SlotsTyped, SlotShape, SpareListed, RestTyped,
                    OneSlotPerInode, Caches

LEMMA PopErrorInv ==
  ASSUME Inv, PopError PROVE Inv'
<1>1. Popped \in Inos /\ IsList(Rest)
  BY Pops DEF PopError, Inv
<1>2. SlotsTyped' /\ SuperTyped' /\ SpareListed' /\ SlotShape'
  BY <1>1, IgetErrorInv DEF PopError
<1>3. RestTyped'
  BY DEF PopError, Return, IgetError, Inv, RestTyped
<1> QED BY <1>2, <1>3 DEF Inv

(* The slot of an inode, or the one it gets. *)
SlotFor(i) == IF InCore(i) THEN SlotOf(i) ELSE Oldest

LEMMA SlotForIt ==
  ASSUME SpareListed, OneSlotPerInode, NEW i \in Inos, InCore(i) \/ Spare # {}
  PROVE  /\ SlotFor(i) \in Slots
         /\ InCore(i) => number[SlotFor(i)] = i
         /\ ~InCore(i) => Nowhere(i) /\ count[SlotFor(i)] = 0
         /\ \A t \in Slots \ {SlotFor(i)} : number[t] # i
<1>0. i # 0
  BY Kinds
<1>1. CASE InCore(i)
  BY <1>0, <1>1, InItsSlot DEF SlotFor, OneSlotPerInode
<1>2. CASE ~InCore(i)
  BY <1>2, OldestIsSpare DEF SlotFor, InCore, Nowhere
<1> QED BY <1>1, <1>2

(* An inode in use that nobody holds is in use on the disk. *)
LEMMA TakenOnDisk ==
  ASSUME Inv, NEW i \in Inos, IsTaken(i), InCore(i) => count[SlotOf(i)] = 0
  PROVE  dinode[i] = [used |-> TRUE, nlink |-> dinode[i].nlink]
<1>1. dinode[i] = [used |-> dinode[i].used, nlink |-> dinode[i].nlink]
  BY DinodeFields DEF Inv
<1>2. CASE InCore(i)
  <2>1. SlotOf(i) \in Slots /\ number[SlotOf(i)] = i /\ count[SlotOf(i)] = 0
    BY <1>2, InItsSlot
  <2>2. dinode[i] = [used |-> used[SlotOf(i)], nlink |-> nlink[SlotOf(i)]]
    BY <2>1, Kinds DEF Inv, SlotShape
  <2>3. used[SlotOf(i)] = TRUE
    BY <1>2, <2>1 DEF IsTaken, Inv, SlotsTyped
  <2>4. dinode[i] = [used |-> TRUE, nlink |-> nlink[SlotOf(i)]]
    BY <2>2, <2>3, Zenon
  <2> QED BY <2>4
<1>3. CASE ~InCore(i)
  <2>1. dinode[i].used = TRUE
    BY <1>3, DinodeFields DEF IsTaken, Inv
  <2> QED BY <1>1, <2>1
<1> QED BY <1>2, <1>3

LEMMA PopTakenInv ==
  ASSUME Inv, PopTaken PROVE Inv'
<1>1. Popped \in Inos /\ IsList(Rest)
  BY Pops DEF PopTaken, Inv
<1>2. RestTyped' /\ kernel' = kernel
  BY DEF PopTaken, Inv, RestTyped
<1>3. CASE s_inode' = Rest /\ UNCHANGED <<slot, dinode, s_fmod, scan, s_tinode>>
  <2>1. SuperTyped'
    BY <1>1, <1>3 DEF Inv, SuperTyped, scan
  <2> QED BY <2>1, <1>2, <1>3 DEF Inv, slot, SlotsTyped, SlotShape, SpareListed, RestTyped,
                    OneSlotPerInode, Caches
<1>4. CASE /\ InCore(Popped) => count[SlotOf(Popped)] = 0
           /\ Spare # {}
           /\ LastIput(SlotFor(Popped), Popped, TRUE, dinode[Popped].nlink, FALSE, Rest, s_tinode)
  <2>1. PICK s \in Slots, j \in Inos \union {0}, u \in BOOLEAN, n \in 0 .. MaxLinks,
             t \in Int, ch \in BOOLEAN :
          /\ s = SlotFor(Popped) /\ j = Popped /\ u = TRUE /\ n = dinode[Popped].nlink
          /\ t = s_tinode /\ ch = FALSE
    <3>1. SlotFor(Popped) \in Slots
      BY <1>1, <1>4, SlotForIt DEF Inv, SlotShape
    <3>2. dinode[Popped].nlink \in 0 .. MaxLinks
      BY <1>1, DinodeFields DEF Inv
    <3>3. s_tinode \in Int /\ TRUE \in BOOLEAN /\ FALSE \in BOOLEAN
      BY DEF Inv, SuperTyped
    <3> QED BY <3>1, <3>2, <3>3, <1>1, Zenon
  <2>2. \A r \in Slots \ {s} : number[r] # j
    BY <1>1, <1>4, <2>1, SlotForIt DEF Inv, SlotShape
  <2>3. dinode[j] = [used |-> u, nlink |-> n]
    <3>1. dinode[j] = [used |-> TRUE, nlink |-> dinode[j].nlink]
      BY <1>1, <1>4, <2>1, TakenOnDisk DEF PopTaken
    <3> QED BY <3>1, <2>1
  <2>4. LastIput(s, j, u, n, ch, Rest, t)
    BY <1>4, <2>1
  <2> QED BY <2>2, <2>3, <2>4, <1>1, <1>2, Releases DEF Inv
<1> QED BY <1>3, <1>4 DEF PopTaken, SlotFor

LEMMA PopFreeInv ==
  ASSUME Inv, PopFree PROVE Inv'
<1>1. Popped \in Inos /\ IsList(Rest)
  BY Pops DEF PopFree, Inv
<1>2. PICK s \in Slots, i \in Inos : s = SlotFor(Popped) /\ i = Popped
  BY <1>1, SlotForIt DEF PopFree, Inv, SlotShape
<1>3. /\ InCore(i) => number[s] = i /\ ~used[s]
      /\ ~InCore(i) => Nowhere(i) /\ count[s] = 0
      /\ \A t \in Slots \ {s} : number[t] # i
  BY <1>2, SlotForIt DEF PopFree, SlotFor, IsTaken, Inv, SlotShape
<1>4. Taken \in Int /\ kernel' = kernel /\ happened' = happened /\ super' = super
  BY DEF PopFree, Taken, Inv, SuperTyped
<1>5. CASE /\ MakeNode(s, i) /\ links' = [links EXCEPT ![i] = 1]
           /\ s_inode' = Rest /\ s_fmod' = TRUE /\ s_tinode' = Taken
           /\ Return(i) /\ UNCHANGED <<dinode, scan>>
  <2>1. PICK c \in 1 .. MaxRefs + 1, u \in BOOLEAN, n \in 0 .. MaxLinks, ch \in BOOLEAN :
          c = count[s] + 1 /\ u = TRUE /\ n = 1 /\ ch = TRUE
    <3>1. count[s] \in 0 .. MaxRefs
      <4>1. count[s] \in 0 .. MaxRefs + 1
        BY DEF Inv, SlotsTyped
      <4>2. count[s] = 0 \/ ~(count[s] > MaxRefs)
        BY <1>3 DEF Inv, SlotShape
      <4> QED BY <4>1, <4>2, Bounds
    <3>2. count[s] + 1 \in 1 .. MaxRefs + 1 /\ 1 \in 0 .. MaxLinks
      BY <3>1, Bounds
    <3> QED BY <3>2, Zenon
  <2>2. Holds(s, i, c, u, n, ch)
    BY <1>5, <2>1 DEF MakeNode, Holds
  <2>3. SlotsTyped' /\ SpareListed' /\ SlotShape'
    BY <1>3, <1>4, <1>5, <2>1, <2>2, Gets DEF Inv
  <2>4. SuperTyped'
    BY <1>1, <1>4, <1>5 DEF Inv, SuperTyped, scan
  <2>5. RestTyped'
    <3>1. links' \in [Inos -> 0 .. MaxLinks]
      BY <1>5, Bounds DEF Inv, RestTyped
    <3> QED BY <3>1, <1>4, <1>5 DEF Inv, RestTyped, Return
  <2> QED BY <2>3, <2>4, <2>5 DEF Inv
<1>6. CASE /\ count[s] = 0 /\ LastIput(s, i, TRUE, 0, TRUE, Rest, Taken)
           /\ Return(NONE) /\ UNCHANGED links
  <2>1. PICK u \in BOOLEAN, n \in 0 .. MaxLinks, t \in Int, ch \in BOOLEAN :
          u = TRUE /\ n = 0 /\ t = Taken /\ ch = TRUE
    <3>1. 0 \in 0 .. MaxLinks
      BY Bounds
    <3> QED BY <3>1, <1>4, Zenon
  <2>2. LastIput(s, i, u, n, ch, Rest, t)
    BY <1>6, <2>1
  <2>3. SlotsTyped' /\ SuperTyped' /\ SpareListed' /\ SlotShape'
    BY <1>1, <1>3, <1>4, <2>1, <2>2, Releases DEF Inv
  <2>4. RestTyped'
    BY <1>4, <1>6 DEF Inv, RestTyped, Return
  <2> QED BY <2>3, <2>4 DEF Inv
<1>7. CASE /\ count[s] # 0 /\ used' = [used EXCEPT ![s] = TRUE]
           /\ updated' = [updated EXCEPT ![s] = TRUE] /\ nlink' = [nlink EXCEPT ![s] = 0]
           /\ s_inode' = Rest /\ s_fmod' = TRUE /\ s_tinode' = Taken
           /\ UNCHANGED <<number, count, ifree, dinode, scan>>
           /\ Return(NONE) /\ UNCHANGED links
  <2>1. SlotsTyped'
    BY <1>4, <1>7, Bounds DEF Inv, SlotsTyped
  <2>2. SpareListed'
    BY <1>4, <1>7 DEF Inv, SpareListed, Caches
  <2>3. SlotShape'
    <3>1. \A t \in Slots \ {s} : /\ nlink'[t] = nlink[t] /\ updated'[t] = updated[t]
                               /\ used'[t] = used[t]
      BY <1>7 DEF Inv, SlotsTyped
    <3>2. updated'[s] /\ used'[s]
      BY <1>7 DEF Inv, SlotsTyped
    <3>3. UNCHANGED <<kernel, number, count, dinode>> /\ count[s] # 0
      BY <1>4, <1>7
    <3>4. OneSlotPerInode'
      BY <3>3 DEF Inv, SlotShape, OneSlotPerInode
    <3>5. ASSUME NEW t \in Slots
          PROVE  /\ count'[t] > 0 => number'[t] # 0
                 /\ count'[t] = 0 => ~updated'[t] /\ (~Caches' => number'[t] = 0)
                 /\ count'[t] > MaxRefs => used'[t]
                 /\ number'[t] # 0 /\ ~updated'[t] =>
                      dinode'[number'[t]] = [used |-> used'[t], nlink |-> nlink'[t]]
      <4>1. CASE t = s
        BY <4>1, <3>2, <3>3 DEF Inv, SlotShape
      <4>2. CASE t # s
        BY <4>2, <3>1, <3>3 DEF Inv, SlotShape, Caches
      <4> QED BY <4>1, <4>2
    <3> QED BY <3>4, <3>5 DEF SlotShape
  <2>4. SuperTyped'
    BY <1>1, <1>4, <1>7 DEF Inv, SuperTyped, scan
  <2>5. RestTyped'
    BY <1>4, <1>7 DEF Inv, RestTyped, Return
  <2> QED BY <2>1, <2>2, <2>3, <2>4, <2>5 DEF Inv
<1> QED BY <1>2, <1>5, <1>6, <1>7 DEF PopFree, SlotFor

LEMMA RefillInv ==
  ASSUME Inv, Refill \/ OutOfInodes PROVE Inv'
<1>1. Found \in Seq(Inos) /\ Len(Found) <= NICINOD
  BY Finds DEF Inv
<1>2. s_lasti' \in Inos /\ s_nbehind' \in 0 .. Behind
  <2>1. Stopped(Found) \in Inos
    BY <1>1, Stops
  <2>2. 0 \in 0 .. Behind
    BY Bounds
  <2>3. Scanned
    BY DEF Refill, OutOfInodes
  <2> QED BY <2>1, <2>2, <2>3 DEF Scanned, Inv, SuperTyped, scan
<1>3. IsList(s_inode')
  <2>1. CASE Refill
    <3>1. s_inode' = Found
      BY <2>1 DEF Refill
    <3> QED BY <3>1, <1>1 DEF IsList
  <2>2. CASE OutOfInodes
    BY <2>2 DEF OutOfInodes, Inv, SuperTyped
  <2> QED BY <2>1, <2>2
<1>4. UNCHANGED <<kernel, slot, dinode, s_fmod, s_tinode, super, links, happened>>
  BY DEF Refill, OutOfInodes
<1>5. SuperTyped'
  BY <1>2, <1>3, <1>4 DEF Inv, SuperTyped
<1>6. calling' \in BOOLEAN /\ answer' \in Inos \union {ENOSPC, ENFILE, NONE}
  BY DEF Refill, OutOfInodes, Return, Inv, RestTyped
<1> QED BY <1>4, <1>5, <1>6 DEF Inv, slot, SlotsTyped, SlotShape, SpareListed, RestTyped,
           OneSlotPerInode, Caches

LEMMA UpdateInv ==
  ASSUME Inv, Update PROVE Inv'
<1>1. \A i \in Inos : dinode'[i] = IF InCore(i) /\ updated[SlotOf(i)]
                                   THEN [used |-> used[SlotOf(i)], nlink |-> nlink[SlotOf(i)]]
                                   ELSE dinode[i]
  BY DEF Update
<1>2. dinode' \in [Inos -> Dinodes]
  <2>1. \A i \in Inos : InCore(i) => SlotOf(i) \in Slots
    BY InItsSlot
  <2>2. \A t \in Slots : [used |-> used[t], nlink |-> nlink[t]] \in Dinodes
    BY DEF Inv, SlotsTyped, Dinodes
  <2>3. \A i \in Inos : dinode'[i] \in Dinodes
    BY <1>1, <2>1, <2>2 DEF Inv, SlotsTyped
  <2>4. dinode' = [i \in Inos |-> dinode'[i]]
    BY DEF Update
  <2> QED BY <2>3, <2>4
<1>3. UNCHANGED <<kernel, number, count, used, nlink, updated, ifree>>
  BY DEF Update, slot
<1>4. SlotsTyped' /\ SpareListed'
  BY <1>2, <1>3 DEF Inv, SlotsTyped, SpareListed, Caches
<1>5. SlotShape'
  <2>1. ASSUME NEW s \in Slots, number[s] # 0, ~updated[s]
        PROVE  dinode'[number[s]] = dinode[number[s]]
    <3>1. SlotOf(number[s]) = s /\ number[s] \in Inos
      BY <2>1, SlotOfIt DEF Inv, SlotShape, SlotsTyped
    <3> QED BY <3>1, <2>1, <1>1
  <2> QED BY <2>1, <1>3 DEF Inv, SlotShape, OneSlotPerInode, Caches
<1>6. SuperTyped'
  BY DEF Update, Inv, SuperTyped, scan
<1>7. RestTyped'
  BY DEF Update, Inv, RestTyped, SuperTyped, IsList
<1> QED BY <1>4, <1>5, <1>6, <1>7 DEF Inv

(* All slots are spare, and listed. *)
LEMMA AllSpare ==
  Caches => /\ AllFree \in Seq(Slots) /\ Distinct(AllFree)
            /\ \A s \in Slots : OnList(AllFree, s)
<1> SUFFICES ASSUME Caches PROVE /\ AllFree \in Seq(Slots) /\ Distinct(AllFree)
                                 /\ \A s \in Slots : OnList(AllFree, s)
  OBVIOUS
<1>1. AllFree = [n \in 1 .. NINODE |-> n - 1] /\ NINODE \in Nat
  BY Bounds DEF AllFree
<1>2. AllFree \in Seq(Slots) /\ Len(AllFree) = NINODE
  BY <1>1 DEF Slots
<1>3. Distinct(AllFree)
  BY <1>1, <1>2 DEF Distinct
<1>4. ASSUME NEW s \in Slots PROVE OnList(AllFree, s)
  <2>1. s + 1 \in 1 .. NINODE /\ AllFree[s + 1] = s
    BY <1>1 DEF Slots
  <2> QED BY <2>1, <1>2 DEF OnList
<1> QED BY <1>2, <1>3, <1>4

LEMMA CrashInv ==
  ASSUME Inv, Crash PROVE Inv'
<1>1. UNCHANGED <<kernel, dinode>>
  BY DEF Crash
<1>2. /\ number' = [s \in Slots |-> 0] /\ count' = [s \in Slots |-> 0]
      /\ used' = [s \in Slots |-> FALSE] /\ nlink' = [s \in Slots |-> 0]
      /\ updated' = [s \in Slots |-> FALSE] /\ ifree' = AllFree
  BY DEF Crash
<1>3. SlotsTyped'
  BY <1>1, <1>2, Bounds DEF Inv, SlotsTyped
<1>4. SpareListed'
  BY <1>1, <1>2, AllSpare DEF SpareListed, Caches
<1>5. SlotShape'
  BY <1>2, Bounds DEF SlotShape, OneSlotPerInode
<1>6. SuperTyped'
  <2>1. 1 \in Inos /\ 0 \in 0 .. Behind
    BY Kinds, Bounds
  <2>2. IsList(s_inode') /\ s_tinode' \in Int /\ s_fmod' = FALSE
    BY DEF Crash, Inv, RestTyped
  <2> QED BY <2>1, <2>2 DEF Crash, SuperTyped
<1>7. links' \in [Inos -> 0 .. MaxLinks]
  <2>1. \A i \in Inos : dinode[i].nlink \in 0 .. MaxLinks
    BY DinodeFields DEF Inv
  <2> QED BY <2>1, Bounds DEF Crash
<1>8. RestTyped'
  BY <1>1, <1>7 DEF Crash, Inv, RestTyped
<1> QED BY <1>3, <1>4, <1>5, <1>6, <1>8 DEF Inv

LEMMA InitInv == Init => Inv
<1> SUFFICES ASSUME Init PROVE Inv
  OBVIOUS
<1>1. SlotsTyped
  <2>1. [used |-> FALSE, nlink |-> 0] \in Dinodes
    BY Bounds DEF Dinodes
  <2> QED BY <2>1, Bounds DEF Init, SlotsTyped
<1>2. IsList(s_inode) /\ IsList(super.s_inode)
  <2>1. <<>> \in Seq(Inos \union {0}) /\ Len(<<>>) <= NICINOD
    BY Bounds
  <2> QED BY <2>1 DEF Init, IsList
<1>3. s_tinode \in Int /\ super.s_tinode \in Int
  <2>1. Cardinality(Inos) \in Int
    BY Kinds
  <2> QED BY <2>1 DEF Init
<1>4. SuperTyped
  <2>1. 1 \in Inos /\ 0 \in 0 .. Behind
    BY Kinds, Bounds
  <2> QED BY <2>1, <1>2, <1>3 DEF Init, SuperTyped
<1>5. RestTyped
  <2>1. links \in [Inos -> 0 .. MaxLinks]
    BY Bounds DEF Init
  <2> QED BY <2>1, <1>2, <1>3 DEF Init, RestTyped
<1>6. SpareListed
  BY AllSpare DEF Init, SpareListed
<1>7. SlotShape
  BY Bounds DEF Init, SlotShape, OneSlotPerInode
<1> QED BY <1>1, <1>4, <1>5, <1>6, <1>7 DEF Inv

LEMMA NextInv == Inv /\ [Next]_vars => Inv'
<1> SUFFICES ASSUME Inv, [Next]_vars PROVE Inv'
  OBVIOUS
<1>1. CASE UNCHANGED vars
  BY <1>1 DEF vars, slot, sb, scan, Inv, SlotsTyped, SuperTyped, RestTyped, SpareListed, SlotShape,
              OneSlotPerInode, Caches
<1>2. ASSUME NEW i \in Inos, Lookup(i) PROVE Inv'
  BY <1>2, LookupInv
<1>3. ASSUME NEW s \in Slots, Iput(s) PROVE Inv'
  BY <1>3, IputInv
<1>4. ASSUME NEW s \in Slots, NEW by \in {-1, 1}, Relink(s, by) PROVE Inv'
  BY <1>4, RelinkInv
<1>5. CASE CallIalloc
  BY <1>5 DEF CallIalloc, slot, sb, scan, Inv, SlotsTyped, SuperTyped, RestTyped, SpareListed,
              SlotShape, OneSlotPerInode, Caches
<1>6. CASE Ialloc
  BY <1>6, PopLowInv, PopTakenInv, PopNoSlotInv, PopErrorInv, PopFreeInv, RefillInv DEF Ialloc
<1> QED BY <1>1, <1>2, <1>3, <1>4, <1>5, <1>6, UpdateInv, CrashInv DEF Next

-----------------------------------------------------------------------------
(* Types, and the slots.                                                   *)

(* A list without repetitions is as long as what is on it. *)
LEMMA ListLength ==
  ASSUME NEW S, IsFiniteSet(S), NEW list \in Seq(S), Distinct(list)
  PROVE  /\ ToSet(list) = {x \in S : OnList(list, x)}
         /\ Len(list) = Cardinality({x \in S : OnList(list, x)})
<1> DEFINE T == {x \in S : OnList(list, x)}
           m == Len(list)
<1>1. m \in Nat /\ list \in [1 .. m -> S]
  BY LenProperties
<1>2. ToSet(list) = T
  BY <1>1 DEF ToSet, OnList
<1>3. IsFiniteSet(T)
  BY FS_Subset
<1>4. list \in [1 .. m -> T]
  BY <1>1 DEF OnList
<1>5. IsInjective(list)
  BY <1>1 DEF Distinct, IsInjective
<1>6. \A x \in T : \E k \in 1 .. m : list[k] = x
  BY DEF OnList
<1> HIDE DEF T, m
<1>7. list \in Bijection(1 .. m, T)
  BY <1>4, <1>5, <1>6 DEF Bijection, Injection, Surjection
<1>8. Cardinality(T) = m
  BY <1>1, <1>7, FS_CountingElements DEF ExistsBijection
<1> QED BY <1>2, <1>8 DEF T, m

LEMMA TypeFacts == Inv => TypeOK /\ OneSlotPerInode
<1> SUFFICES ASSUME Inv PROVE TypeOK /\ OneSlotPerInode
  OBVIOUS
<1>1. Caches => ToSet(ifree) = Spare /\ Len(ifree) = Cardinality(Spare)
  <2>1. IsFiniteSet(Slots)
    BY Bounds, FS_Interval DEF Slots
  <2>2. Caches => {s \in Slots : OnList(ifree, s)} = Spare
    BY DEF Inv, SpareListed, Spare
  <2> QED BY <2>1, <2>2, ListLength DEF Inv, SpareListed
<1>2. \A list \in {s_inode, super.s_inode} :
        list \in Seq(Inos \union {0}) /\ Len(list) <= NICINOD
  BY DEF Inv, SuperTyped, RestTyped, IsList
<1> QED BY <1>1, <1>2 DEF Inv, SlotsTyped, SuperTyped, RestTyped, SlotShape, TypeOK

(* Whatever fails and whenever the process dies, every field of a slot, of *)
(* the superblock and of the inodes on disk keeps its range: the lists     *)
(* never outgrow the superblock, no reference count or link count runs     *)
(* over, and 2.11BSD's free list holds exactly the spare slots.            *)
THEOREM TypeCorrect == Spec => []TypeOK
BY InitInv, NextInv, TypeFacts, PTL DEF Spec

(* iget, iput and ialloc, after errors and crashes too, never give one     *)
(* inode two slots, from which it would be changed and written twice.      *)
THEOREM InodeHasOneSlot == Spec => []OneSlotPerInode
BY InitInv, NextInv, TypeFacts, PTL DEF Spec

-----------------------------------------------------------------------------
(* A file that is named keeps its inode.                                   *)

LEMMA ReleasesLinked ==
  ASSUME Inv, LinksKept, ~StaleIput, links' = links,
         NEW s \in Slots, NEW i \in Inos \union {0}, NEW u \in BOOLEAN,
         NEW n \in 0 .. MaxLinks, NEW changed \in BOOLEAN, NEW list, IsList(list),
         NEW tinode \in Int, i # 0 => \A t \in Slots \ {s} : number[t] # i,
         i # 0 /\ ~changed => dinode[i] = [used |-> u, nlink |-> n],
         i # 0 /\ links[i] > 0 => u /\ n = links[i],
         number[s] = i \/ count[s] = 0,
         LastIput(s, i, u, n, changed, list, tinode), kernel' = kernel
  PROVE  LinksKept'
<1>1. /\ number' = [number EXCEPT ![s] = IF Caches THEN i ELSE 0]
      /\ count' = [count EXCEPT ![s] = 0]
      /\ used' = [used EXCEPT ![s] = Caches /\ u /\ n > 0]
      /\ Caches => nlink' = [nlink EXCEPT ![s] = n]
  BY DEF LastIput
<1>2. /\ \A j \in Inos \ {i} : dinode'[j] = dinode[j]
      /\ i # 0 => dinode'[i] = IF changed \/ n <= 0 THEN [used |-> u /\ n > 0, nlink |-> n]
                               ELSE dinode[i]
  BY Kinds DEF LastIput, Inv, SlotsTyped, Updated
<1>3. ASSUME NEW t \in Slots \ {s}
      PROVE  /\ number'[t] = number[t] /\ count'[t] = count[t] /\ used'[t] = used[t]
             /\ nlink'[t] = nlink[t]
  BY <1>1 DEF LastIput, Inv, SlotsTyped
<1>4. /\ number'[s] = (IF Caches THEN i ELSE 0) /\ count'[s] = 0
      /\ used'[s] <=> Caches /\ u /\ n > 0
      /\ Caches => nlink'[s] = n
  BY <1>1 DEF Inv, SlotsTyped
<1>5. \A j \in Inos : links[j] \in 0 .. MaxLinks
  BY DEF Inv, RestTyped
<1>6. ASSUME NEW t \in Slots
      PROVE  /\ count'[t] > 0 => used'[t]
             /\ number'[t] # 0 /\ links[number'[t]] > 0
                  => used'[t] /\ nlink'[t] = links[number'[t]]
  <2>1. CASE t # s
    BY <2>1, <1>3 DEF LinksKept
  <2>2. CASE t = s
    BY <2>2, <1>4, <1>5, Bounds
  <2> QED BY <2>1, <2>2
<1>7. ASSUME NEW j \in Inos, Nowhere(j)', links[j] > 0
      PROVE  dinode'[j] = [used |-> TRUE, nlink |-> links[j]]
  <2>1. CASE j = i
    <3>1. u /\ n = links[j] /\ n > 0 /\ ~(n <= 0) /\ i # 0
      BY <2>1, <1>7, <1>5, Bounds, Kinds
    <3>2. changed => dinode'[i] = [used |-> TRUE, nlink |-> n]
      BY <3>1, <1>2
    <3>3. ~changed => dinode'[i] = [used |-> TRUE, nlink |-> n]
      BY <3>1, <1>2
    <3> QED BY <3>1, <3>2, <3>3, <2>1
  <2>2. CASE j # i /\ Nowhere(j)
    BY <2>2, <1>2, <1>7 DEF LinksKept
  <2>3. CASE j # i /\ ~Nowhere(j)
    <3>1. number[s] = j
      BY <2>3, <1>3, <1>7 DEF Nowhere
    <3>2. count[s] = 0 /\ j # 0
      BY <3>1, <2>3, Kinds
    <3>3. dinode[j] = [used |-> used[s], nlink |-> nlink[s]]
      BY <3>1, <3>2 DEF Inv, SlotShape
    <3>4. used[s] /\ nlink[s] = links[j]
      BY <3>1, <3>2, <1>7 DEF LinksKept
    <3> QED BY <3>3, <3>4, <1>2, <2>3 DEF Inv, SlotsTyped
  <2> QED BY <2>1, <2>2, <2>3
<1> QED BY <1>6, <1>7 DEF LinksKept

LEMMA GetsLinked ==
  ASSUME Inv, LinksKept, ~StaleIput, NEW s \in Slots, NEW i \in Inos,
         number[s] = i \/ (count[s] = 0 /\ Nowhere(i)),
         NEW c \in Int, NEW u \in BOOLEAN, NEW n \in 0 .. MaxLinks, NEW changed \in BOOLEAN,
         NEW l \in 0 .. MaxLinks,
         Holds(s, i, c, u, n, changed), u, l > 0 => n = l,
         UNCHANGED <<kernel, dinode, happened>>, links' = [links EXCEPT ![i] = l]
  PROVE  LinksKept'
<1>1. ASSUME NEW t \in Slots \ {s}
      PROVE  /\ number'[t] = number[t] /\ count'[t] = count[t] /\ used'[t] = used[t]
             /\ nlink'[t] = nlink[t] /\ number[t] # i
  BY Kinds DEF Holds, Inv, SlotsTyped, SlotShape, OneSlotPerInode, Nowhere
<1>2. number'[s] = i /\ used'[s] /\ nlink'[s] = n /\ links'[i] = l
  BY DEF Holds, Inv, SlotsTyped, RestTyped
<1>3. \A j \in Inos \ {i} : links'[j] = links[j]
  BY DEF Inv, RestTyped
<1>4. ASSUME NEW t \in Slots
      PROVE  /\ count'[t] > 0 => used'[t]
             /\ number'[t] # 0 /\ links'[number'[t]] > 0
                  => used'[t] /\ nlink'[t] = links'[number'[t]]
  <2>1. CASE t # s
    <3>1. number[t] # 0 => number[t] \in Inos \ {i}
      BY <2>1, <1>1 DEF Inv, SlotsTyped
    <3> QED BY <3>1, <2>1, <1>1, <1>3 DEF LinksKept
  <2>2. CASE t = s
    BY <2>2, <1>2
  <2> QED BY <2>1, <2>2
<1>5. ASSUME NEW j \in Inos, Nowhere(j)', links'[j] > 0
      PROVE  dinode'[j] = [used |-> TRUE, nlink |-> links'[j]]
  <2>1. j # i /\ links'[j] = links[j]
    BY <1>2, <1>3, <1>5 DEF Nowhere
  <2>2. CASE Nowhere(j)
    BY <2>1, <2>2, <1>5 DEF LinksKept
  <2>3. CASE ~Nowhere(j)
    <3>1. number[s] = j
      BY <2>3, <1>1, <1>5 DEF Nowhere
    <3>2. count[s] = 0 /\ j # 0
      BY <3>1, <2>1, Kinds
    <3>3. dinode[j] = [used |-> used[s], nlink |-> nlink[s]]
      BY <3>1, <3>2 DEF Inv, SlotShape
    <3>4. used[s] /\ nlink[s] = links[j]
      BY <3>1, <3>2, <2>1, <1>5 DEF LinksKept
    <3> QED BY <3>3, <3>4, <2>1 DEF Inv, SlotsTyped
  <2> QED BY <2>2, <2>3
<1> QED BY <1>4, <1>5 DEF LinksKept

(* What ialloc believes is right. *)
LEMMA NotTaken ==
  ASSUME Inv, LinksKept, ~StaleIput, NEW i \in Inos, ~IsTaken(i)
  PROVE  links[i] = 0 /\ (InCore(i) => count[SlotOf(i)] = 0) /\ ~dinode[i].used
<1>1. links[i] \in Nat
  BY Bounds DEF Inv, RestTyped
<1>2. CASE InCore(i)
  <2>1. PICK s \in Slots : s = SlotOf(i) /\ number[s] = i
    BY <1>2, InItsSlot
  <2>2. ~used[s] /\ i # 0
    BY <1>2, <2>1, Kinds DEF IsTaken
  <2>3. count[s] = 0
    BY <2>2, Bounds DEF LinksKept, Inv, SlotsTyped
  <2>4. ~(links[i] > 0)
    BY <2>1, <2>2 DEF LinksKept
  <2>5. dinode[i] = [used |-> used[s], nlink |-> nlink[s]]
    BY <2>1, <2>2, <2>3 DEF Inv, SlotShape
  <2> QED BY <2>1, <2>2, <2>3, <2>4, <2>5, <1>1
<1>3. CASE ~InCore(i)
  <2>1. Nowhere(i) /\ ~dinode[i].used
    BY <1>3 DEF InCore, Nowhere, IsTaken
  <2>2. ASSUME links[i] > 0 PROVE FALSE
    <3>1. dinode[i] = [used |-> TRUE, nlink |-> links[i]]
      BY <2>1, <2>2 DEF LinksKept
    <3> QED BY <3>1, <2>1
  <2> QED BY <1>1, <1>3, <2>1, <2>2
<1> QED BY <1>2, <1>3

(* A read error, once it came, stays in the history: no step of V6 goes    *)
(* back to where its slots can be trusted.                                 *)
LEMMA StaleStays == Inv /\ StaleIput /\ [Next]_vars => StaleIput'
<1> SUFFICES ASSUME Inv, StaleIput, [Next]_vars PROVE StaleIput'
  OBVIOUS
<1>1. kernel' = kernel
  BY DEF Next, vars, Lookup, Iput, Relink, CallIalloc, Ialloc, PopLow, PopTaken, PopNoSlot,
         PopError, PopFree, Refill, OutOfInodes, Update, Crash
<1>2. happened # {}
  BY DEF StaleIput
<1>3. happened' = happened
  BY <1>2 DEF Next, vars, Lookup, IgetError, Iput, Relink, CallIalloc, Ialloc, PopLow, PopTaken,
     PopNoSlot, PopError, PopFree, Refill, OutOfInodes, Update, Crash
<1> QED BY <1>1, <1>3 DEF StaleIput

(* iget's failures: 2.9BSD touches nothing, 2.11BSD releases a slot that   *)
(* then stands for no inode.                                               *)
LEMMA IgetErrorLinked ==
  ASSUME Inv, LinksKept, ~StaleIput, NEW i \in Inos, NEW list, IsList(list),
         IgetError(i, list), UNCHANGED <<kernel, links>>
  PROVE  LinksKept'
<1>1. CASE kernel = "29"
  BY <1>1 DEF IgetError, slot, LinksKept, StaleIput, Nowhere
<1>2. CASE kernel = "v6"
  BY <1>2 DEF IgetError, LinksKept, StaleIput
<1>3. CASE kernel = "211"
  <2>1. PICK s \in Slots : s = Oldest /\ count[s] = 0
    BY OldestIsSpare DEF IgetError, Inv
  <2>2. PICK j \in Inos \union {0}, u \in BOOLEAN, n \in 0 .. MaxLinks, t \in Int,
             ch \in BOOLEAN : j = 0 /\ u = used[s] /\ n = nlink[s] /\ t = s_tinode /\ ch = FALSE
    BY DEF Inv, SlotsTyped, SuperTyped
  <2>3. LastIput(s, j, u, n, ch, list, t) /\ kernel' = kernel /\ links' = links
    BY <1>3, <2>1, <2>2 DEF IgetError, Caches
  <2> QED BY <2>1, <2>2, <2>3, ReleasesLinked
<1> QED BY <1>1, <1>2, <1>3, InodeTableAssumption DEF Inv, SlotsTyped

LEMMA LookupLinked ==
  ASSUME Inv, LinksKept, ~StaleIput, NEW i \in Inos, Lookup(i)
  PROVE  LinksKept'
<1>1. links[i] \in 0 .. MaxLinks /\ links[i] > 0 /\ links' = [links EXCEPT ![i] = links[i]]
  BY DEF Lookup, Inv, RestTyped
<1>2. CASE IgetCached(i) /\ UNCHANGED <<dinode, sb, happened>>
  <2>1. PICK s \in Slots :
          /\ number[s] = i /\ Holds(s, i, count[s] + 1, used[s], nlink[s], updated[s])
    BY <1>2, IgetCachedHolds
  <2>2. used[s] = TRUE /\ nlink[s] = links[i]
    BY <2>1, <1>1, Kinds DEF LinksKept, Inv, SlotsTyped
  <2>3. PICK c \in Int, u \in BOOLEAN, n \in 0 .. MaxLinks, ch \in BOOLEAN, l \in 0 .. MaxLinks :
          c = count[s] + 1 /\ u = used[s] /\ n = nlink[s] /\ ch = updated[s] /\ l = links[i]
    BY <1>1, Bounds DEF Inv, SlotsTyped
  <2>4. Holds(s, i, c, u, n, ch) /\ links' = [links EXCEPT ![i] = l]
    BY <1>1, <2>1, <2>3
  <2>5. u /\ (l > 0 => n = l) /\ UNCHANGED <<kernel, dinode, happened>>
    BY <2>2, <2>3, <1>2 DEF Lookup
  <2> QED BY <2>1, <2>4, <2>5, GetsLinked
<1>3. CASE IgetRead(i) /\ UNCHANGED <<dinode, sb, happened>>
  <2>1. PICK s \in Slots :
          /\ Nowhere(i) /\ count[s] = 0
          /\ Holds(s, i, 1, dinode[i].used, dinode[i].nlink, FALSE)
    BY <1>3, IgetReadHolds
  <2>2. dinode[i] = [used |-> TRUE, nlink |-> links[i]]
    BY <2>1, <1>1 DEF LinksKept
  <2>3. PICK c \in Int, u \in BOOLEAN, n \in 0 .. MaxLinks, ch \in BOOLEAN, l \in 0 .. MaxLinks :
          c = 1 /\ u = TRUE /\ n = links[i] /\ ch = FALSE /\ l = links[i]
    <3>1. 1 \in Int /\ TRUE \in BOOLEAN /\ FALSE \in BOOLEAN
      OBVIOUS
    <3> QED BY <3>1, <1>1, Zenon
  <2>4. dinode[i].used = TRUE /\ dinode[i].nlink = links[i]
    BY <2>2
  <2>5. Holds(s, i, c, u, n, ch) /\ links' = [links EXCEPT ![i] = l]
    BY <1>1, <2>1, <2>3, <2>4, Zenon
  <2>6. u /\ (l > 0 => n = l) /\ UNCHANGED <<kernel, dinode, happened>>
    BY <2>3, <1>3 DEF Lookup
  <2>7. number[s] = i \/ (count[s] = 0 /\ Nowhere(i))
    BY <2>1
  <2> QED BY <2>5, <2>6, <2>7, GetsLinked
<1>4. CASE IgetError(i, s_inode)
  BY <1>4, IgetErrorLinked DEF Lookup, Inv, SuperTyped
<1> QED BY <1>2, <1>3, <1>4 DEF Lookup

LEMMA IputLinked ==
  ASSUME Inv, LinksKept, ~StaleIput, NEW s \in Slots, Iput(s)
  PROVE  LinksKept'
<1>1. CASE /\ count[s] = 1
           /\ LastIput(s, number[s], used[s], nlink[s], updated[s], s_inode, s_tinode)
  <2>1. PICK j \in Inos \union {0}, u \in BOOLEAN, n \in 0 .. MaxLinks, t \in Int,
             ch \in BOOLEAN :
          j = number[s] /\ u = used[s] /\ n = nlink[s] /\ t = s_tinode /\ ch = updated[s]
    BY DEF Inv, SlotsTyped, SuperTyped
  <2>2. /\ j # 0 => \A r \in Slots \ {s} : number[r] # j
        /\ j # 0 /\ ~ch => dinode[j] = [used |-> u, nlink |-> n]
        /\ j # 0 /\ links[j] > 0 => u /\ n = links[j]
    BY <2>1 DEF Inv, SlotShape, OneSlotPerInode, LinksKept
  <2>3. LastIput(s, j, u, n, ch, s_inode, t) /\ IsList(s_inode) /\ kernel' = kernel
        /\ links' = links
    BY <1>1, <2>1 DEF Iput, Inv, SuperTyped
  <2> QED BY <2>1, <2>2, <2>3, ReleasesLinked
<1>2. CASE /\ count[s] > 1 /\ count' = [count EXCEPT ![s] = @ - 1]
           /\ UNCHANGED <<number, used, nlink, updated, ifree, dinode, sb>>
  <2>1. \A t \in Slots : count'[t] > 0 => count[t] > 0
    BY <1>2, Bounds DEF Inv, SlotsTyped
  <2> QED BY <2>1, <1>2 DEF Iput, LinksKept, StaleIput, Nowhere
<1> QED BY <1>1, <1>2 DEF Iput

LEMMA RelinkLinked ==
  ASSUME Inv, LinksKept, ~StaleIput, NEW s \in Slots, NEW by \in {-1, 1}, Relink(s, by)
  PROVE  /\ LinksKept'
         /\ number[s] \in Inos /\ nlink'[s] = links'[number[s]] /\ count[s] > 0
         /\ \A t \in Slots \ {s} : nlink'[t] = nlink[t] /\ number[t] # number[s]
         /\ \A j \in Inos \ {number[s]} : links'[j] = links[j]
<1>1. number[s] \in Inos /\ number[s] # 0 /\ count[s] > 0
  <2>1. count[s] > 0
    BY DEF Relink
  <2> QED BY <2>1, HeldIs
<1>2. links[number[s]] > 0 /\ used[s] /\ nlink[s] = links[number[s]]
  BY <1>1 DEF Relink, LinksKept
<1>3. /\ nlink'[s] = nlink[s] + by /\ links'[number[s]] = links[number[s]] + by
      /\ \A t \in Slots \ {s} : nlink'[t] = nlink[t]
      /\ \A j \in Inos \ {number[s]} : links'[j] = links[j]
  BY <1>1 DEF Relink, Inv, SlotsTyped, RestTyped
<1>4. \A t \in Slots \ {s} : number[t] # number[s]
  BY <1>1 DEF Inv, SlotShape, OneSlotPerInode
<1>5. UNCHANGED <<kernel, number, count, used, dinode, happened>>
  BY DEF Relink
<1>6. ASSUME NEW t \in Slots, number[t] # 0, links'[number[t]] > 0
      PROVE  used[t] /\ nlink'[t] = links'[number[t]]
  <2>1. CASE t = s
    BY <2>1, <1>2, <1>3
  <2>2. CASE t # s
    <3>1. number[t] \in Inos \ {number[s]}
      BY <2>2, <1>4, <1>6 DEF Inv, SlotsTyped
    <3> QED BY <3>1, <2>2, <1>3, <1>6 DEF LinksKept
  <2> QED BY <2>1, <2>2
<1>7. ASSUME NEW i \in Inos, Nowhere(i), links'[i] > 0
      PROVE  dinode[i] = [used |-> TRUE, nlink |-> links'[i]]
  BY <1>3, <1>7 DEF Nowhere, LinksKept
<1>8. LinksKept'
  BY <1>5, <1>6, <1>7 DEF LinksKept, Nowhere
<1> QED BY <1>1, <1>2, <1>3, <1>4, <1>8

(* The inodes ialloc refuses keep their links: what iput then writes, if   *)
(* it writes, is what the disk holds.                                      *)
LEMMA PopTakenLinked ==
  ASSUME Inv, LinksKept, ~StaleIput, PopTaken
  PROVE  LinksKept'
<1>1. Popped \in Inos /\ IsList(Rest) /\ links' = links /\ kernel' = kernel /\ happened' = happened
  BY Pops DEF PopTaken, Inv
<1>2. CASE UNCHANGED <<slot, dinode>>
  BY <1>1, <1>2 DEF slot, LinksKept, StaleIput, Nowhere
<1>3. CASE /\ InCore(Popped) => count[SlotOf(Popped)] = 0
           /\ Spare # {}
           /\ LastIput(SlotFor(Popped), Popped, TRUE, dinode[Popped].nlink, FALSE, Rest, s_tinode)
  <2>1. PICK s \in Slots, j \in Inos, u \in BOOLEAN, n \in 0 .. MaxLinks, t \in Int,
             ch \in BOOLEAN :
          /\ s = SlotFor(Popped) /\ j = Popped /\ u = TRUE /\ n = dinode[Popped].nlink
          /\ t = s_tinode /\ ch = FALSE
    <3>1. SlotFor(Popped) \in Slots
      BY <1>1, <1>3, SlotForIt DEF Inv, SlotShape
    <3>2. dinode[Popped].nlink \in 0 .. MaxLinks
      BY <1>1, DinodeFields DEF Inv
    <3>3. s_tinode \in Int /\ TRUE \in BOOLEAN /\ FALSE \in BOOLEAN
      BY DEF Inv, SuperTyped
    <3> QED BY <3>1, <3>2, <3>3, <1>1, Zenon
  <2>2. \A r \in Slots \ {s} : number[r] # j
    BY <1>1, <1>3, <2>1, SlotForIt DEF Inv, SlotShape
  <2>3. dinode[j] = [used |-> u, nlink |-> n]
    BY <1>1, <1>3, <2>1, TakenOnDisk DEF PopTaken
  <2>4. links[j] > 0 => n = links[j]
    <3>1. CASE InCore(j)
      <4>1. SlotOf(j) \in Slots /\ number[SlotOf(j)] = j /\ count[SlotOf(j)] = 0 /\ j # 0
        BY <1>3, <2>1, <3>1, InItsSlot, Kinds
      <4>2. dinode[j] = [used |-> used[SlotOf(j)], nlink |-> nlink[SlotOf(j)]]
        BY <4>1 DEF Inv, SlotShape
      <4>3. links[j] > 0 => nlink[SlotOf(j)] = links[j]
        BY <4>1 DEF LinksKept
      <4> QED BY <4>2, <4>3, <2>3
    <3>2. CASE ~InCore(j)
      <4>1. links[j] > 0 => dinode[j] = [used |-> TRUE, nlink |-> links[j]]
        BY <3>2 DEF InCore, Nowhere, LinksKept
      <4> QED BY <4>1, <2>3
    <3> QED BY <3>1, <3>2
  <2>5. LastIput(s, j, u, n, ch, Rest, t)
    BY <1>3, <2>1
  <2>6. number[s] = j \/ count[s] = 0
    BY <1>1, <1>3, <2>1, SlotForIt DEF Inv, SlotShape
  <2> QED BY <2>1, <2>2, <2>3, <2>4, <2>5, <2>6, <1>1, ReleasesLinked
<1> QED BY <1>2, <1>3 DEF PopTaken, SlotFor

LEMMA PopFreeLinked ==
  ASSUME Inv, LinksKept, ~StaleIput, PopFree
  PROVE  /\ LinksKept'
         /\ \A i \in Inos : answer' = i =>
              links[i] = 0 /\ (InCore(i) => count[SlotOf(i)] = 0) /\ ~dinode[i].used
<1>1. Popped \in Inos /\ IsList(Rest) /\ Taken \in Int /\ UNCHANGED <<kernel, happened>>
  BY Pops DEF PopFree, Inv, SuperTyped, Taken
<1>2. PICK s \in Slots, i \in Inos : s = SlotFor(Popped) /\ i = Popped
  BY <1>1, SlotForIt DEF PopFree, Inv, SlotShape
<1>3. links[i] = 0 /\ (InCore(i) => count[SlotOf(i)] = 0) /\ ~dinode[i].used
  BY <1>2, NotTaken DEF PopFree
<1>4. /\ number[s] = i \/ (count[s] = 0 /\ Nowhere(i))
      /\ count[s] = 0
      /\ \A t \in Slots \ {s} : number[t] # i
  BY <1>2, <1>3, SlotForIt DEF PopFree, SlotFor, Inv, SlotShape
<1>5. CASE MakeNode(s, i) /\ links' = [links EXCEPT ![i] = 1] /\ Return(i) /\ UNCHANGED dinode
  <2>1. PICK c \in Int, u \in BOOLEAN, n \in 0 .. MaxLinks, ch \in BOOLEAN :
          c = count[s] + 1 /\ u = TRUE /\ n = 1 /\ ch = TRUE
    <3>1. count[s] + 1 \in Int /\ 1 \in 0 .. MaxLinks
      BY <1>4, Bounds
    <3> QED BY <3>1, Zenon
  <2>2. Holds(s, i, c, u, n, ch)
    BY <1>5, <2>1 DEF MakeNode, Holds
  <2>3. /\ u /\ (n > 0 => n = n) /\ links' = [links EXCEPT ![i] = n]
        /\ UNCHANGED <<kernel, dinode, happened>>
    BY <1>1, <1>5, <2>1
  <2>4. LinksKept'
    BY <1>4, <2>2, <2>3, GetsLinked
  <2> QED BY <2>4, <1>3, <1>5 DEF Return
<1>6. CASE LastIput(s, i, TRUE, 0, TRUE, Rest, Taken) /\ Return(NONE) /\ UNCHANGED links
  <2>1. PICK j \in Inos \union {0}, u \in BOOLEAN, n \in 0 .. MaxLinks, t \in Int, ch \in BOOLEAN :
          j = i /\ u = TRUE /\ n = 0 /\ t = Taken /\ ch = TRUE
    <3>1. 0 \in 0 .. MaxLinks
      BY Bounds
    <3> QED BY <3>1, <1>1, Zenon
  <2>2. LastIput(s, j, u, n, ch, Rest, t)
    BY <1>6, <2>1
  <2>3. /\ j # 0 => \A r \in Slots \ {s} : number[r] # j
        /\ j # 0 /\ ~ch => dinode[j] = [used |-> u, nlink |-> n]
        /\ j # 0 /\ links[j] > 0 => u /\ n = links[j]
        /\ number[s] = j \/ count[s] = 0
    BY <1>3, <1>4, <2>1
  <2>4. LinksKept'
    BY <1>1, <1>6, <2>2, <2>3, ReleasesLinked
  <2> QED BY <2>4, <1>6, NoAnswerIsAnInode DEF Return
<1> QED BY <1>2, <1>4, <1>5, <1>6 DEF PopFree, SlotFor

LEMMA UpdateLinked ==
  ASSUME Inv, Update
  PROVE  \A i \in Inos : Nowhere(i) => dinode'[i] = dinode[i]
BY DEF Update, InCore, Nowhere

LEMMA CrashLinked ==
  ASSUME Inv, Crash
  PROVE  LinksKept'
<1>1. ASSUME NEW i \in Inos, links'[i] > 0
      PROVE  dinode'[i] = [used |-> TRUE, nlink |-> links'[i]]
  <2>1. links'[i] = (IF dinode[i].used THEN dinode[i].nlink ELSE 0) /\ dinode' = dinode
    BY DEF Crash
  <2>2. dinode[i].used = TRUE /\ links'[i] = dinode[i].nlink
    BY <2>1, <1>1, DinodeFields DEF Inv
  <2>3. dinode[i] = [used |-> dinode[i].used, nlink |-> dinode[i].nlink]
    BY DinodeFields DEF Inv
  <2> QED BY <2>1, <2>2, <2>3, Zenon
<1>2. \A s \in Slots : number'[s] = 0 /\ count'[s] = 0
  BY DEF Crash
<1> QED BY <1>1, <1>2 DEF LinksKept

LEMMA LinksInv ==
  /\ Init => LinksKept
  /\ Inv /\ LinksKept /\ [Next]_vars => LinksKept'
<1>1. Init => LinksKept
  BY DEF Init, LinksKept
<1>2. SUFFICES ASSUME Inv, LinksKept, [Next]_vars PROVE LinksKept'
  BY <1>1
<1>3. CASE StaleIput
  BY <1>2, <1>3, StaleStays DEF LinksKept
<1>4. CASE ~StaleIput
  <2>1. CASE UNCHANGED vars
    BY <2>1, <1>2 DEF vars, slot, LinksKept, StaleIput, Nowhere
  <2>2. ASSUME NEW i \in Inos, Lookup(i) PROVE LinksKept'
    BY <2>2, <1>2, <1>4, LookupLinked
  <2>3. ASSUME NEW s \in Slots, Iput(s) PROVE LinksKept'
    BY <2>3, <1>2, <1>4, IputLinked
  <2>4. ASSUME NEW s \in Slots, NEW by \in {-1, 1}, Relink(s, by) PROVE LinksKept'
    BY <2>4, <1>2, <1>4, RelinkLinked
  <2>5. CASE CallIalloc \/ PopLow \/ PopNoSlot \/ Refill \/ OutOfInodes
    BY <2>5, <1>2 DEF CallIalloc, PopLow, PopNoSlot, Refill, OutOfInodes, slot, LinksKept, StaleIput,
                  Nowhere
  <2>6. CASE PopError
    <3>1. Popped \in Inos /\ IsList(Rest)
      BY <2>6, <1>2, Pops DEF PopError, Inv
    <3> QED BY <2>6, <3>1, <1>2, <1>4, IgetErrorLinked DEF PopError
  <2>7. CASE Update
    <3>1. UNCHANGED <<kernel, slot, links, happened>>
      BY <2>7 DEF Update
    <3> QED BY <2>7, <3>1, <1>2, UpdateLinked DEF slot, LinksKept, StaleIput, Nowhere
  <2> QED BY <2>1, <2>2, <2>3, <2>4, <2>5, <2>6, <2>7, <1>2, <1>4, PopTakenLinked, PopFreeLinked,
             CrashLinked DEF Next, Ialloc
<1> QED BY <1>3, <1>4

LEMMA LinksFact == Inv /\ LinksKept => LinkedIsKept
<1> SUFFICES ASSUME Inv, LinksKept, ~StaleIput, NEW i \in Inos, links[i] > 0
             PROVE  IF InCore(i) THEN used[SlotOf(i)] /\ nlink[SlotOf(i)] = links[i]
                    ELSE dinode[i] = [used |-> TRUE, nlink |-> links[i]]
  BY DEF LinkedIsKept
<1>1. CASE InCore(i)
  BY <1>1, InItsSlot, Kinds DEF LinksKept
<1>2. CASE ~InCore(i)
  BY <1>2 DEF InCore, Nowhere, LinksKept
<1> QED BY <1>1, <1>2

(* While a directory names a file, no release, reallocation, update, error *)
(* (but V6's stale iput) or crash frees its inode, and the link count that *)
(* the slot or the disk has is the number of its directory entries.        *)
THEOREM NamedIsKept == Spec => []LinkedIsKept
<1>1. Inv /\ LinksKept /\ [Next]_vars => (Inv /\ LinksKept)'
  BY NextInv, LinksInv
<1>2. Init => Inv /\ LinksKept
  BY InitInv, LinksInv
<1> QED BY <1>1, <1>2, LinksFact, PTL DEF Spec

LEMMA HandsOut ==
  Inv /\ LinksKept /\ [Next]_vars =>
    [\A i \in Inos : answer' = i /\ ~StaleIput =>
        links[i] = 0 /\ (InCore(i) => count[SlotOf(i)] = 0) /\ ~dinode[i].used]_vars
<1> SUFFICES ASSUME Inv, LinksKept, Next, NEW i \in Inos, answer' = i, ~StaleIput
             PROVE  links[i] = 0 /\ (InCore(i) => count[SlotOf(i)] = 0) /\ ~dinode[i].used
  OBVIOUS
<1>1. i \notin {NONE, ENFILE, ENOSPC}
  BY NoAnswerIsAnInode
<1>2. PopFree
  BY <1>1 DEF Next, Lookup, Iput, Relink, CallIalloc, Ialloc, Return, PopLow, PopTaken, PopNoSlot,
         PopError, Refill, OutOfInodes, Update, Crash
<1> QED BY <1>2, PopFreeLinked

(* ialloc hands out an inode only when no directory names it, nobody holds *)
(* it and it is free on disk, however stale or repeated the superblock's   *)
(* list is: what it checks of a slot or of the disk is enough.             *)
THEOREM OnlyFreeHandedOut == Spec => HandsOutFreeOnly
<1>1. Inv /\ LinksKept /\ [Next]_vars => (Inv /\ LinksKept)'
  BY NextInv, LinksInv
<1>2. Init => Inv /\ LinksKept
  BY InitInv, LinksInv
<1> QED BY <1>1, <1>2, HandsOut, PTL DEF Spec, HandsOutFreeOnly

LEMMA GivesUp ==
  Inv /\ [Next]_vars => [answer' = ENOSPC => \A i \in Inos : dinode[i].used \/ InCore(i)]_vars
<1> SUFFICES ASSUME Inv, Next, answer' = ENOSPC, NEW i \in Inos
             PROVE  dinode[i].used \/ InCore(i)
  OBVIOUS
<1>1. ENOSPC # NONE /\ ENOSPC # ENFILE /\ ENOSPC \notin Inos
  BY NoAnswerIsAnInode
<1>2. ~PopFree
  <2>1. SUFFICES ASSUME PopFree PROVE FALSE
    OBVIOUS
  <2>2. Popped \in Inos
    BY <2>1, Pops DEF PopFree, Inv
  <2> QED BY <2>1, <2>2, <1>1 DEF PopFree, Return
<1> QED BY <1>1, <1>2 DEF Next, Lookup, Iput, Relink, CallIalloc, Ialloc, Return, PopLow, PopTaken,
      PopNoSlot, PopError, Refill, OutOfInodes, Update, Crash, Free

(* ialloc says that there is no space only when every inode is in use on   *)
(* disk or in core, wherever its list and its scan have come.              *)
THEOREM FullBeforeNoSpace == Spec => GivesUpOnlyWhenFull
BY InitInv, NextInv, GivesUp, PTL DEF Spec, GivesUpOnlyWhenFull

-----------------------------------------------------------------------------
(* A file that no directory names and nobody holds is free, and counted.   *)

(* Of all inodes but i, what ialloc would believe stays; of i it is u. *)
TakenBut(i, u) == \A j \in Inos : IsTaken(j)' <=> IF j = i THEN u ELSE IsTaken(j)

LEMMA TakenIs ==
  ASSUME OneSlotPerInode, NEW i \in Inos
  PROVE  /\ \A s \in Slots : number[s] = i => (IsTaken(i) <=> used[s])
         /\ Nowhere(i) => (IsTaken(i) <=> dinode[i].used)
<1>1. i # 0
  BY Kinds
<1>2. ASSUME NEW s \in Slots, number[s] = i PROVE IsTaken(i) <=> used[s]
  BY <1>1, <1>2, SlotOfIt DEF IsTaken
<1>3. ASSUME Nowhere(i) PROVE IsTaken(i) <=> dinode[i].used
  BY <1>3 DEF IsTaken, InCore, Nowhere
<1> QED BY <1>2, <1>3

LEMMA TakenIsNext ==
  ASSUME OneSlotPerInode', NEW i \in Inos
  PROVE  /\ \A s \in Slots : number'[s] = i => (IsTaken(i)' <=> used'[s])
         /\ (\A s \in Slots : number'[s] # i) => (IsTaken(i)' <=> dinode'[i].used)
<1>1. i # 0
  BY Kinds
<1>2. ASSUME NEW s \in Slots, number'[s] = i PROVE IsTaken(i)' <=> used'[s]
  <2>1. InCore(i)'
    BY <1>2 DEF InCore
  <2>2. SlotOf(i)' = s
    BY <1>1, <1>2 DEF SlotOf, OneSlotPerInode
  <2> QED BY <2>1, <2>2 DEF IsTaken
<1>3. ASSUME \A s \in Slots : number'[s] # i PROVE IsTaken(i)' <=> dinode'[i].used
  BY <1>3 DEF IsTaken, InCore
<1> QED BY <1>2, <1>3

LEMMA ReleasesTaken ==
  ASSUME Inv, Inv', NEW s \in Slots, NEW i \in Inos \union {0}, NEW u \in BOOLEAN,
         NEW n \in 0 .. MaxLinks, NEW changed \in BOOLEAN, NEW list, IsList(list),
         NEW tinode \in Int, i # 0 => \A t \in Slots \ {s} : number[t] # i,
         i # 0 /\ ~changed => dinode[i] = [used |-> u, nlink |-> n],
         number[s] = i \/ count[s] = 0,
         LastIput(s, i, u, n, changed, list, tinode)
  PROVE  TakenBut(i, u /\ n > 0)
<1>1. number'[s] = (IF Caches THEN i ELSE 0) /\ (used'[s] <=> Caches /\ u /\ n > 0)
  BY DEF LastIput, Inv, SlotsTyped
<1>2. /\ \A j \in Inos \ {i} : dinode'[j] = dinode[j]
      /\ i # 0 => dinode'[i] = IF changed \/ n <= 0 THEN [used |-> u /\ n > 0, nlink |-> n]
                               ELSE dinode[i]
  BY Kinds DEF LastIput, Inv, SlotsTyped, Updated
<1>3. \A t \in Slots \ {s} : number'[t] = number[t] /\ used'[t] = used[t]
  BY DEF LastIput, Inv, SlotsTyped
<1>4. OneSlotPerInode /\ OneSlotPerInode'
  BY DEF Inv, SlotShape
<1>5. ASSUME NEW j \in Inos, j # i PROVE IsTaken(j)' <=> IsTaken(j)
  <2>0. j # 0 /\ number'[s] # j
    BY Kinds, <1>1, <1>5
  <2>1. CASE \E t \in Slots \ {s} : number[t] = j
    BY <2>1, <1>3, <1>4, TakenIs, TakenIsNext
  <2>2. CASE (\A t \in Slots \ {s} : number[t] # j) /\ number[s] = j
    <3>1. count[s] = 0
      BY <2>2, <1>5
    <3>2. dinode[j] = [used |-> used[s], nlink |-> nlink[s]]
      BY <2>0, <2>2, <3>1 DEF Inv, SlotShape
    <3>3. dinode'[j].used = used[s]
      BY <1>2, <1>5, <3>2
    <3>4. \A t \in Slots : number'[t] # j
      BY <2>0, <2>2, <1>3
    <3> QED BY <2>2, <3>3, <3>4, <1>4, TakenIs, TakenIsNext
  <2>3. CASE \A t \in Slots : number[t] # j
    <3>1. \A t \in Slots : number'[t] # j
      BY <2>0, <2>3, <1>3
    <3>2. dinode'[j] = dinode[j]
      BY <1>2, <1>5
    <3> QED BY <2>3, <3>1, <3>2, <1>4, TakenIs, TakenIsNext DEF Nowhere
  <2> QED BY <2>1, <2>2, <2>3
<1>6. ASSUME i \in Inos PROVE IsTaken(i)' <=> u /\ n > 0
  <2>0. i # 0
    BY Kinds, <1>6
  <2>1. CASE Caches
    BY <2>1, <1>1, <1>4, <1>6, TakenIsNext
  <2>2. CASE ~Caches
    <3>1. \A t \in Slots : number'[t] # i
      BY <2>0, <2>2, <1>1, <1>3
    <3>2. dinode'[i].used <=> u /\ n > 0
      <4>1. CASE changed \/ n <= 0
        <5>1. dinode'[i] = [used |-> u /\ n > 0, nlink |-> n]
          BY <4>1, <2>0, <1>2, Zenon
        <5>2. PICK b \in BOOLEAN : b = (u /\ n > 0)
          OBVIOUS
        <5>3. dinode'[i] = [used |-> b, nlink |-> n]
          BY <5>1, <5>2, Zenon
        <5>4. dinode'[i].used = b
          BY <5>3
        <5> QED BY <5>2, <5>4
      <4>2. CASE ~(changed \/ n <= 0)
        <5>1. dinode'[i] = [used |-> u, nlink |-> n]
          BY <4>2, <2>0, <1>2
        <5>2. n > 0
          BY <4>2, Bounds
        <5> QED BY <5>1, <5>2
      <4> QED BY <4>1, <4>2
    <3> QED BY <3>1, <3>2, <1>4, <1>6, TakenIsNext
  <2> QED BY <2>1, <2>2
<1> QED BY <1>5, <1>6 DEF TakenBut

LEMMA GetsTaken ==
  ASSUME Inv, Inv', NEW s \in Slots, NEW i \in Inos, number[s] = i \/ (count[s] = 0 /\ Nowhere(i)),
         NEW c \in Int, NEW u \in BOOLEAN, NEW n \in 0 .. MaxLinks, NEW changed \in BOOLEAN,
         Holds(s, i, c, u, n, changed), dinode' = dinode
  PROVE  TakenBut(i, u)
<1>1. number'[s] = i /\ (used'[s] <=> u)
  BY DEF Holds, Inv, SlotsTyped
<1>2. \A t \in Slots \ {s} : number'[t] = number[t] /\ used'[t] = used[t]
  BY DEF Holds, Inv, SlotsTyped
<1>3. OneSlotPerInode /\ OneSlotPerInode'
  BY DEF Inv, SlotShape
<1>4. IsTaken(i)' <=> u
  BY <1>1, <1>3, TakenIsNext
<1>5. ASSUME NEW j \in Inos, j # i PROVE IsTaken(j)' <=> IsTaken(j)
  <2>1. CASE \E t \in Slots \ {s} : number[t] = j
    BY <2>1, <1>2, <1>3, TakenIs, TakenIsNext
  <2>2. CASE (\A t \in Slots \ {s} : number[t] # j) /\ number[s] = j
    <3>1. count[s] = 0 /\ j # 0
      BY <2>2, <1>5, Kinds
    <3>2. dinode[j] = [used |-> used[s], nlink |-> nlink[s]]
      BY <2>2, <3>1 DEF Inv, SlotShape
    <3>3. dinode'[j].used = used[s]
      BY <3>2
    <3>4. \A t \in Slots : number'[t] # j
      BY <2>2, <1>1, <1>2, <1>5
    <3> QED BY <2>2, <3>3, <3>4, <1>3, TakenIs, TakenIsNext
  <2>3. CASE \A t \in Slots : number[t] # j
    <3>1. \A t \in Slots : number'[t] # j
      BY <2>3, <1>1, <1>2, <1>5
    <3> QED BY <2>3, <3>1, <1>3, TakenIs, TakenIsNext DEF Nowhere
  <2> QED BY <2>1, <2>2, <2>3
<1> QED BY <1>4, <1>5 DEF TakenBut

(* The count follows one inode that is freed, one that is taken, or none. *)
LEMMA Counts ==
  /\ IsFiniteSet(FreeInodes) /\ Cardinality(FreeInodes) \in Nat
  /\ \A i \in Inos : IsTaken(i) /\ TakenBut(i, FALSE) =>
       Cardinality(FreeInodes') = Cardinality(FreeInodes) + 1
  /\ \A i \in Inos : ~IsTaken(i) /\ TakenBut(i, TRUE) =>
       Cardinality(FreeInodes') = Cardinality(FreeInodes) - 1
  /\ \A i \in Inos, u \in BOOLEAN : (IsTaken(i) <=> u) /\ TakenBut(i, u) => FreeInodes' = FreeInodes
<1>1. IsFiniteSet(FreeInodes) /\ Cardinality(FreeInodes) \in Nat
  <2>1. FreeInodes \in SUBSET Inos
    BY DEF FreeInodes
  <2>2. IsFiniteSet(FreeInodes)
    BY <2>1, Kinds, FS_Subset
  <2> QED BY <2>2, FS_CardinalityType
<1>2. ASSUME NEW i \in Inos, IsTaken(i), TakenBut(i, FALSE)
      PROVE  Cardinality(FreeInodes') = Cardinality(FreeInodes) + 1
  <2>1. FreeInodes' = FreeInodes \union {i} /\ i \notin FreeInodes
    BY <1>2 DEF FreeInodes, TakenBut
  <2> QED BY <2>1, <1>1, FS_AddElement
<1>3. ASSUME NEW i \in Inos, ~IsTaken(i), TakenBut(i, TRUE)
      PROVE  Cardinality(FreeInodes') = Cardinality(FreeInodes) - 1
  <2>1. FreeInodes' = FreeInodes \ {i} /\ i \in FreeInodes
    BY <1>3 DEF FreeInodes, TakenBut
  <2> QED BY <2>1, <1>1, FS_RemoveElement
<1>4. ASSUME NEW i \in Inos, NEW u \in BOOLEAN, IsTaken(i) <=> u, TakenBut(i, u)
      PROVE  FreeInodes' = FreeInodes
  BY <1>4 DEF FreeInodes, TakenBut
<1> QED BY <1>1, <1>2, <1>3, <1>4

(* Nothing is asked after a crash, or after V6's read error; then nothing  *)
(* was asked before the step neither.                                      *)
Orderly == happened \subseteq {"read error"} /\ ~StaleIput

LEMMA OrderlyBefore == Inv /\ [Next]_vars /\ Orderly' => Orderly /\ ~Crash
<1> SUFFICES ASSUME Inv, [Next]_vars, Orderly' PROVE Orderly /\ ~Crash
  OBVIOUS
<1>1. ~StaleIput
  BY StaleStays DEF Orderly
<1>2. happened \subseteq happened' /\ ~Crash
  BY DEF Orderly, Next, vars, Lookup, IgetError, Iput, Relink, CallIalloc, Ialloc, PopLow, PopTaken,
     PopNoSlot, PopError, PopFree, Refill, OutOfInodes, Update, Crash
<1> QED BY <1>1, <1>2 DEF Orderly

LEMMA ReleasesUnlinked ==
  ASSUME Inv, UnlinkedGo, Orderly, links' = links,
         NEW s \in Slots, NEW i \in Inos \union {0}, NEW u \in BOOLEAN,
         NEW n \in 0 .. MaxLinks, NEW changed \in BOOLEAN, NEW list, IsList(list),
         NEW tinode \in Int, i # 0 => \A t \in Slots \ {s} : number[t] # i,
         i # 0 /\ links[i] = 0 => n = 0, number[s] = i \/ count[s] = 0,
         LastIput(s, i, u, n, changed, list, tinode), kernel' = kernel
  PROVE  UnlinkedGo'
<1>1. /\ number'[s] = (IF Caches THEN i ELSE 0) /\ count'[s] = 0
      /\ used'[s] <=> Caches /\ u /\ n > 0
      /\ Caches => nlink'[s] = n
  BY DEF LastIput, Inv, SlotsTyped
<1>2. /\ \A j \in Inos \ {i} : dinode'[j] = dinode[j]
      /\ i # 0 /\ n = 0 => dinode'[i].used = FALSE
  <2>1. i # 0 /\ n = 0 => dinode'[i] = [used |-> FALSE, nlink |-> n]
    <3>1. SUFFICES ASSUME i # 0, n = 0 PROVE dinode'[i] = [used |-> FALSE, nlink |-> n]
      OBVIOUS
    <3>2. n <= 0 /\ (u /\ n > 0) = FALSE
      BY <3>1
    <3>3. dinode' = [dinode EXCEPT ![i] = [used |-> u /\ n > 0, nlink |-> n]]
      BY <3>1, <3>2, Zenon DEF LastIput, Updated
    <3>4. dinode' = [dinode EXCEPT ![i] = [used |-> FALSE, nlink |-> n]]
      BY <3>2, <3>3, Zenon
    <3> QED BY <3>1, <3>4 DEF Inv, SlotsTyped
  <2>2. \A j \in Inos \ {i} : dinode'[j] = dinode[j]
    BY Kinds DEF LastIput, Inv, SlotsTyped, Updated
  <2> QED BY <2>1, <2>2
<1>3. \A t \in Slots \ {s} : /\ number'[t] = number[t] /\ count'[t] = count[t] /\ used'[t] = used[t]
                            /\ nlink'[t] = nlink[t]
  BY DEF LastIput, Inv, SlotsTyped
<1>4. ASSUME NEW t \in Slots, number'[t] # 0, links[number'[t]] = 0
      PROVE  nlink'[t] = 0 /\ (count'[t] = 0 => ~used'[t])
  <2>1. CASE t # s
    BY <2>1, <1>3, <1>4 DEF UnlinkedGo, Orderly
  <2>2. CASE t = s
    BY <2>2, <1>1, <1>4, Bounds
  <2> QED BY <2>1, <2>2
<1>5. ASSUME NEW j \in Inos, \A t \in Slots : number'[t] # j, links[j] = 0
      PROVE  ~dinode'[j].used
  <2>0. j # 0
    BY Kinds
  <2>1. CASE j = i
    BY <2>0, <2>1, <1>2, <1>5
  <2>2. CASE j # i /\ Nowhere(j)
    BY <2>2, <1>2, <1>5 DEF UnlinkedGo, Orderly
  <2>3. CASE j # i /\ ~Nowhere(j)
    <3>1. number[s] = j
      BY <2>3, <1>3, <1>5 DEF Nowhere
    <3>2. count[s] = 0
      BY <3>1, <2>3
    <3>3. dinode[j] = [used |-> used[s], nlink |-> nlink[s]]
      BY <2>0, <3>1, <3>2 DEF Inv, SlotShape
    <3>4. ~used[s]
      BY <2>0, <3>1, <3>2, <1>5 DEF UnlinkedGo, Orderly
    <3> QED BY <3>3, <3>4, <1>2, <2>3
  <2> QED BY <2>1, <2>2, <2>3
<1> QED BY <1>4, <1>5 DEF UnlinkedGo, Nowhere

LEMMA GetsUnlinked ==
  ASSUME Inv, UnlinkedGo, Orderly, NEW s \in Slots, NEW i \in Inos,
         number[s] = i \/ (count[s] = 0 /\ Nowhere(i)),
         NEW c \in Int, NEW u \in BOOLEAN, NEW n \in 0 .. MaxLinks, NEW changed \in BOOLEAN,
         NEW l \in 0 .. MaxLinks, l > 0, Holds(s, i, c, u, n, changed),
         dinode' = dinode, links' = [links EXCEPT ![i] = l]
  PROVE  UnlinkedGo'
<1>1. number'[s] = i /\ links'[i] > 0
  BY Bounds DEF Holds, Inv, SlotsTyped, RestTyped
<1>2. /\ \A t \in Slots \ {s} : /\ number'[t] = number[t] /\ count'[t] = count[t]
                              /\ used'[t] = used[t] /\ nlink'[t] = nlink[t]
      /\ \A j \in Inos \ {i} : links'[j] = links[j]
  BY DEF Holds, Inv, SlotsTyped, RestTyped
<1>3. ASSUME NEW t \in Slots, number'[t] # 0, links'[number'[t]] = 0
      PROVE  nlink'[t] = 0 /\ (count'[t] = 0 => ~used'[t])
  <2>1. t # s /\ number'[t] # i
    BY <1>1, <1>3, Bounds
  <2>2. number[t] = number'[t] /\ number[t] \in Inos \ {i}
    BY <2>1, <1>2, <1>3 DEF Inv, SlotsTyped
  <2> QED BY <2>1, <2>2, <1>2, <1>3 DEF UnlinkedGo, Orderly
<1>4. ASSUME NEW j \in Inos, \A t \in Slots : number'[t] # j, links'[j] = 0
      PROVE  ~dinode[j].used
  <2>1. j # i /\ links[j] = 0 /\ j # 0
    BY <1>1, <1>2, <1>4, Kinds
  <2>2. CASE Nowhere(j)
    BY <2>1, <2>2 DEF UnlinkedGo, Orderly
  <2>3. CASE ~Nowhere(j)
    <3>1. number[s] = j
      BY <2>3, <1>2, <1>4 DEF Nowhere
    <3>2. count[s] = 0
      BY <2>1, <3>1
    <3>3. dinode[j] = [used |-> used[s], nlink |-> nlink[s]]
      BY <2>1, <3>1, <3>2 DEF Inv, SlotShape
    <3>4. ~used[s]
      BY <2>1, <3>1, <3>2 DEF UnlinkedGo, Orderly
    <3> QED BY <3>3, <3>4
  <2> QED BY <2>2, <2>3
<1> QED BY <1>3, <1>4 DEF UnlinkedGo, Nowhere

LEMMA IgetErrorUnlinked ==
  ASSUME Inv, UnlinkedGo, FreeCounted, Orderly, Orderly', NEW i \in Inos, NEW list, IsList(list),
         IgetError(i, list), UNCHANGED <<kernel, links>>
  PROVE  UnlinkedGo' /\ FreeCounted'
<1>1. CASE kernel = "29"
  <2>1. FreeInodes' = FreeInodes
    BY <1>1 DEF IgetError, slot, FreeInodes, IsTaken, InCore, SlotOf
  <2>2. UnlinkedGo'
    BY <1>1 DEF IgetError, slot, UnlinkedGo, Orderly, Nowhere
  <2>3. FreeCounted'
    BY <1>1, <2>1 DEF IgetError, FreeCounted, BSD, Caches, Orderly
  <2> QED BY <2>2, <2>3
<1>2. CASE kernel = "v6"
  BY <1>2 DEF IgetError, Orderly, StaleIput
<1>3. CASE kernel = "211"
  <2>1. PICK s \in Slots : s = Oldest /\ count[s] = 0
    BY OldestIsSpare DEF IgetError, Inv
  <2>2. PICK j \in Inos \union {0}, u \in BOOLEAN, n \in 0 .. MaxLinks, t \in Int,
             ch \in BOOLEAN : j = 0 /\ u = used[s] /\ n = nlink[s] /\ t = s_tinode /\ ch = FALSE
    BY DEF Inv, SlotsTyped, SuperTyped
  <2>3. LastIput(s, j, u, n, ch, list, t) /\ kernel' = kernel /\ links' = links
    BY <1>3, <2>1, <2>2 DEF IgetError, Caches
  <2>4. UnlinkedGo'
    BY <2>1, <2>2, <2>3, ReleasesUnlinked
  <2>5. FreeCounted'
    BY <1>3 DEF IgetError, FreeCounted, Caches
  <2> QED BY <2>4, <2>5
<1> QED BY <1>1, <1>2, <1>3, InodeTableAssumption DEF Inv, SlotsTyped

LEMMA LookupUnlinked ==
  ASSUME Inv, Inv', LinksKept, UnlinkedGo, FreeCounted, Orderly, Orderly',
         NEW i \in Inos, Lookup(i)
  PROVE  UnlinkedGo' /\ FreeCounted'
<1>1. links[i] \in 0 .. MaxLinks /\ links[i] > 0 /\ links' = [links EXCEPT ![i] = links[i]]
      /\ links' = links
  BY Bounds DEF Lookup, Inv, RestTyped
<1>2. CASE IgetCached(i) /\ UNCHANGED <<dinode, sb, happened>>
  <2>1. PICK s \in Slots :
          /\ number[s] = i /\ Holds(s, i, count[s] + 1, used[s], nlink[s], updated[s])
    BY <1>2, IgetCachedHolds
  <2>2. PICK c \in Int, u \in BOOLEAN, n \in 0 .. MaxLinks, ch \in BOOLEAN, l \in 0 .. MaxLinks :
          c = count[s] + 1 /\ u = used[s] /\ n = nlink[s] /\ ch = updated[s] /\ l = links[i]
    BY <1>1, Bounds DEF Inv, SlotsTyped
  <2>3. Holds(s, i, c, u, n, ch) /\ links' = [links EXCEPT ![i] = l] /\ dinode' = dinode
    BY <1>1, <1>2, <2>1, <2>2
  <2>4. UnlinkedGo'
    <3>1. l > 0 /\ (number[s] = i \/ (count[s] = 0 /\ Nowhere(i)))
      BY <1>1, <2>1, <2>2
    <3> QED BY <2>3, <3>1, GetsUnlinked
  <2>5. TakenBut(i, u) /\ (IsTaken(i) <=> u)
    BY <2>1, <2>2, <2>3, GetsTaken, TakenIs DEF Inv, SlotShape
  <2>6. FreeInodes' = FreeInodes
    BY <2>5, Counts
  <2> QED BY <2>4, <2>6, <1>2 DEF Lookup, FreeCounted, BSD, Caches, sb
<1>3. CASE IgetRead(i) /\ UNCHANGED <<dinode, sb, happened>>
  <2>1. PICK s \in Slots :
          /\ Nowhere(i) /\ count[s] = 0
          /\ Holds(s, i, 1, dinode[i].used, dinode[i].nlink, FALSE)
    BY <1>3, IgetReadHolds
  <2>2. PICK c \in Int, u \in BOOLEAN, n \in 0 .. MaxLinks, ch \in BOOLEAN, l \in 0 .. MaxLinks :
          c = 1 /\ u = dinode[i].used /\ n = dinode[i].nlink /\ ch = FALSE /\ l = links[i]
    <3>1. 1 \in Int /\ FALSE \in BOOLEAN
      OBVIOUS
    <3>2. dinode[i].used \in BOOLEAN /\ dinode[i].nlink \in 0 .. MaxLinks
      BY DinodeFields DEF Inv
    <3> QED BY <3>1, <3>2, <1>1, Zenon
  <2>3. Holds(s, i, c, u, n, ch) /\ links' = [links EXCEPT ![i] = l] /\ dinode' = dinode
    BY <1>1, <1>3, <2>1, <2>2
  <2>4. UnlinkedGo'
    <3>1. l > 0 /\ (number[s] = i \/ (count[s] = 0 /\ Nowhere(i)))
      BY <1>1, <2>1, <2>2
    <3> QED BY <2>3, <3>1, GetsUnlinked
  <2>5. TakenBut(i, u) /\ (IsTaken(i) <=> u)
    BY <2>1, <2>2, <2>3, GetsTaken, TakenIs DEF Inv, SlotShape
  <2>6. FreeInodes' = FreeInodes
    BY <2>5, Counts
  <2> QED BY <2>4, <2>6, <1>3 DEF Lookup, FreeCounted, BSD, Caches, sb
<1>4. CASE IgetError(i, s_inode)
  BY <1>4, IgetErrorUnlinked DEF Lookup, Inv, SuperTyped
<1> QED BY <1>2, <1>3, <1>4 DEF Lookup

LEMMA IputUnlinked ==
  ASSUME Inv, Inv', LinksKept, UnlinkedGo, FreeCounted, Orderly, Orderly',
         NEW s \in Slots, Iput(s)
  PROVE  UnlinkedGo' /\ FreeCounted'
<1>0. UNCHANGED <<kernel, links, happened>>
  BY DEF Iput
<1>1. CASE /\ count[s] = 1
           /\ LastIput(s, number[s], used[s], nlink[s], updated[s], s_inode, s_tinode)
  <2>1. PICK j \in Inos, u \in BOOLEAN, n \in 0 .. MaxLinks, t \in Int,
             ch \in BOOLEAN :
          j = number[s] /\ u = used[s] /\ n = nlink[s] /\ t = s_tinode /\ ch = updated[s]
    <3>1. count[s] > 0
      BY <1>1
    <3>2. number[s] \in Inos
      BY <3>1, HeldIs
    <3> QED BY <3>2 DEF Inv, SlotsTyped, SuperTyped
  <2>2. /\ j # 0 => \A r \in Slots \ {s} : number[r] # j
        /\ j # 0 /\ ~ch => dinode[j] = [used |-> u, nlink |-> n]
        /\ j # 0 /\ links[j] = 0 => n = 0
        /\ links[j] > 0 => n = links[j]
    <3>1. j # 0
      BY Kinds
    <3>2. \A r \in Slots \ {s} : number[r] # j
      BY <2>1, <3>1 DEF Inv, SlotShape, OneSlotPerInode
    <3>3. ~ch => dinode[j] = [used |-> u, nlink |-> n]
      BY <2>1, <3>1 DEF Inv, SlotShape
    <3>4. links[j] = 0 => n = 0
      BY <2>1, <3>1 DEF UnlinkedGo, Orderly
    <3>5. links[j] > 0 => n = links[j]
      BY <2>1, <3>1 DEF LinksKept, Orderly
    <3> QED BY <3>2, <3>3, <3>4, <3>5
  <2>3. LastIput(s, j, u, n, ch, s_inode, t) /\ IsList(s_inode)
    BY <1>1, <2>1 DEF Inv, SuperTyped
  <2>4. UnlinkedGo'
    BY <1>0, <2>1, <2>2, <2>3, ReleasesUnlinked
  <2>5. u /\ (IsTaken(j) <=> u)
    <3>1. count[s] > 0
      BY <1>1
    <3>2. used[s]
      BY <3>1 DEF LinksKept, Orderly
    <3>3. IsTaken(j) <=> used[s]
      BY <2>1, TakenIs DEF Inv, SlotShape
    <3> QED BY <2>1, <3>2, <3>3
  <2>6. CASE n > 0
    <3>1. TakenBut(j, u /\ n > 0)
      BY <2>1, <2>2, <2>3, ReleasesTaken
    <3>2. TakenBut(j, TRUE) /\ IsTaken(j)
      BY <3>1, <2>5, <2>6 DEF TakenBut
    <3>3. FreeInodes' = FreeInodes
      BY <3>2, Counts
    <3>4. s_tinode' = s_tinode
      BY <2>1, <2>3, <2>6 DEF LastIput
    <3> QED BY <2>4, <3>3, <3>4, <1>0 DEF FreeCounted, BSD, Caches
  <2>7. CASE ~(n > 0)
    <3>1. n <= 0
      BY <2>7, Bounds
    <3>2. TakenBut(j, u /\ n > 0)
      BY <2>1, <2>2, <2>3, ReleasesTaken
    <3>3. TakenBut(j, FALSE) /\ IsTaken(j)
      BY <3>1, <3>2, <2>5 DEF TakenBut
    <3>4. Cardinality(FreeInodes') = Cardinality(FreeInodes) + 1
      BY <3>3, Counts
    <3>5. BSD => s_tinode' = s_tinode + 1
      BY <2>1, <2>3, <3>1 DEF LastIput
    <3> QED BY <2>4, <3>4, <3>5, <1>0 DEF FreeCounted, BSD, Caches
  <2> QED BY <2>6, <2>7
<1>2. CASE /\ count[s] > 1 /\ count' = [count EXCEPT ![s] = @ - 1]
           /\ UNCHANGED <<number, used, nlink, updated, ifree, dinode, sb>>
  <2>1. \A t \in Slots : count'[t] = 0 => count[t] = 0
    BY <1>2, Bounds DEF Inv, SlotsTyped
  <2>2. FreeInodes' = FreeInodes
    BY <1>2 DEF FreeInodes, IsTaken, InCore, SlotOf
  <2> QED BY <1>0, <1>2, <2>1, <2>2 DEF UnlinkedGo, FreeCounted, BSD, Caches, sb, Orderly, StaleIput,
              Nowhere
<1> QED BY <1>1, <1>2 DEF Iput

LEMMA RelinkUnlinked ==
  ASSUME Inv, LinksKept, UnlinkedGo, FreeCounted, Orderly, Orderly',
         NEW s \in Slots, NEW by \in {-1, 1}, Relink(s, by)
  PROVE  UnlinkedGo' /\ FreeCounted'
<1>1. /\ number[s] \in Inos /\ nlink'[s] = links'[number[s]] /\ count[s] > 0
      /\ \A t \in Slots \ {s} : nlink'[t] = nlink[t] /\ number[t] # number[s]
      /\ \A j \in Inos \ {number[s]} : links'[j] = links[j]
  BY RelinkLinked DEF Orderly
<1>2. UNCHANGED <<kernel, number, count, used, dinode, happened, s_tinode>>
  BY DEF Relink, sb
<1>3. ASSUME NEW t \in Slots, number[t] # 0, links'[number[t]] = 0
      PROVE  nlink'[t] = 0 /\ (count[t] = 0 => ~used[t])
  <2>1. CASE t = s
    BY <2>1, <1>1, <1>3
  <2>2. CASE t # s
    <3>1. number[t] \in Inos \ {number[s]}
      BY <2>2, <1>1, <1>3 DEF Inv, SlotsTyped
    <3> QED BY <3>1, <2>2, <1>1, <1>3 DEF UnlinkedGo, Orderly
  <2> QED BY <2>1, <2>2
<1>4. ASSUME NEW j \in Inos, Nowhere(j), links'[j] = 0 PROVE ~dinode[j].used
  BY <1>1, <1>4 DEF Nowhere, UnlinkedGo, Orderly
<1>5. UnlinkedGo'
  BY <1>2, <1>3, <1>4 DEF UnlinkedGo, Nowhere
<1>6. FreeInodes' = FreeInodes
  BY <1>2 DEF FreeInodes, IsTaken, InCore, SlotOf
<1> QED BY <1>2, <1>5, <1>6 DEF FreeCounted, BSD, Caches

LEMMA PopTakenUnlinked ==
  ASSUME Inv, Inv', LinksKept, UnlinkedGo, FreeCounted, Orderly, Orderly', PopTaken
  PROVE  UnlinkedGo' /\ FreeCounted'
<1>1. Popped \in Inos /\ IsList(Rest) /\ links' = links /\ kernel' = kernel /\ happened' = happened
  BY Pops DEF PopTaken, Inv
<1>2. CASE UNCHANGED <<slot, dinode, s_tinode>>
  <2>1. FreeInodes' = FreeInodes
    BY <1>2 DEF slot, FreeInodes, IsTaken, InCore, SlotOf
  <2>2. UnlinkedGo'
    BY <1>1, <1>2 DEF slot, UnlinkedGo, Orderly, Nowhere
  <2>3. FreeCounted'
    BY <1>1, <1>2, <2>1 DEF FreeCounted, BSD, Caches
  <2> QED BY <2>2, <2>3
<1>3. CASE /\ InCore(Popped) => count[SlotOf(Popped)] = 0
           /\ Spare # {}
           /\ LastIput(SlotFor(Popped), Popped, TRUE, dinode[Popped].nlink, FALSE, Rest, s_tinode)
  <2>1. PICK s \in Slots, j \in Inos, u \in BOOLEAN, n \in 0 .. MaxLinks, t \in Int,
             ch \in BOOLEAN :
          /\ s = SlotFor(Popped) /\ j = Popped /\ u = TRUE /\ n = dinode[Popped].nlink
          /\ t = s_tinode /\ ch = FALSE
    <3>1. SlotFor(Popped) \in Slots
      BY <1>1, <1>3, SlotForIt DEF Inv, SlotShape
    <3>2. dinode[Popped].nlink \in 0 .. MaxLinks
      BY <1>1, DinodeFields DEF Inv
    <3>3. s_tinode \in Int /\ TRUE \in BOOLEAN /\ FALSE \in BOOLEAN
      BY DEF Inv, SuperTyped
    <3> QED BY <3>1, <3>2, <3>3, <1>1, Zenon
  <2>2. \A r \in Slots \ {s} : number[r] # j
    BY <1>1, <1>3, <2>1, SlotForIt DEF Inv, SlotShape
  <2>3. dinode[j] = [used |-> u, nlink |-> n] /\ IsTaken(j)
    BY <1>1, <1>3, <2>1, TakenOnDisk DEF PopTaken
  <2>4. links[j] > 0
    <3>0. links[j] = 0 \/ links[j] > 0
      BY Bounds DEF Inv, RestTyped
    <3>1. CASE InCore(j)
      <4>1. SlotOf(j) \in Slots /\ number[SlotOf(j)] = j /\ j # 0
        BY <3>1, InItsSlot, Kinds
      <4>2. count[SlotOf(j)] = 0
        BY <1>3, <2>1, <3>1
      <4>3. used[SlotOf(j)]
        BY <3>1, <2>3 DEF IsTaken
      <4> QED BY <3>0, <4>1, <4>2, <4>3 DEF UnlinkedGo, Orderly
    <3>2. CASE ~InCore(j)
      <4>1. Nowhere(j) /\ dinode[j].used
        BY <3>2, <2>3 DEF InCore, Nowhere, IsTaken
      <4> QED BY <3>0, <4>1 DEF UnlinkedGo, Orderly
    <3> QED BY <3>1, <3>2
  <2>5. LastIput(s, j, u, n, ch, Rest, t)
    BY <1>3, <2>1
  <2>6. number[s] = j \/ count[s] = 0
    BY <1>1, <1>3, <2>1, SlotForIt DEF Inv, SlotShape
  <2>7. n > 0 /\ n # 0
    <3>1. CASE InCore(j)
      <4>1. SlotOf(j) \in Slots /\ number[SlotOf(j)] = j /\ count[SlotOf(j)] = 0 /\ j # 0
        BY <1>3, <2>1, <3>1, InItsSlot, Kinds
      <4>2. dinode[j] = [used |-> used[SlotOf(j)], nlink |-> nlink[SlotOf(j)]]
        BY <4>1 DEF Inv, SlotShape
      <4>3. nlink[SlotOf(j)] = links[j]
        BY <4>1, <2>4 DEF LinksKept, Orderly
      <4> QED BY <4>2, <4>3, <2>3, <2>4
    <3>2. CASE ~InCore(j)
      <4>1. dinode[j] = [used |-> TRUE, nlink |-> links[j]]
        BY <3>2, <2>4 DEF InCore, Nowhere, LinksKept, Orderly
      <4> QED BY <4>1, <2>3, <2>4
    <3> QED BY <3>1, <3>2
  <2>8. UnlinkedGo'
    <3>1. /\ j # 0 => \A r \in Slots \ {s} : number[r] # j
          /\ j # 0 /\ links[j] = 0 => n = 0
      BY <2>2, <2>4
    <3> QED BY <1>1, <2>5, <2>6, <3>1, ReleasesUnlinked
  <2>9. TakenBut(j, TRUE)
    <3>1. j # 0 => \A r \in Slots \ {s} : number[r] # j
      BY <2>2
    <3>2. j # 0 /\ ~ch => dinode[j] = [used |-> u, nlink |-> n]
      BY <2>3
    <3>3. TakenBut(j, u /\ n > 0)
      BY <1>1, <2>5, <2>6, <3>1, <3>2, ReleasesTaken
    <3> QED BY <3>3, <2>1, <2>7 DEF TakenBut
  <2>10. FreeInodes' = FreeInodes
    BY <2>3, <2>9, Counts
  <2>11. s_tinode' = s_tinode
    BY <2>1, <2>5, <2>7 DEF LastIput
  <2> QED BY <1>1, <2>8, <2>10, <2>11 DEF FreeCounted, BSD, Caches
<1> QED BY <1>2, <1>3 DEF PopTaken, SlotFor

LEMMA PopFreeUnlinked ==
  ASSUME Inv, Inv', LinksKept, UnlinkedGo, FreeCounted, Orderly, Orderly', PopFree
  PROVE  UnlinkedGo' /\ FreeCounted'
<1>1. Popped \in Inos /\ IsList(Rest) /\ Taken \in Int /\ UNCHANGED <<kernel, happened>>
  BY Pops DEF PopFree, Inv, SuperTyped, Taken
<1>2. PICK s \in Slots, i \in Inos : s = SlotFor(Popped) /\ i = Popped
  BY <1>1, SlotForIt DEF PopFree, Inv, SlotShape
<1>3. links[i] = 0 /\ (InCore(i) => count[SlotOf(i)] = 0) /\ ~IsTaken(i) /\ i # 0
  BY <1>2, NotTaken, Kinds DEF PopFree, Orderly
<1>4. /\ number[s] = i \/ (count[s] = 0 /\ Nowhere(i))
      /\ count[s] = 0
      /\ \A t \in Slots \ {s} : number[t] # i
  BY <1>2, <1>3, SlotForIt DEF PopFree, SlotFor, Inv, SlotShape
<1>5. CASE /\ MakeNode(s, i) /\ links' = [links EXCEPT ![i] = 1] /\ s_tinode' = Taken
           /\ UNCHANGED dinode
  <2>1. PICK c \in Int, u \in BOOLEAN, n \in 0 .. MaxLinks, ch \in BOOLEAN :
          c = count[s] + 1 /\ u = TRUE /\ n = 1 /\ ch = TRUE
    <3>1. count[s] + 1 \in Int /\ 1 \in 0 .. MaxLinks
      BY <1>4, Bounds
    <3> QED BY <3>1, Zenon
  <2>2. Holds(s, i, c, u, n, ch)
    BY <1>5, <2>1 DEF MakeNode, Holds
  <2>3. PICK l \in 0 .. MaxLinks : l > 0 /\ links' = [links EXCEPT ![i] = l]
    <3>1. 1 \in 0 .. MaxLinks /\ 1 > 0
      BY Bounds
    <3> QED BY <3>1, <1>5, Zenon
  <2>4. UnlinkedGo'
    <3>1. /\ number[s] = i \/ (count[s] = 0 /\ Nowhere(i))
          /\ dinode' = dinode
      BY <1>4, <1>5
    <3> QED BY <2>2, <2>3, <3>1, GetsUnlinked
  <2>5. TakenBut(i, u)
    BY <1>4, <1>5, <2>2, GetsTaken
  <2>6. Cardinality(FreeInodes') = Cardinality(FreeInodes) - 1
    BY <2>1, <2>5, <1>3, Counts
  <2> QED BY <2>4, <2>6, <1>1, <1>5 DEF FreeCounted, BSD, Caches, Taken
<1>6. CASE LastIput(s, i, TRUE, 0, TRUE, Rest, Taken) /\ UNCHANGED links
  <2>1. PICK j \in Inos, u \in BOOLEAN, n \in 0 .. MaxLinks, t \in Int, ch \in BOOLEAN :
          j = i /\ u = TRUE /\ n = 0 /\ t = Taken /\ ch = TRUE
    <3>1. 0 \in 0 .. MaxLinks
      BY Bounds
    <3> QED BY <3>1, <1>1, Zenon
  <2>2. LastIput(s, j, u, n, ch, Rest, t)
    BY <1>6, <2>1
  <2>3. /\ j # 0 => \A r \in Slots \ {s} : number[r] # j
        /\ j # 0 /\ ~ch => dinode[j] = [used |-> u, nlink |-> n]
        /\ j # 0 /\ links[j] = 0 => n = 0
        /\ number[s] = j \/ count[s] = 0
    BY <1>3, <1>4, <2>1
  <2>4. UnlinkedGo'
    BY <1>1, <1>6, <2>2, <2>3, ReleasesUnlinked
  <2>5. TakenBut(j, u /\ n > 0)
    BY <1>1, <2>2, <2>3, ReleasesTaken
  <2>6. TakenBut(j, FALSE) /\ ~IsTaken(j)
    BY <2>1, <2>5, <1>3 DEF TakenBut
  <2>7. FreeInodes' = FreeInodes
    BY <2>6, Counts
  <2>8. BSD => s_tinode' = s_tinode
    <3>1. BSD => s_tinode' = Taken + 1
      BY <1>6 DEF LastIput
    <3> QED BY <3>1 DEF Taken, Inv, SuperTyped
  <2> QED BY <2>4, <2>7, <2>8, <1>1 DEF FreeCounted, BSD, Caches
<1> QED BY <1>2, <1>4, <1>5, <1>6 DEF PopFree, SlotFor

LEMMA UpdateUnlinked ==
  ASSUME Inv, UnlinkedGo, FreeCounted, Orderly, Update
  PROVE  UnlinkedGo' /\ FreeCounted'
<1>1. UNCHANGED <<kernel, slot, links, happened, s_tinode>>
  BY DEF Update
<1>2. \A i \in Inos : Nowhere(i) => dinode'[i] = dinode[i]
  BY UpdateLinked
<1>3. UnlinkedGo'
  BY <1>1, <1>2 DEF UnlinkedGo, slot, Orderly, Nowhere
<1>4. \A i \in Inos : IsTaken(i)' <=> IsTaken(i)
  BY <1>1, <1>2 DEF slot, IsTaken, InCore, SlotOf, Nowhere
<1>5. FreeInodes' = FreeInodes
  BY <1>4 DEF FreeInodes
<1> QED BY <1>1, <1>3, <1>5 DEF FreeCounted, BSD, Caches

Unlinked == UnlinkedGo /\ FreeCounted

LEMMA UnlinkedInv ==
  /\ Init => Unlinked
  /\ Inv /\ LinksKept /\ Unlinked /\ [Next]_vars => Unlinked'
<1>1. ASSUME Init PROVE Unlinked
  <2>1. \A s \in Slots : number[s] = 0
    BY <1>1 DEF Init
  <2>2. \A i \in Inos : ~dinode[i].used
    BY <1>1 DEF Init
  <2>3. FreeInodes = Inos
    BY <2>1, <2>2, Kinds DEF FreeInodes, IsTaken, InCore
  <2>4. BSD => s_tinode = Cardinality(Inos)
    BY <1>1 DEF Init
  <2> QED BY <2>1, <2>2, <2>3, <2>4 DEF Unlinked, UnlinkedGo, FreeCounted
<1>2. SUFFICES ASSUME Inv, LinksKept, Unlinked, [Next]_vars PROVE Unlinked'
  BY <1>1
<1>3. UnlinkedGo /\ FreeCounted /\ Inv'
  BY <1>2, NextInv DEF Unlinked
<1>4. CASE ~Orderly'
  <2>1. UnlinkedGo'
    BY <1>4 DEF UnlinkedGo, Orderly
  <2>2. FreeCounted'
    <3>1. BSD' => ~StaleIput'
      BY DEF BSD, StaleIput
    <3> QED BY <1>4, <3>1 DEF FreeCounted, Orderly
  <2> QED BY <2>1, <2>2 DEF Unlinked
<1>5. CASE Orderly'
  <2>0. Orderly /\ ~Crash
    BY <1>2, <1>5, OrderlyBefore
  <2>1. CASE UNCHANGED <<kernel, slot, dinode, links, happened, s_tinode>>
    <3>1. FreeInodes' = FreeInodes
      BY <2>1 DEF slot, FreeInodes, IsTaken, InCore, SlotOf
    <3>2. UnlinkedGo'
      BY <1>3, <2>0, <2>1 DEF slot, UnlinkedGo, Orderly, Nowhere
    <3>3. FreeCounted'
      BY <1>3, <2>1, <3>1 DEF FreeCounted, BSD, Caches
    <3> QED BY <3>2, <3>3 DEF Unlinked
  <2>2. ASSUME NEW i \in Inos, Lookup(i) PROVE Unlinked'
    BY <2>0, <2>2, <1>2, <1>3, <1>5, LookupUnlinked DEF Unlinked
  <2>3. ASSUME NEW s \in Slots, Iput(s) PROVE Unlinked'
    BY <2>0, <2>3, <1>2, <1>3, <1>5, IputUnlinked DEF Unlinked
  <2>4. ASSUME NEW s \in Slots, NEW by \in {-1, 1}, Relink(s, by) PROVE Unlinked'
    BY <2>0, <2>4, <1>2, <1>3, <1>5, RelinkUnlinked DEF Unlinked
  <2>5. CASE UNCHANGED vars \/ CallIalloc \/ PopLow \/ PopNoSlot \/ Refill \/ OutOfInodes
    <3>1. UNCHANGED <<kernel, slot, dinode, links, happened, s_tinode>>
      BY <2>5 DEF vars, sb, CallIalloc, PopLow, PopNoSlot, Refill, OutOfInodes
    <3> QED BY <3>1, <2>1
  <2>6. CASE PopError
    <3>1. Popped \in Inos /\ IsList(Rest)
      BY <2>6, <1>2, Pops DEF PopError, Inv
    <3> QED BY <2>0, <2>6, <3>1, <1>2, <1>3, <1>5, IgetErrorUnlinked DEF PopError, Unlinked
  <2>7. CASE PopTaken \/ PopFree
    BY <2>0, <2>7, <1>2, <1>3, <1>5, PopTakenUnlinked, PopFreeUnlinked DEF Unlinked
  <2>8. CASE Update
    BY <2>0, <2>8, <1>2, <1>3, UpdateUnlinked DEF Unlinked
  <2> QED BY <2>0, <2>2, <2>3, <2>4, <2>5, <2>6, <2>7, <2>8, <1>2 DEF Next, Ialloc
<1> QED BY <1>4, <1>5

LEMMA UnlinkedFact == Inv /\ Unlinked => FreeIsCounted
<1> SUFFICES ASSUME Inv, Unlinked, Orderly PROVE FreeIsCounted
  BY DEF FreeIsCounted, Orderly
<1>1. ASSUME NEW i \in Inos, links[i] = 0, InCore(i) => count[SlotOf(i)] = 0 PROVE ~IsTaken(i)
  <2>1. CASE InCore(i)
    BY <2>1, <1>1, InItsSlot, Kinds DEF Unlinked, UnlinkedGo, Orderly, IsTaken
  <2>2. CASE ~InCore(i)
    BY <2>2, <1>1 DEF InCore, Nowhere, Unlinked, UnlinkedGo, Orderly, IsTaken
  <2> QED BY <2>1, <2>2
<1> QED BY <1>1 DEF FreeIsCounted, Unlinked, FreeCounted, FreeInodes, Orderly

(* Until the process dies (or V6 trusts a slot after a read error), an     *)
(* inode that no directory names and nobody holds is free again, and the   *)
(* count of free inodes that the BSDs' statvfs answers is exact, whatever  *)
(* ialloc, ifree, failed directory writes and read errors did.             *)
THEOREM UnlinkedIsFree == Spec => []FreeIsCounted
<1>1. /\ Inv /\ LinksKept /\ Unlinked /\ [Next]_vars => (Inv /\ LinksKept /\ Unlinked)'
      /\ Inv /\ LinksKept /\ Unlinked => FreeIsCounted
  BY NextInv, LinksInv, UnlinkedInv, UnlinkedFact
<1>2. Init => Inv /\ LinksKept /\ Unlinked
  BY InitInv, LinksInv, UnlinkedInv
<1> QED BY <1>1, <1>2, PTL DEF Spec
=============================================================================
