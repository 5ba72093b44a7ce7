--------------------------- MODULE FreeListProofs ----------------------------
(***************************************************************************)
(* Proofs about the free-block list, for every size of volume and of       *)
(* superblock.  The lemmas on lists are about values, not states: what     *)
(* each thing alloc and free do to a good list leaves is a good list.      *)
(*                                                                         *)
(* V6's list comes first.  The lists of all kernels add to its chain where *)
(* the superblock that was saved last stands in it, and the count kept     *)
(* beside the list.                                                        *)
(***************************************************************************)
EXTENDS FreeListBSD, ListFacts, FiniteSetTheorems

(* The lists of a good list are images, and its index blocks are free. *)
Shape(top, blk, own, m, c) ==
  /\ \A k \in 1 .. m : c[k] \in Blocks \ own /\ c[k] # 0
  /\ \A k \in 0 .. m : ListNo(top, blk, m, c, k) \in Image
  /\ \A k \in 0 .. m : ListNo(top, blk, m, c, k).n \in 0 .. NICFREE
  /\ \A k \in 0 .. m : m > 0 => ListNo(top, blk, m, c, k).n > 0
  /\ 0 \notin Blocks

LEMMA ListShape ==
  ASSUME NEW top, NEW blk \in [Blocks -> Image], NEW own,
         NEW m \in Nat, NEW c \in [Nat -> Int], GoodList(top, blk, own, m, c)
  PROVE  Shape(top, blk, own, m, c)
<1>0. 0 \notin Blocks /\ 0 \in Slots
  BY SizesAssumption DEF Blocks, Slots
<1>1. \A k \in 0 .. m : /\ ListNo(top, blk, m, c, k).n \in 0 .. NICFREE
                        /\ m > 0 => ListNo(top, blk, m, c, k).n > 0
  BY SizesAssumption DEF GoodList, GoodCounts, ListNo
<1>2. \A k \in 1 .. m : c[k] \in Blocks \ own
  <2> SUFFICES ASSUME NEW k \in 1 .. m PROVE c[k] \in Blocks \ own
    OBVIOUS
  <2>1. Remembers(top, blk, m, c, k, 0)
    BY <1>1 DEF Remembers
  <2>2. Entry(top, blk, m, c, k, 0) = c[k]
    BY <2>1 DEF GoodList, GoodHeads
  <2>3. Entry(top, blk, m, c, k, 0) \in Blocks \ own
    BY <2>1, <1>0 DEF GoodList, GoodEntries
  <2> QED BY <2>2, <2>3
<1>3. \A k \in 0 .. m : ListNo(top, blk, m, c, k) \in Image
  BY <1>2 DEF ListNo, GoodList, GoodCounts
<1> QED BY <1>0, <1>1, <1>2, <1>3 DEF Shape

LEMMA GoodListEmpty ==
  ASSUME NEW top \in Image, NEW blk \in [Blocks -> Image], NEW c, IsFull(top)
  PROVE  GoodList(top, blk, Blocks, 0, c)
<1>1. /\ GoodCounts(top, blk, 0, c)
      /\ GoodHeads(top, blk, 0, c)
  BY SizesAssumption DEF GoodCounts, GoodHeads, IsFull, Remembers, Entry, ListNo, Image, Slots
<1>2. /\ GoodEntries(top, blk, Blocks, 0, c)
      /\ GoodUnique(top, blk, 0, c)
      /\ GoodComplete(top, blk, Blocks, 0, c)
  BY SizesAssumption DEF GoodEntries, GoodUnique, GoodComplete, IsFull, Remembers, Entry,
                         ListNo, Image, Slots
<1> QED BY <1>1, <1>2 DEF GoodList

LEMMA FullIsEmpty ==
  ASSUME NEW top \in Image, NEW blk \in [Blocks -> Image], NEW own \in SUBSET Blocks,
         NEW m \in Nat, NEW c \in [Nat -> Int], GoodList(top, blk, own, m, c), IsFull(top)
  PROVE  m = 0 /\ own = Blocks
<1> USE DEF Shape
<1>0. Shape(top, blk, own, m, c)
  BY ListShape
<1>1. m = 0
  <2> SUFFICES ASSUME m > 0 PROVE FALSE
    OBVIOUS
  <2>1. top.n > 0 /\ top.f[0] = 0
    BY <1>0 DEF IsFull, GoodList, GoodCounts
  <2>2. Remembers(top, blk, m, c, m, 0) /\ Entry(top, blk, m, c, m, 0) = 0
    BY <2>1 DEF Remembers, Entry, ListNo
  <2>3. c[m] = 0
    BY <2>2 DEF GoodList, GoodHeads
  <2> QED BY <1>0, <2>3
<1>2. ASSUME NEW b \in Blocks \ own PROVE FALSE
  <2>1. PICK k \in 0 .. m, i \in Slots :
           Remembers(top, blk, m, c, k, i) /\ Entry(top, blk, m, c, k, i) = b
    BY DEF GoodList, GoodComplete
  <2>2. i < top.n /\ top.f[i] = b
    BY <1>1, <2>1 DEF Remembers, Entry, ListNo
  <2>3. i = 0 /\ b = 0
    BY <2>2 DEF IsFull, Slots
  <2> QED BY <1>0, <2>3
<1> QED BY <1>1, <1>2

(* alloc takes a remembered block other than the index block. *)
PopsRemembered(top, t, blk, new, own, after, i, b) ==
  /\ i \in Nat /\ i > 0 /\ top.n = i + 1 /\ b = top.f[i]
  /\ t.n = i /\ t.f = top.f
  /\ \A x \in Blocks : x # b => new[x] = blk[x]
  /\ \A x \in Blocks : x \in after <=> x \in own \/ x = b

LEMMA PopRemembered ==
  ASSUME NEW top \in Image, NEW blk \in [Blocks -> Image], NEW own \in SUBSET Blocks,
         NEW m \in Nat, NEW c \in [Nat -> Int], GoodList(top, blk, own, m, c),
         NEW i, NEW b, NEW t \in Image,
         NEW new \in [Blocks -> Image], NEW after \in SUBSET Blocks,
         PopsRemembered(top, t, blk, new, own, after, i, b)
  PROVE  b \in Blocks \ own /\ GoodList(t, new, after, m, c)
<1> USE DEF PopsRemembered
<1>0. Shape(top, blk, own, m, c)
  BY ListShape
<1>1. i \in Slots /\ 0 \in Slots /\ i < top.n /\ i + 1 <= NICFREE
  BY SizesAssumption DEF Slots, GoodList, GoodCounts
<1>2. Remembers(top, blk, m, c, m, i) /\ Entry(top, blk, m, c, m, i) = b
  BY <1>1 DEF Remembers, Entry, ListNo
<1>3. b \in Blocks \ own
  BY <1>1, <1>2 DEF GoodList, GoodEntries
<1>4. \A k \in 0 .. m, j \in Slots :
        Remembers(top, blk, m, c, k, j) /\ Entry(top, blk, m, c, k, j) = b => k = m /\ j = i
  BY <1>1, <1>2 DEF GoodList, GoodUnique
<1>5. \A k \in 1 .. m : c[k] # b /\ c[k] \in Blocks
  <2> SUFFICES ASSUME NEW k \in 1 .. m PROVE c[k] # b
    BY <1>0 DEF Shape
  <2>1. Remembers(top, blk, m, c, k, 0)
    BY <1>0 DEF Remembers, Shape
  <2>2. Entry(top, blk, m, c, k, 0) = c[k]
    BY <2>1 DEF GoodList, GoodHeads
  <2> QED BY <2>1, <2>2, <1>1, <1>4
<1>6. \A k \in 0 .. m - 1 : ListNo(t, new, m, c, k) = ListNo(top, blk, m, c, k)
  BY <1>5 DEF ListNo
<1>7. ListNo(t, new, m, c, m) = t /\ ListNo(top, blk, m, c, m) = top
  BY DEF ListNo
<1>8. ASSUME NEW k \in 0 .. m, NEW j \in Slots
      PROVE  /\ Remembers(t, new, m, c, k, j)
                  <=> Remembers(top, blk, m, c, k, j) /\ ~ (k = m /\ j = i)
             /\ Entry(t, new, m, c, k, j) = Entry(top, blk, m, c, k, j)
  <2>1. CASE k = m
    BY <1>7, <2>1 DEF Remembers, Entry, Slots
  <2>2. CASE k # m
    <3>1. ListNo(t, new, m, c, k) = ListNo(top, blk, m, c, k)
      <4>1. k \in 0 .. m - 1
        BY <2>2
      <4> QED BY <4>1, <1>6
    <3>2. Remembers(t, new, m, c, k, j) <=> Remembers(top, blk, m, c, k, j)
      BY <3>1 DEF Remembers
    <3>3. Entry(t, new, m, c, k, j) = Entry(top, blk, m, c, k, j)
      BY <3>1 DEF Entry
    <3> QED BY <3>2, <3>3, <2>2
  <2> QED BY <2>1, <2>2
<1>9. GoodCounts(t, new, m, c)
  <2>0. top.f \in [Slots -> Int]
    BY DEF Image
  <2>1. t \in Image /\ t.n \in 0 .. NICFREE /\ t.n > 0
    BY <1>1, <2>0, SizesAssumption DEF Image
  <2>2. \A k \in 0 .. m - 1 : new[c[k + 1]].n = NICFREE
    BY <1>5 DEF GoodList, GoodCounts
  <2> QED BY <2>1, <2>2 DEF GoodCounts
<1>10. GoodHeads(t, new, m, c)
  BY <1>1, <1>8 DEF GoodList, GoodHeads
<1>11. GoodUnique(t, new, m, c)
  <2> SUFFICES ASSUME NEW k \in 0 .. m, NEW l \in 0 .. m, NEW x \in Slots, NEW y \in Slots,
                      Remembers(t, new, m, c, k, x), Remembers(t, new, m, c, l, y),
                      Entry(t, new, m, c, k, x) = Entry(t, new, m, c, l, y)
               PROVE  k = l /\ x = y
    BY DEF GoodUnique
  <2>1. /\ Remembers(top, blk, m, c, k, x)
        /\ Remembers(top, blk, m, c, l, y)
        /\ Entry(top, blk, m, c, k, x) = Entry(top, blk, m, c, l, y)
    BY <1>8
  <2> QED BY <2>1 DEF GoodList, GoodUnique
<1>12. GoodEntries(t, new, after, m, c)
  <2> SUFFICES ASSUME NEW k \in 0 .. m, NEW j \in Slots, Remembers(t, new, m, c, k, j),
                      ~ (k = 0 /\ j = 0)
               PROVE  Entry(t, new, m, c, k, j) \in Blocks \ after
    BY DEF GoodEntries
  <2>1. Remembers(top, blk, m, c, k, j) /\ ~ (k = m /\ j = i)
    BY <1>8
  <2>2. Entry(top, blk, m, c, k, j) \in Blocks \ own /\ Entry(top, blk, m, c, k, j) # b
    BY <2>1, <1>4 DEF GoodList, GoodEntries
  <2> QED BY <2>2, <1>8
<1>13. GoodComplete(t, new, after, m, c)
  <2> SUFFICES ASSUME NEW x \in Blocks \ after
               PROVE  \E k \in 0 .. m, j \in Slots :
                        Remembers(t, new, m, c, k, j) /\ Entry(t, new, m, c, k, j) = x
    BY DEF GoodComplete
  <2>1. PICK k \in 0 .. m, j \in Slots :
          Remembers(top, blk, m, c, k, j) /\ Entry(top, blk, m, c, k, j) = x
    BY DEF GoodList, GoodComplete
  <2>2. ~ (k = m /\ j = i)
    BY <2>1, <1>2
  <2> QED BY <2>1, <2>2, <1>8
<1> QED BY <1>3, <1>9, <1>10, <1>11, <1>12, <1>13 DEF GoodList

(* alloc takes the index block, whose own list replaces the superblock's. *)
PopsIndex(top, blk, new, own, after, b) ==
  /\ top.n = 1 /\ b = top.f[0] /\ b # 0
  /\ \A x \in Blocks : x # b => new[x] = blk[x]
  /\ \A x \in Blocks : x \in after <=> x \in own \/ x = b

LEMMA PopIndex ==
  ASSUME NEW top \in Image, NEW blk \in [Blocks -> Image], NEW own \in SUBSET Blocks,
         NEW m \in Nat, NEW c \in [Nat -> Int], GoodList(top, blk, own, m, c),
         NEW b, NEW new \in [Blocks -> Image], NEW after \in SUBSET Blocks,
         PopsIndex(top, blk, new, own, after, b)
  PROVE  /\ m > 0
         /\ b \in Blocks \ own
         /\ GoodList(blk[b], new, after, m - 1, c)
<1> USE DEF PopsIndex
<1>0. Shape(top, blk, own, m, c)
  BY ListShape
<1>1. 0 \in Slots
  BY SizesAssumption DEF Slots
<1>2. Remembers(top, blk, m, c, m, 0) /\ Entry(top, blk, m, c, m, 0) = b
  BY DEF Remembers, Entry, ListNo
<1>3. m > 0 /\ c[m] = b
  BY <1>2 DEF GoodList, GoodHeads
<1>4. b \in Blocks \ own
  BY <1>0, <1>3 DEF Shape
<1>5. \A k \in 0 .. m, j \in Slots :
        Remembers(top, blk, m, c, k, j) /\ Entry(top, blk, m, c, k, j) = b => k = m /\ j = 0
  BY <1>1, <1>2 DEF GoodList, GoodUnique
<1>6. \A k \in 1 .. m - 1 : c[k] # b /\ c[k] \in Blocks
  <2> SUFFICES ASSUME NEW k \in 1 .. m - 1 PROVE c[k] # b
    BY <1>0 DEF Shape
  <2>1. Remembers(top, blk, m, c, k, 0)
    BY <1>0, <1>3 DEF Remembers, Shape
  <2>2. Entry(top, blk, m, c, k, 0) = c[k]
    BY <2>1 DEF GoodList, GoodHeads
  <2> QED BY <2>1, <2>2, <1>1, <1>5
<1>7. ASSUME NEW k \in 0 .. m - 1
      PROVE  ListNo(blk[b], new, m - 1, c, k) = ListNo(top, blk, m, c, k)
  <2>1. ListNo(top, blk, m, c, k) = blk[c[k + 1]]
    BY DEF ListNo
  <2>2. CASE k = m - 1
    BY <2>1, <2>2, <1>3 DEF ListNo
  <2>3. CASE k # m - 1
    <3>1. k + 1 \in 1 .. m - 1
      BY <2>3
    <3>2. new[c[k + 1]] = blk[c[k + 1]]
      BY <3>1, <1>6
    <3> QED BY <2>1, <2>3, <3>2 DEF ListNo
  <2> QED BY <2>2, <2>3
<1>8. ASSUME NEW k \in 0 .. m - 1, NEW j \in Slots
      PROVE  /\ Remembers(blk[b], new, m - 1, c, k, j) <=> Remembers(top, blk, m, c, k, j)
             /\ Entry(blk[b], new, m - 1, c, k, j) = Entry(top, blk, m, c, k, j)
  <2>1. Remembers(blk[b], new, m - 1, c, k, j) <=> Remembers(top, blk, m, c, k, j)
    BY <1>7 DEF Remembers
  <2>2. Entry(blk[b], new, m - 1, c, k, j) = Entry(top, blk, m, c, k, j)
    BY <1>7 DEF Entry
  <2> QED BY <2>1, <2>2
<1>9. GoodCounts(blk[b], new, m - 1, c)
  <2>1. blk[b] \in Image
    BY <1>4
  <2>2. blk[b].n = NICFREE
    BY <1>3 DEF GoodList, GoodCounts
  <2>3. \A k \in 0 .. m - 2 : new[c[k + 1]].n = NICFREE
    BY <1>6 DEF GoodList, GoodCounts
  <2> QED BY <2>1, <2>2, <2>3, <1>3, SizesAssumption DEF GoodCounts
<1>10. GoodHeads(blk[b], new, m - 1, c)
  <2> SUFFICES ASSUME NEW k \in 0 .. m - 1, Remembers(blk[b], new, m - 1, c, k, 0)
               PROVE  Entry(blk[b], new, m - 1, c, k, 0) = IF k = 0 THEN 0 ELSE c[k]
    BY DEF GoodHeads
  <2>0. k \in 0 .. m
    OBVIOUS
  <2>1. Remembers(top, blk, m, c, k, 0)
    BY <1>1, <1>8
  <2>2. Entry(top, blk, m, c, k, 0) = IF k = 0 THEN 0 ELSE c[k]
    BY <2>0, <2>1 DEF GoodList, GoodHeads
  <2> QED BY <2>2, <1>1, <1>8
<1>11. GoodUnique(blk[b], new, m - 1, c)
  <2> SUFFICES ASSUME NEW k \in 0 .. m - 1, NEW l \in 0 .. m - 1, NEW x \in Slots, NEW y \in Slots,
                      Remembers(blk[b], new, m - 1, c, k, x), Remembers(blk[b], new, m - 1, c, l, y),
                      Entry(blk[b], new, m - 1, c, k, x) = Entry(blk[b], new, m - 1, c, l, y)
               PROVE  k = l /\ x = y
    BY DEF GoodUnique
  <2>1. /\ Remembers(top, blk, m, c, k, x)
        /\ Remembers(top, blk, m, c, l, y)
        /\ Entry(top, blk, m, c, k, x) = Entry(top, blk, m, c, l, y)
    BY <1>8
  <2> QED BY <2>1 DEF GoodList, GoodUnique
<1>12. GoodEntries(blk[b], new, after, m - 1, c)
  <2> SUFFICES ASSUME NEW k \in 0 .. m - 1, NEW j \in Slots,
                      Remembers(blk[b], new, m - 1, c, k, j), ~ (k = 0 /\ j = 0)
               PROVE  Entry(blk[b], new, m - 1, c, k, j) \in Blocks \ after
    BY DEF GoodEntries
  <2>0. k # m /\ k \in 0 .. m
    OBVIOUS
  <2>1. Remembers(top, blk, m, c, k, j) /\ k # m
    BY <1>8, <2>0
  <2>2. Entry(top, blk, m, c, k, j) \in Blocks \ own /\ Entry(top, blk, m, c, k, j) # b
    BY <2>1, <1>5 DEF GoodList, GoodEntries
  <2> QED BY <2>2, <1>8
<1>13. GoodComplete(blk[b], new, after, m - 1, c)
  <2> SUFFICES ASSUME NEW x \in Blocks \ after
               PROVE  \E k \in 0 .. m - 1, j \in Slots :
                        Remembers(blk[b], new, m - 1, c, k, j) /\ Entry(blk[b], new, m - 1, c, k, j) = x
    BY DEF GoodComplete
  <2>1. PICK k \in 0 .. m, j \in Slots :
          Remembers(top, blk, m, c, k, j) /\ Entry(top, blk, m, c, k, j) = x
    BY DEF GoodList, GoodComplete
  <2>2. k # m
    <3> SUFFICES ASSUME k = m PROVE FALSE
      OBVIOUS
    <3>1. j = 0
      BY <2>1 DEF Remembers, ListNo, Slots
    <3> QED BY <3>1, <2>1, <1>2
  <2>3. k \in 0 .. m - 1
    BY <2>2
  <2> QED BY <2>1, <2>3, <1>8
<1> QED BY <1>3, <1>4, <1>9, <1>10, <1>11, <1>12, <1>13 DEF GoodList

(* free remembers a block in the next slot of a list with room. *)
PushesRemembered(top, t, own, after, b) ==
  /\ top.n \in 1 .. NICFREE - 1
  /\ t.n = top.n + 1 /\ t.f[top.n] = b
  /\ \A j \in Slots : j # top.n => t.f[j] = top.f[j]
  /\ \A x \in Blocks : x \in after <=> x \in own /\ x # b

LEMMA PushRemembered ==
  ASSUME NEW top \in Image, NEW blk \in [Blocks -> Image], NEW own \in SUBSET Blocks,
         NEW m \in Nat, NEW c \in [Nat -> Int], GoodList(top, blk, own, m, c),
         NEW b \in own, NEW t \in Image, NEW after \in SUBSET Blocks,
         PushesRemembered(top, t, own, after, b)
  PROVE  GoodList(t, blk, after, m, c)
<1> USE DEF PushesRemembered
<1>i. PICK i \in Nat : i = top.n /\ i > 0 /\ i < NICFREE
  BY SizesAssumption
<1>0. Shape(top, blk, own, m, c)
  BY <1>i, ListShape
<1>1. /\ i \in Slots /\ 0 \in Slots
      /\ b \in Blocks /\ b # 0 /\ b \in Int
      /\ top.f \in [Slots -> Int]
  <2>1. i \in Slots /\ 0 \in Slots
    BY <1>i, SizesAssumption DEF Slots
  <2>2. b \in Blocks
    OBVIOUS
  <2>3. b # 0 /\ b \in Int
    BY <1>i, <2>2, SizesAssumption DEF Blocks
  <2>4. top.f \in [Slots -> Int]
    BY <1>i DEF Image
  <2> QED BY <1>i, <2>1, <2>2, <2>3, <2>4
<1>2. ListNo(t, blk, m, c, m) = t /\ ListNo(top, blk, m, c, m) = top
  BY <1>i DEF ListNo
<1>3. ASSUME NEW k \in 0 .. m, k # m
      PROVE  ListNo(t, blk, m, c, k) = ListNo(top, blk, m, c, k)
  BY <1>i, <1>3 DEF ListNo
<1>4. Remembers(t, blk, m, c, m, i) /\ Entry(t, blk, m, c, m, i) = b
      /\ ~ Remembers(top, blk, m, c, m, i)
  BY <1>i, <1>1, <1>2 DEF Remembers, Entry
<1>5. ASSUME NEW k \in 0 .. m, NEW j \in Slots, ~ (k = m /\ j = i)
      PROVE  /\ Remembers(t, blk, m, c, k, j) <=> Remembers(top, blk, m, c, k, j)
             /\ Entry(t, blk, m, c, k, j) = Entry(top, blk, m, c, k, j)
  <2>1. CASE k = m
    <3>1. j # i /\ j \in Int
      BY <1>i, <2>1, <1>5 DEF Slots
    <3>2. t.n = i + 1 /\ t.f[j] = top.f[j]
      BY <1>i, <3>1, <1>1
    <3>3. Remembers(t, blk, m, c, m, j) <=> Remembers(top, blk, m, c, m, j)
      BY <1>i, <3>1, <3>2, <1>2 DEF Remembers
    <3>4. Entry(t, blk, m, c, m, j) = Entry(top, blk, m, c, m, j)
      BY <1>i, <3>2, <1>2 DEF Entry
    <3> QED BY <1>i, <2>1, <3>3, <3>4
  <2>2. CASE k # m
    <3>1. Remembers(t, blk, m, c, k, j) <=> Remembers(top, blk, m, c, k, j)
      BY <1>i, <1>3, <2>2 DEF Remembers
    <3>2. Entry(t, blk, m, c, k, j) = Entry(top, blk, m, c, k, j)
      BY <1>i, <1>3, <2>2 DEF Entry
    <3> QED BY <1>i, <3>1, <3>2
  <2> QED BY <1>i, <2>1, <2>2
<1>6. \A k \in 0 .. m, j \in Slots :
        Remembers(top, blk, m, c, k, j) => Entry(top, blk, m, c, k, j) # b
  BY <1>i, <1>1 DEF GoodList, GoodEntries, GoodHeads
<1>7. GoodCounts(t, blk, m, c)
  <2>1. t \in Image /\ t.n \in 0 .. NICFREE /\ t.n > 0
    BY <1>i, <1>1, SizesAssumption DEF Image
  <2> QED BY <1>i, <2>1 DEF GoodList, GoodCounts
<1>8. GoodHeads(t, blk, m, c)
  BY <1>i, <1>1, <1>5 DEF GoodList, GoodHeads
<1>9. GoodUnique(t, blk, m, c)
  <2> SUFFICES ASSUME NEW k \in 0 .. m, NEW l \in 0 .. m, NEW x \in Slots, NEW y \in Slots,
                      Remembers(t, blk, m, c, k, x), Remembers(t, blk, m, c, l, y),
                      Entry(t, blk, m, c, k, x) = Entry(t, blk, m, c, l, y)
               PROVE  k = l /\ x = y
    BY <1>i DEF GoodUnique
  <2>1. CASE ~ (k = m /\ x = i) /\ ~ (l = m /\ y = i)
    <3>1. /\ Remembers(top, blk, m, c, k, x)
          /\ Remembers(top, blk, m, c, l, y)
          /\ Entry(top, blk, m, c, k, x) = Entry(top, blk, m, c, l, y)
      BY <1>i, <2>1, <1>5
    <3> QED BY <1>i, <3>1 DEF GoodList, GoodUnique
  <2>2. CASE k = m /\ x = i /\ ~ (l = m /\ y = i)
    BY <1>i, <2>2, <1>4, <1>5, <1>6
  <2>3. CASE ~ (k = m /\ x = i) /\ l = m /\ y = i
    BY <1>i, <2>3, <1>4, <1>5, <1>6
  <2> QED BY <1>i, <2>1, <2>2, <2>3
<1>10. GoodEntries(t, blk, after, m, c)
  <2> SUFFICES ASSUME NEW k \in 0 .. m, NEW j \in Slots, Remembers(t, blk, m, c, k, j),
                      ~ (k = 0 /\ j = 0)
               PROVE  Entry(t, blk, m, c, k, j) \in Blocks \ after
    BY <1>i DEF GoodEntries
  <2>1. CASE k = m /\ j = i
    BY <1>i, <2>1, <1>1, <1>4
  <2>2. CASE ~ (k = m /\ j = i)
    <3>1. Remembers(top, blk, m, c, k, j) /\ Entry(t, blk, m, c, k, j) = Entry(top, blk, m, c, k, j)
      BY <1>i, <2>2, <1>5
    <3> QED BY <1>i, <3>1 DEF GoodList, GoodEntries
  <2> QED BY <1>i, <2>1, <2>2
<1>11. GoodComplete(t, blk, after, m, c)
  <2> SUFFICES ASSUME NEW x \in Blocks \ after
               PROVE  \E k \in 0 .. m, j \in Slots :
                        Remembers(t, blk, m, c, k, j) /\ Entry(t, blk, m, c, k, j) = x
    BY <1>i DEF GoodComplete
  <2>1. CASE x = b
    BY <1>i, <2>1, <1>1, <1>4
  <2>2. CASE x # b
    <3>1. PICK k \in 0 .. m, j \in Slots :
            Remembers(top, blk, m, c, k, j) /\ Entry(top, blk, m, c, k, j) = x
      BY <1>i, <2>2 DEF GoodList, GoodComplete
    <3>2. ~ (k = m /\ j = i)
      BY <1>i, <3>1, <1>4
    <3> QED BY <1>i, <3>1, <3>2, <1>5
  <2> QED BY <1>i, <2>1, <2>2
<1> QED BY <1>i, <1>7, <1>8, <1>9, <1>10, <1>11 DEF GoodList

(* free moves a full list into the block it frees, a new index block. *)
PushesIndex(top, t, blk, new, own, after, m, c, d, b) ==
  /\ top.n = NICFREE /\ t.n = 1 /\ t.f[0] = b
  /\ new[b] = top
  /\ \A x \in Blocks : x # b => new[x] = blk[x]
  /\ d[m + 1] = b /\ \A k \in 1 .. m : d[k] = c[k]
  /\ \A x \in Blocks : x \in after <=> x \in own /\ x # b

LEMMA PushIndex ==
  ASSUME NEW top \in Image, NEW blk \in [Blocks -> Image], NEW own \in SUBSET Blocks,
         NEW m \in Nat, NEW c \in [Nat -> Int], GoodList(top, blk, own, m, c),
         NEW b \in own, NEW t \in Image, NEW new \in [Blocks -> Image],
         NEW d \in [Nat -> Int], NEW after \in SUBSET Blocks,
         PushesIndex(top, t, blk, new, own, after, m, c, d, b)
  PROVE  GoodList(t, new, after, m + 1, d)
<1> USE DEF PushesIndex
<1>0. Shape(top, blk, own, m, c)
  BY ListShape
<1>1. /\ 0 \in Slots /\ b \in Blocks
      /\ b # 0 /\ b \in Int
      /\ top.f \in [Slots -> Int]
  <2>1. 0 \in Slots
    BY SizesAssumption DEF Slots
  <2>2. b \in Blocks
    OBVIOUS
  <2>3. b # 0 /\ b \in Int
    BY <2>2, SizesAssumption DEF Blocks
  <2>4. top.f \in [Slots -> Int]
    BY DEF Image
  <2> QED BY <2>1, <2>2, <2>3, <2>4
<1>2. /\ d[m + 1] = b /\ new[b] = top
      /\ \A k \in 1 .. m : d[k] = c[k] /\ new[d[k]] = blk[c[k]]
  BY <1>0, <1>1 DEF Shape
<1>3. ListNo(t, new, m + 1, d, m + 1) = t /\ t.n = 1 /\ t.f[0] = b
  BY <1>1 DEF ListNo
<1>4. ASSUME NEW k \in 0 .. m
      PROVE  ListNo(t, new, m + 1, d, k) = ListNo(top, blk, m, c, k)
  <2>1. ListNo(t, new, m + 1, d, k) = new[d[k + 1]]
    BY DEF ListNo
  <2>2. CASE k = m
    BY <2>1, <2>2, <1>2 DEF ListNo
  <2>3. CASE k # m
    <3>1. k + 1 \in 1 .. m
      BY <2>3
    <3> QED BY <3>1, <2>1, <2>3, <1>2 DEF ListNo
  <2> QED BY <2>2, <2>3
<1>5. ASSUME NEW k \in 0 .. m, NEW j \in Slots
      PROVE  /\ Remembers(t, new, m + 1, d, k, j) <=> Remembers(top, blk, m, c, k, j)
             /\ Entry(t, new, m + 1, d, k, j) = Entry(top, blk, m, c, k, j)
  <2>1. Remembers(t, new, m + 1, d, k, j) <=> Remembers(top, blk, m, c, k, j)
    BY <1>4 DEF Remembers
  <2>2. Entry(t, new, m + 1, d, k, j) = Entry(top, blk, m, c, k, j)
    BY <1>4 DEF Entry
  <2> QED BY <2>1, <2>2
<1>6. ASSUME NEW j \in Slots
      PROVE  /\ Remembers(t, new, m + 1, d, m + 1, j) <=> j = 0
             /\ Entry(t, new, m + 1, d, m + 1, 0) = b
  <2>1. Remembers(t, new, m + 1, d, m + 1, j) <=> j < 1
    BY <1>3 DEF Remembers
  <2>2. Entry(t, new, m + 1, d, m + 1, 0) = b
    BY <1>3 DEF Entry
  <2> QED BY <2>1, <2>2 DEF Slots
<1>7. \A k \in 0 .. m, j \in Slots :
        Remembers(top, blk, m, c, k, j) => Entry(top, blk, m, c, k, j) # b
  BY <1>1 DEF GoodList, GoodEntries, GoodHeads
<1>8. GoodCounts(t, new, m + 1, d)
  <2>1. t \in Image /\ t.n \in 0 .. NICFREE /\ t.n > 0
    BY <1>1, SizesAssumption DEF Image
  <2>2. ASSUME NEW k \in 0 .. m PROVE new[d[k + 1]].n = NICFREE
    <3>1. CASE k = m
      BY <3>1, <1>2
    <3>2. CASE k # m
      <4>1. k + 1 \in 1 .. m /\ k \in 0 .. m - 1
        BY <3>2
      <4> QED BY <4>1, <1>2 DEF GoodList, GoodCounts
    <3> QED BY <3>1, <3>2
  <2> QED BY <2>1, <2>2 DEF GoodCounts
<1>9. GoodHeads(t, new, m + 1, d)
  <2> SUFFICES ASSUME NEW k \in 0 .. m + 1, Remembers(t, new, m + 1, d, k, 0)
               PROVE  Entry(t, new, m + 1, d, k, 0) = IF k = 0 THEN 0 ELSE d[k]
    BY DEF GoodHeads
  <2>1. CASE k = m + 1
    <3>1. Entry(t, new, m + 1, d, m + 1, 0) = b
      BY <1>3 DEF Entry
    <3>2. m + 1 # 0 /\ d[m + 1] = b
      BY <1>2
    <3> QED BY <2>1, <3>1, <3>2
  <2>2. CASE k # m + 1
    <3>1. k \in 0 .. m
      BY <2>2
    <3>2. Remembers(top, blk, m, c, k, 0) /\ Entry(t, new, m + 1, d, k, 0) = Entry(top, blk, m, c, k, 0)
      BY <3>1, <1>1, <1>5
    <3>3. Entry(top, blk, m, c, k, 0) = IF k = 0 THEN 0 ELSE c[k]
      BY <3>1, <3>2 DEF GoodList, GoodHeads
    <3>4. k # 0 => d[k] = c[k]
      BY <3>1, <1>2
    <3> QED BY <3>2, <3>3, <3>4
  <2> QED BY <2>1, <2>2
<1>10. GoodUnique(t, new, m + 1, d)
  <2> SUFFICES ASSUME NEW k \in 0 .. m + 1, NEW l \in 0 .. m + 1, NEW x \in Slots, NEW y \in Slots,
                      Remembers(t, new, m + 1, d, k, x), Remembers(t, new, m + 1, d, l, y),
                      Entry(t, new, m + 1, d, k, x) = Entry(t, new, m + 1, d, l, y)
               PROVE  k = l /\ x = y
    BY DEF GoodUnique
  <2>1. CASE k # m + 1 /\ l # m + 1
    <3>1. k \in 0 .. m /\ l \in 0 .. m
      BY <2>1
    <3>2. /\ Remembers(top, blk, m, c, k, x)
          /\ Remembers(top, blk, m, c, l, y)
          /\ Entry(top, blk, m, c, k, x) = Entry(top, blk, m, c, l, y)
      BY <3>1, <1>5
    <3> QED BY <3>1, <3>2 DEF GoodList, GoodUnique
  <2>2. CASE k = m + 1 /\ l # m + 1
    <3>1. l \in 0 .. m
      BY <2>2
    <3>2. Entry(t, new, m + 1, d, k, x) = b
      BY <2>2, <1>6
    <3>3. Entry(t, new, m + 1, d, l, y) # b
      BY <3>1, <1>5, <1>7
    <3> QED BY <3>2, <3>3
  <2>3. CASE k # m + 1 /\ l = m + 1
    <3>1. k \in 0 .. m
      BY <2>3
    <3>2. Entry(t, new, m + 1, d, l, y) = b
      BY <2>3, <1>6
    <3>3. Entry(t, new, m + 1, d, k, x) # b
      BY <3>1, <1>5, <1>7
    <3> QED BY <3>2, <3>3
  <2>4. CASE k = m + 1 /\ l = m + 1
    BY <2>4, <1>6
  <2> QED BY <2>1, <2>2, <2>3, <2>4
<1>11. GoodEntries(t, new, after, m + 1, d)
  <2> SUFFICES ASSUME NEW k \in 0 .. m + 1, NEW j \in Slots,
                      Remembers(t, new, m + 1, d, k, j), ~ (k = 0 /\ j = 0)
               PROVE  Entry(t, new, m + 1, d, k, j) \in Blocks \ after
    BY DEF GoodEntries
  <2>1. CASE k = m + 1
    BY <2>1, <1>1, <1>6
  <2>2. CASE k # m + 1
    <3>1. k \in 0 .. m
      BY <2>2
    <3>2. Remembers(top, blk, m, c, k, j) /\ Entry(t, new, m + 1, d, k, j) = Entry(top, blk, m, c, k, j)
      BY <3>1, <1>5
    <3> QED BY <3>1, <3>2 DEF GoodList, GoodEntries
  <2> QED BY <2>1, <2>2
<1>12. GoodComplete(t, new, after, m + 1, d)
  <2> SUFFICES ASSUME NEW x \in Blocks \ after
               PROVE  \E k \in 0 .. m + 1, j \in Slots :
                        Remembers(t, new, m + 1, d, k, j) /\ Entry(t, new, m + 1, d, k, j) = x
    BY DEF GoodComplete
  <2>1. CASE x = b
    <3>1. m + 1 \in 0 .. m + 1
      OBVIOUS
    <3> QED BY <2>1, <3>1, <1>1, <1>6
  <2>2. CASE x # b
    <3>1. PICK k \in 0 .. m, j \in Slots :
            Remembers(top, blk, m, c, k, j) /\ Entry(top, blk, m, c, k, j) = x
      BY <2>2 DEF GoodList, GoodComplete
    <3>2. k \in 0 .. m + 1
      OBVIOUS
    <3> QED BY <3>1, <3>2, <1>5
  <2> QED BY <2>1, <2>2
<1> QED BY <1>8, <1>9, <1>10, <1>11, <1>12 DEF GoodList

(* A file that writes over a block it owns disturbs no list. *)
WritesOwned(blk, new, b) ==
  /\ \A x \in Blocks : x # b => new[x] = blk[x]

LEMMA WriteOwned ==
  ASSUME NEW top \in Image, NEW blk \in [Blocks -> Image], NEW own \in SUBSET Blocks,
         NEW m \in Nat, NEW c \in [Nat -> Int], GoodList(top, blk, own, m, c),
         NEW b \in own, NEW new \in [Blocks -> Image],
         WritesOwned(blk, new, b)
  PROVE  GoodList(top, new, own, m, c)
<1> USE DEF WritesOwned
<1>0. Shape(top, blk, own, m, c)
  BY ListShape
<1>1. \A k \in 1 .. m : c[k] # b /\ c[k] \in Blocks
  BY <1>0 DEF Shape
<1>2. \A k \in 0 .. m : ListNo(top, new, m, c, k) = ListNo(top, blk, m, c, k)
  BY <1>1 DEF ListNo
<1>3. \A k \in 0 .. m - 1 : new[c[k + 1]] = blk[c[k + 1]]
  BY <1>1
<1>4. GoodCounts(top, new, m, c)
  BY <1>3 DEF GoodList, GoodCounts
<1>5. ASSUME NEW k \in 0 .. m, NEW j
      PROVE  /\ Remembers(top, new, m, c, k, j) <=> Remembers(top, blk, m, c, k, j)
             /\ Entry(top, new, m, c, k, j) = Entry(top, blk, m, c, k, j)
  <2>1. Remembers(top, new, m, c, k, j) <=> Remembers(top, blk, m, c, k, j)
    BY <1>2 DEF Remembers
  <2>2. Entry(top, new, m, c, k, j) = Entry(top, blk, m, c, k, j)
    BY <1>2 DEF Entry
  <2> QED BY <2>1, <2>2
<1>6. GoodHeads(top, new, m, c)
  BY <1>5 DEF GoodList, GoodHeads
<1>7. GoodEntries(top, new, own, m, c)
  BY <1>5 DEF GoodList, GoodEntries
<1>8. GoodUnique(top, new, m, c)
  BY <1>5 DEF GoodList, GoodUnique
<1>9. GoodComplete(top, new, own, m, c)
  BY <1>5 DEF GoodList, GoodComplete
<1> QED BY <1>4, <1>6, <1>7, <1>8, <1>9 DEF GoodList

-----------------------------------------------------------------------------
(***************************************************************************)
(* The inductive invariant: the list in core is good for some chain.       *)
(***************************************************************************)
Inv == \E m \in Nat, c \in [Nat -> Int] : IndInv(m, c)

LEMMA TableIsInt == \A g \in [Slots -> Blocks \union {0}] : g \in [Slots -> Int]
<1>1. Blocks \union {0} \subseteq Int
  BY DEF Blocks
<1> QED BY <1>1

LEMMA CoreShape ==
  ASSUME TypeOK
  PROVE  /\ Core \in Image /\ Core.n = s_nfree /\ Core.f = s_free
         /\ GetfsCount = s_nfree /\ s_nfree \in Int
         /\ 0 \in Slots
         /\ \A b \in Int : ~ Badblock(b) <=> b \in Blocks
         /\ \A b \in Blocks : b # 0 /\ b \in Int
         /\ Blocks \subseteq Int
<1>1. Blocks \subseteq Int /\ \A b \in Blocks : b # 0
  BY SizesAssumption DEF Blocks
<1>2. s_free \in [Slots -> Int]
  <2>1. s_free \in [Slots -> Blocks \union {0}] /\ Blocks \union {0} \subseteq Int
    BY <1>1 DEF TypeOK
  <2> QED BY <2>1
<1>3. s_nfree \in Int /\ s_nfree <= NICFREE
  BY SizesAssumption DEF TypeOK
<1>4. Core \in Image /\ Core.n = s_nfree /\ Core.f = s_free
  BY <1>2, <1>3 DEF Core, Image
<1>5. GetfsCount = s_nfree
  BY <1>3, SizesAssumption DEF GetfsCount
<1>6. \A b \in Int : ~ Badblock(b) <=> b \in Blocks
  BY SizesAssumption DEF Badblock, Blocks
<1>7. 0 \in Slots
  BY SizesAssumption DEF Slots
<1> QED BY <1>1, <1>3, <1>4, <1>5, <1>6, <1>7

(* On a good list, alloc stops at the last remembered number. *)
LEMMA AllocStops ==
  ASSUME TypeOK, NEW m \in Nat, NEW c \in [Nat -> Int],
         GoodList(Core, block, owned, m, c)
  PROVE  /\ s_nfree > 0 => StopsAt(s_nfree - 1)
         /\ s_nfree > 1 => s_free[s_nfree - 1] # 0
         /\ \A i \in Remembered : StopsAt(i) => i = s_nfree - 1
<1>0. Shape(Core, block, owned, m, c)
  BY ListShape DEF TypeOK
<1>1. /\ Core.n = s_nfree /\ Core.f = s_free
      /\ GetfsCount = s_nfree /\ s_nfree \in Int
      /\ s_nfree <= NICFREE /\ 0 \in Slots
  BY CoreShape, SizesAssumption DEF TypeOK
<1>2. ASSUME NEW i \in Slots, i < s_nfree
      PROVE  /\ i > 0 => s_free[i] # 0 /\ ~ Badblock(s_free[i])
             /\ s_free[i] = 0 \/ ~ Badblock(s_free[i])
  <2>1. Remembers(Core, block, m, c, m, i) /\ Entry(Core, block, m, c, m, i) = s_free[i]
    BY <1>1, <1>2 DEF Remembers, Entry, ListNo
  <2>2. (m = 0 /\ i = 0) \/ s_free[i] \in Blocks \ owned
    BY <2>1 DEF GoodList, GoodEntries
  <2>3. m = 0 /\ i = 0 => s_free[i] = 0
    BY <2>1 DEF GoodList, GoodHeads
  <2>4. s_free[i] \in Blocks => s_free[i] # 0 /\ ~ Badblock(s_free[i])
    BY CoreShape
  <2> QED BY <2>2, <2>3, <2>4
<1>3. ASSUME s_nfree > 0 PROVE StopsAt(s_nfree - 1)
  <2>1. s_nfree - 1 \in Slots /\ s_nfree - 1 < s_nfree
    BY <1>1, <1>3, SizesAssumption DEF Slots
  <2>2. s_free[s_nfree - 1] = 0 \/ ~ Badblock(s_free[s_nfree - 1])
    BY <2>1, <1>2
  <2>3. (s_nfree - 1) + 1 .. s_nfree - 1 = {}
    BY <1>1
  <2> QED BY <2>2, <2>3, <1>1 DEF StopsAt
<1>4. ASSUME s_nfree > 1 PROVE s_free[s_nfree - 1] # 0
  <2>1. s_nfree - 1 \in Slots /\ s_nfree - 1 < s_nfree /\ s_nfree - 1 > 0
    BY <1>1, <1>4, SizesAssumption DEF Slots
  <2> QED BY <2>1, <1>2
<1>5. ASSUME NEW i \in Remembered, StopsAt(i), i # s_nfree - 1 PROVE FALSE
  <2>1. s_nfree - 1 \in i + 1 .. s_nfree - 1 /\ s_nfree > 1
    BY <1>1, <1>5 DEF Remembered
  <2>2. Badblock(s_free[s_nfree - 1])
    BY <2>1, <1>1, <1>5 DEF StopsAt
  <2>3. s_nfree - 1 \in Slots /\ s_nfree - 1 < s_nfree /\ s_nfree - 1 > 0
    BY <2>1, <1>1, SizesAssumption DEF Slots
  <2> QED BY <2>2, <2>3, <1>2
<1> QED BY <1>3, <1>4, <1>5

(* What every kernel's alloc does with an index block. *)
UsesIndex ==
  /\ 0 \in Remembered /\ StopsAt(0) /\ s_free[0] # 0
  /\ s_nfree' = block[s_free[0]].n /\ s_free' = block[s_free[0]].f
  /\ block' = [block EXCEPT ![s_free[0]] = Zeroed]
  /\ owned' = owned \union {s_free[0]}

LEMMA IndexFacts ==
  ASSUME TypeOK, NEW m \in Nat, NEW c \in [Nat -> Int],
         GoodList(Core, block, owned, m, c), UsesIndex
  PROVE  /\ m > 0 /\ s_free[0] \in Blocks \ owned /\ c[m] = s_free[0]
         /\ s_nfree' = NICFREE /\ s_free' \in [Slots -> Blocks \union {0}]
         /\ block' \in [Blocks -> Image] /\ owned' \in SUBSET Blocks
         /\ GoodList(Core', block', owned', m - 1, c)
<1>1. /\ Core \in Image /\ Core.n = s_nfree /\ Core.f = s_free
      /\ GetfsCount = s_nfree /\ s_nfree \in Int
      /\ block \in [Blocks -> Image] /\ owned \in SUBSET Blocks
      /\ Zeroed \in Image /\ 0 \in Slots
  <2>1. Zeroed \in Image
    BY DEF Zeroed, Image
  <2> QED BY <2>1, CoreShape DEF TypeOK
<1>2. Core.n = 1 /\ Core.f[0] # 0
  BY <1>1, AllocStops DEF UsesIndex
<1>3. block' = [block EXCEPT ![Core.f[0]] = Zeroed] /\ owned' = owned \union {Core.f[0]}
  BY <1>1 DEF UsesIndex
<1>4. block' \in [Blocks -> Image] /\ \A x \in Blocks : x # Core.f[0] => block'[x] = block[x]
  BY <1>3, <1>1
<1>5. owned' \in SUBSET Blocks /\ \A x \in Blocks : x \in owned' <=> x \in owned \/ x = Core.f[0]
  <2>1. Core.f[0] \in Blocks
    BY <1>2, <1>1, CoreShape DEF TypeOK
  <2> QED BY <1>3, <2>1, <1>1
<1>6. m > 0 /\ Core.f[0] \in Blocks \ owned
      /\ GoodList(block[Core.f[0]], block', owned', m - 1, c)
  <2>1. PopsIndex(Core, block, block', owned, owned', Core.f[0])
    BY <1>2, <1>4, <1>5 DEF PopsIndex
  <2> QED BY <2>1, <1>4, <1>5, <1>1, PopIndex
<1>7. Core' = block[Core.f[0]]
  <2>1. block[Core.f[0]] \in Image
    BY <1>6, <1>1
  <2>2. Core' = [n |-> block[Core.f[0]].n, f |-> block[Core.f[0]].f]
    BY <1>1 DEF Core, UsesIndex
  <2> QED BY <2>1, <2>2 DEF Image
<1>8. GoodList(Core', block', owned', m - 1, c)
  BY <1>6, <1>7
<1>9. c[m] = s_free[0]
  <2>1. Shape(Core, block, owned, m, c)
    BY <1>1, ListShape
  <2>2. Remembers(Core, block, m, c, m, 0) /\ Entry(Core, block, m, c, m, 0) = s_free[0]
    BY <1>1, <1>2 DEF Remembers, Entry, ListNo
  <2> QED BY <2>2, <1>6 DEF GoodList, GoodHeads
<1>10. s_nfree' = NICFREE
  <2>1. m - 1 \in 0 .. m - 1 /\ (m - 1) + 1 = m
    BY <1>6
  <2> QED BY <2>1, <1>9 DEF GoodList, GoodCounts, UsesIndex
<1>11. s_free' \in [Slots -> Int]
  BY <1>1, <1>6 DEF Image, UsesIndex
<1>12. ASSUME NEW i \in Slots PROVE s_free'[i] \in Blocks \union {0}
  <2>1. Remembers(Core', block', m - 1, c, m - 1, i)
        /\ Entry(Core', block', m - 1, c, m - 1, i) = s_free'[i]
    <3>1. ListNo(Core', block', m - 1, c, m - 1) = Core'
      BY DEF ListNo
    <3>2. Core'.n = s_nfree' /\ Core'.f = s_free'
      BY DEF Core
    <3> QED BY <3>1, <3>2, <1>10, SizesAssumption DEF Remembers, Entry, Slots
  <2>2. m - 1 \in 0 .. m - 1 /\ 0 \in Slots
    BY <1>1, <1>6
  <2>3. CASE m - 1 = 0 /\ i = 0
    BY <2>1, <2>2, <2>3, <1>8 DEF GoodList, GoodHeads
  <2>4. CASE ~ (m - 1 = 0 /\ i = 0)
    BY <2>1, <2>2, <2>4, <1>8 DEF GoodList, GoodEntries
  <2> QED BY <2>3, <2>4
<1>13. s_free' \in [Slots -> Blocks \union {0}]
  BY <1>11, <1>12
<1> QED BY <1>1, <1>4, <1>5, <1>6, <1>8, <1>9, <1>10, <1>13

(* Each kind of allocation, on a good list. *)
LEMMA AllocFacts ==
  ASSUME TypeOK, NEW m \in Nat, NEW c \in [Nat -> Int],
         GoodList(Core, block, owned, m, c)
  PROVE  /\ AllocRemembered =>
              /\ s_nfree > 1 /\ s_nfree' = s_nfree - 1 /\ s_free' = s_free
              /\ s_free[s_nfree - 1] \in Blocks \ owned
              /\ GoodList(Core', block', owned', m, c)
         /\ AllocIndex =>
              /\ m > 0 /\ s_free[0] \in Blocks \ owned
              /\ GoodList(Core', block', owned', m - 1, c)
         /\ AllocNoSpace => owned = Blocks /\ IsFull(Core)
<1>1. /\ Core \in Image /\ Core.n = s_nfree /\ Core.f = s_free
      /\ GetfsCount = s_nfree /\ s_nfree \in Int
      /\ block \in [Blocks -> Image] /\ owned \in SUBSET Blocks
      /\ Zeroed \in Image /\ 0 \in Slots
  <2>1. Zeroed \in Image
    BY DEF Zeroed, Image
  <2> QED BY <2>1, CoreShape DEF TypeOK
<1>2. ASSUME AllocRemembered
      PROVE  /\ s_nfree > 1 /\ s_nfree' = s_nfree - 1 /\ s_free' = s_free
             /\ s_free[s_nfree - 1] \in Blocks \ owned
             /\ GoodList(Core', block', owned', m, c)
  <2>1. PICK i \in Remembered \ {0} :
          /\ StopsAt(i) /\ s_nfree' = i /\ s_free' = s_free
          /\ HandOut(s_free[i])
    BY <1>2 DEF AllocRemembered
  <2>2. i = s_nfree - 1
    BY <2>1, AllocStops
  <2>3. i \in Nat /\ i > 0 /\ Core.n = i + 1
    BY <2>1, <2>2, <1>1 DEF Remembered
  <2>4. Core' = [n |-> i, f |-> Core.f]
    BY <2>1, <1>1 DEF Core
  <2>5. block' = [block EXCEPT ![Core.f[i]] = Zeroed] /\ owned' = owned \union {Core.f[i]}
    BY <2>1, <1>1 DEF HandOut
  <2>6. Core' \in Image /\ Core'.n = i /\ Core'.f = Core.f
    BY <2>3, <2>4, <1>1 DEF Image
  <2>7. block' \in [Blocks -> Image] /\ \A x \in Blocks : x # Core.f[i] => block'[x] = block[x]
    BY <2>5, <1>1
  <2>8. Core.f[i] \in Blocks
    <3>1. s_free[i] # 0
      BY <2>2, <2>3, <1>1, AllocStops
    <3>3. s_nfree \in 0 .. NICFREE
      BY DEF TypeOK
    <3>4. i \in Slots
      BY <2>3, <3>3, <1>1, SizesAssumption DEF Slots
    <3>2. s_free \in [Slots -> Blocks \union {0}]
      BY DEF TypeOK
    <3> QED BY <3>1, <3>2, <3>4, <1>1
  <2>9. owned' \in SUBSET Blocks /\ \A x \in Blocks : x \in owned' <=> x \in owned \/ x = Core.f[i]
    BY <2>5, <2>8, <1>1
  <2>10. Core.f[i] \in Blocks \ owned /\ GoodList(Core', block', owned', m, c)
    <3>1. PopsRemembered(Core, Core', block, block', owned, owned', i, Core.f[i])
      BY <2>3, <2>6, <2>7, <2>9 DEF PopsRemembered
    <3>2. /\ Core \in Image /\ Core' \in Image
          /\ block \in [Blocks -> Image] /\ block' \in [Blocks -> Image]
          /\ owned \in SUBSET Blocks /\ owned' \in SUBSET Blocks
      BY <2>6, <2>7, <2>9, <1>1
    <3> QED BY <3>1, <3>2, PopRemembered
  <2> QED BY <2>1, <2>2, <2>3, <2>10, <1>1
<1>3. ASSUME AllocIndex
      PROVE  /\ m > 0 /\ s_free[0] \in Blocks \ owned
             /\ GoodList(Core', block', owned', m - 1, c)
  BY <1>3, IndexFacts DEF AllocIndex, TakesIndex, HandOut, UsesIndex
<1>4. ASSUME AllocNoSpace PROVE owned = Blocks /\ IsFull(Core)
  <2>1. IsFull(Core)
    <3>1. s_nfree \in 0 .. NICFREE
      BY DEF TypeOK
    <3>2. ASSUME s_nfree > 0 PROVE s_free[s_nfree - 1] = 0
      <4>1. s_nfree - 1 \in Remembered
        BY <1>1, <3>2 DEF Remembered
      <4> QED BY <4>1, <3>2, <1>4, AllocStops DEF AllocNoSpace
    <3>3. s_nfree <= 1
      BY <3>1, <3>2, AllocStops, <1>1
    <3>4. s_nfree = 1 => s_free[0] = 0
      BY <3>2
    <3> QED BY <3>1, <3>3, <3>4, <1>1, SizesAssumption DEF IsFull
  <2> QED BY <2>1, <1>1, FullIsEmpty
<1> QED BY <1>2, <1>3, <1>4

(* A chain that goes on where another one ends. *)
Follows(m, c, x, y) == x >= m /\ \A k \in 1 .. m : y[k] = c[k]

(* free of an owned block, on a good list. *)
LEMMA FreeFacts ==
  ASSUME TypeOK, NEW m \in Nat, NEW c \in [Nat -> Int],
         GoodList(Core, block, owned, m, c), NEW b \in owned, FreeGood(b)
  PROVE  /\ s_nfree' \in 0 .. NICFREE
         /\ s_free' \in [Slots -> Blocks \union {0}]
         /\ block' \in [Blocks -> Image]
         /\ owned' \in SUBSET Blocks
         /\ \E x \in Nat, y \in [Nat -> Int] :
              GoodList(Core', block', owned', x, y) /\ Follows(m, c, x, y)
<1> DEFINE empty == GetfsCount <= 0
           n == IF empty THEN 1 ELSE GetfsCount
           f == IF empty THEN [s_free EXCEPT ![0] = 0] ELSE s_free
<1>1. /\ Core \in Image /\ Core.n = s_nfree /\ Core.f = s_free
      /\ GetfsCount = s_nfree /\ s_nfree \in 0 .. NICFREE
      /\ block \in [Blocks -> Image] /\ owned \in SUBSET Blocks
      /\ 0 \in Slots /\ Blocks \subseteq Int
      /\ s_free \in [Slots -> Blocks \union {0}]
      /\ b \in Blocks
  BY CoreShape DEF TypeOK
<1>2. /\ s_nfree' = IF Full(n) THEN 1 ELSE n + 1
      /\ s_free' = [f EXCEPT ![IF Full(n) THEN 0 ELSE n] = b]
      /\ block' = IF Full(n) THEN [block EXCEPT ![b] = [n |-> n, f |-> f]] ELSE block
      /\ owned' = owned \ {b}
  BY DEF FreeGood
<1>3. n \in 1 .. NICFREE /\ f \in [Slots -> Blocks \union {0}]
  BY <1>1, SizesAssumption
<1>4. PICK top : top = [n |-> n, f |-> f]
  OBVIOUS
<1>5. top.n = n /\ top.f = f /\ top \in Image
  <2>1. f \in [Slots -> Int]
    BY <1>3, TableIsInt
  <2> QED BY <2>1, <1>3, <1>4 DEF Image
<1>6. GoodList(top, block, owned, m, c)
  <2>1. CASE empty
    <3>1. s_nfree = 0
      BY <1>1, <2>1
    <3>2. m = 0 /\ owned = Blocks
      BY <3>1, <1>1, FullIsEmpty DEF IsFull
    <3>3. IsFull(top)
      BY <1>1, <1>5, <2>1 DEF IsFull
    <3> QED BY <3>2, <3>3, <1>1, <1>5, GoodListEmpty
  <2>2. CASE ~ empty
    BY <2>2, <1>1, <1>4 DEF Core
  <2> QED BY <2>1, <2>2
<1>7. owned' \in SUBSET Blocks /\ \A x \in Blocks : x \in owned' <=> x \in owned /\ x # b
  BY <1>1, <1>2
<1> HIDE DEF n, f
<1>8. CASE Full(n)
  <2>1. n = NICFREE
    BY <1>3, <1>8, SizesAssumption DEF Full
  <2>2. /\ s_nfree' = 1 /\ s_free' = [f EXCEPT ![0] = b]
        /\ block' = [block EXCEPT ![b] = top]
    BY <1>2, <1>4, <1>8
  <2>3. s_free' \in [Slots -> Blocks \union {0}] /\ s_free'[0] = b
    BY <2>2, <1>1, <1>3
  <2>4. block' \in [Blocks -> Image] /\ block'[b] = top
        /\ \A x \in Blocks : x # b => block'[x] = block[x]
    BY <2>2, <1>1, <1>5
  <2>5. Core' \in Image /\ Core'.n = 1 /\ Core'.f[0] = b
    <3>1. s_free' \in [Slots -> Int]
      BY <2>3, TableIsInt
    <3> QED BY <3>1, <2>2, <2>3 DEF Core, Image
  <2>6. PICK d \in [Nat -> Int] : d[m + 1] = b /\ \A k \in 1 .. m : d[k] = c[k]
    <3>1. b \in Int
      BY <1>1
    <3>2. PICK d : d = [c EXCEPT ![m + 1] = b]
      OBVIOUS
    <3>3. d \in [Nat -> Int]
      BY <3>1, <3>2
    <3>4. d[m + 1] = b /\ \A k \in 1 .. m : d[k] = c[k]
      BY <3>2
    <3> QED BY <3>3, <3>4
  <2>7. PushesIndex(top, Core', block, block', owned, owned', m, c, d, b)
    BY <2>1, <2>4, <2>5, <2>6, <1>5, <1>7 DEF PushesIndex
  <2>8. /\ top \in Image /\ Core' \in Image
        /\ block \in [Blocks -> Image] /\ block' \in [Blocks -> Image]
        /\ owned \in SUBSET Blocks /\ owned' \in SUBSET Blocks
    BY <1>1, <1>5, <1>7, <2>4, <2>5
  <2>9. GoodList(Core', block', owned', m + 1, d)
    BY <2>7, <2>8, <1>6, PushIndex
  <2>10. m + 1 \in Nat /\ s_nfree' \in 0 .. NICFREE
    BY <2>2, SizesAssumption
  <2>11. Follows(m, c, m + 1, d)
    BY <2>6 DEF Follows
  <2> QED BY <2>3, <2>8, <2>9, <2>10, <2>11
<1>9. CASE ~ Full(n)
  <2>1. n < NICFREE /\ n \in Nat /\ n > 0 /\ n \in Slots
    BY <1>3, <1>9, SizesAssumption DEF Full, Slots
  <2>2. /\ s_nfree' = n + 1 /\ s_free' = [f EXCEPT ![n] = b]
        /\ block' = block
    BY <1>2, <1>9
  <2>3. /\ s_free' \in [Slots -> Blocks \union {0}] /\ s_free'[n] = b
        /\ \A j \in Slots : j # n => s_free'[j] = f[j]
    BY <2>1, <2>2, <1>1, <1>3
  <2>4. Core' \in Image /\ Core'.n = n + 1 /\ Core'.f = s_free'
    <3>1. s_free' \in [Slots -> Int]
      BY <2>3, TableIsInt
    <3> QED BY <3>1, <2>1, <2>2 DEF Core, Image
  <2>5. PushesRemembered(top, Core', owned, owned', b)
    BY <2>1, <2>3, <2>4, <1>5, <1>7, SizesAssumption DEF PushesRemembered
  <2>6. /\ top \in Image /\ Core' \in Image
        /\ block \in [Blocks -> Image]
        /\ owned \in SUBSET Blocks /\ owned' \in SUBSET Blocks
    BY <1>1, <1>5, <1>7, <2>4
  <2>7. GoodList(Core', block, owned', m, c)
    BY <2>5, <2>6, <1>6, PushRemembered
  <2>8. GoodList(Core', block', owned', m, c) /\ block' \in [Blocks -> Image]
    BY <2>2, <2>6, <2>7
  <2>9. s_nfree' \in 0 .. NICFREE
    BY <2>1, <2>2, SizesAssumption
  <2>10. Follows(m, c, m, c)
    BY DEF Follows
  <2> QED BY <2>3, <2>6, <2>8, <2>9, <2>10
<1> QED BY <1>8, <1>9

LEMMA InitInv == Init => Inv
<1> SUFFICES ASSUME Init PROVE Inv
  OBVIOUS
<1>1. TypeOK
  BY SizesAssumption, JunkAssumption DEF Init, TypeOK, Zeroed
<1>2. Saved
  BY DEF Init, Saved, CleanIsSaved
<1>3. IsFull(Core) /\ Core \in Image /\ block \in [Blocks -> Image] /\ owned = Blocks
  BY <1>1, CoreShape DEF Init, IsFull, TypeOK
<1>4. PICK c : c = [k \in Nat |-> 0]
  OBVIOUS
<1>5. GoodList(Core, block, owned, 0, c)
  BY <1>3, GoodListEmpty
<1> QED BY <1>1, <1>2, <1>4, <1>5 DEF Inv, IndInv

(***************************************************************************)
(* What a step keeps of the saved superblock, when it marks it modified or *)
(* leaves both of them alone.                                              *)
(***************************************************************************)
LEMMA SavedMarked == Saved /\ s_fmod' = TRUE /\ mounted' = mounted /\ mounted => Saved'
  BY DEF Saved, CleanIsSaved

LEMMA SavedSame ==
  Saved /\ UNCHANGED <<s_nfree, s_free, s_fmod, super, mounted>> => Saved'
  BY DEF Saved, CleanIsSaved, Core

(***************************************************************************)
(* Only taking an index block shortens the chain; the other steps follow   *)
(* it, in all the kernels.                                                 *)
(***************************************************************************)
NextButIndex ==
  \/ AllocRemembered \/ AllocNoSpace
  \/ \E bn \in BadNumbers : FreeBad(bn)
  \/ \E b \in owned : FreeGood(b)
  \/ \E b \in owned, image \in Junk : WriteData(b, image)
  \/ Sync \/ Unmount \/ Mount

LEMMA NextChain ==
  ASSUME NEW m \in Nat, NEW c \in [Nat -> Int], IndInv(m, c), [NextButIndex]_vars
  PROVE  \E x \in Nat, y \in [Nat -> Int] :
           IndInv(x, y)' /\ Follows(m, c, x, y)
<1> DEFINE Goal == \E x \in Nat, y \in [Nat -> Int] :
                     /\ TypeOK' /\ Saved' /\ GoodList(Core', block', owned', x, y)
                     /\ Follows(m, c, x, y)
<1>0. TypeOK /\ Saved /\ GoodList(Core, block, owned, m, c)
  BY DEF IndInv
<1>f. Follows(m, c, m, c)
  BY DEF Follows
<1> SUFFICES Goal
  BY DEF IndInv
<1>s. /\ Core \in Image /\ block \in [Blocks -> Image] /\ owned \in SUBSET Blocks
      /\ Zeroed \in Image
  <2>1. Zeroed \in Image
    BY DEF Zeroed, Image
  <2> QED BY <1>0, <2>1, CoreShape DEF TypeOK
<1>1. CASE AllocRemembered
  <2>1. /\ s_nfree > 1 /\ s_nfree' = s_nfree - 1 /\ s_free' = s_free
        /\ s_free[s_nfree - 1] \in Blocks \ owned
        /\ GoodList(Core', block', owned', m, c)
    BY <1>0, <1>1, AllocFacts
  <2>2. PICK i \in Remembered : StopsAt(i) /\ HandOut(s_free[i]) /\ mounted
    BY <1>1 DEF AllocRemembered
  <2>3. i = s_nfree - 1
    BY <2>2, <1>0, AllocStops
  <2>4. HandOut(s_free[s_nfree - 1])
    BY <2>2, <2>3
  <2>5. s_nfree \in 0 .. NICFREE
    BY <1>0 DEF TypeOK
  <2>6. s_nfree' \in 0 .. NICFREE
    BY <2>1, <2>5, SizesAssumption
  <2>7. TypeOK'
    BY <2>1, <2>4, <2>6, <1>0, <1>s DEF TypeOK, HandOut
  <2>8. Saved'
    BY <2>2, <1>0, SavedMarked DEF HandOut
  <2> QED BY <2>1, <2>7, <2>8, <1>f
<1>3. CASE AllocNoSpace
  <2>1. owned = Blocks /\ IsFull(Core)
    BY <1>0, <1>3, AllocFacts
  <2>2. /\ s_nfree' = 0 /\ result' = NULL
        /\ UNCHANGED <<s_free, s_fmod, super, block, owned, mounted>>
    BY <1>3 DEF AllocNoSpace
  <2>3. TypeOK'
    BY <2>2, <1>0, SizesAssumption DEF TypeOK
  <2>4. Core'.n = 0 /\ IsFull(Core')
    BY <2>2 DEF Core, IsFull
  <2>8. ~ s_fmod => IsFull(super)
    BY <2>1, <1>0 DEF Saved, CleanIsSaved
  <2>9. ~ s_fmod' => IsFull(super')
    BY <2>2, <2>8
  <2>10. CleanIsSaved'
    BY <2>4, <2>9 DEF CleanIsSaved
  <2>5. Saved'
    BY <2>2, <2>10, <1>0 DEF Saved
  <2>6. Core' \in Image
    <3>1. s_free' \in [Slots -> Int]
      BY <2>3, TableIsInt DEF TypeOK
    <3> QED BY <3>1, <2>2 DEF Core, Image
  <2>7. GoodList(Core', block', owned', 0, c)
    BY <2>1, <2>2, <2>4, <2>6, <1>s, GoodListEmpty
  <2>11. m = 0
    BY <2>1, <1>0, <1>s, FullIsEmpty
  <2>12. Follows(m, c, 0, c)
    BY <2>11 DEF Follows
  <2> QED BY <2>3, <2>5, <2>7, <2>12
<1>4. ASSUME NEW bn \in BadNumbers, FreeBad(bn) PROVE Goal
  <2>1. s_nfree' = s_nfree
    BY <1>0, <1>4, CoreShape DEF FreeBad
  <2>2. UNCHANGED <<s_free, super, block, owned, mounted>> /\ s_fmod' = TRUE /\ mounted /\ result' = NONE
    BY <1>4 DEF FreeBad
  <2>3. TypeOK'
    BY <2>1, <2>2, <1>0 DEF TypeOK
  <2>4. Saved' /\ Core' = Core
    BY <2>1, <2>2, <1>0, SavedMarked DEF Core
  <2> QED BY <2>2, <2>3, <2>4, <1>0, <1>f
<1>5. ASSUME NEW b \in owned, FreeGood(b) PROVE Goal
  <2>1. /\ s_nfree' \in 0 .. NICFREE
        /\ s_free' \in [Slots -> Blocks \union {0}]
        /\ block' \in [Blocks -> Image]
        /\ owned' \in SUBSET Blocks
        /\ \E x \in Nat, y \in [Nat -> Int] :
             GoodList(Core', block', owned', x, y) /\ Follows(m, c, x, y)
    BY <1>0, <1>5, FreeFacts
  <2>2. s_fmod' = TRUE /\ result' = NONE /\ mounted /\ mounted' = mounted /\ super' = super
    BY <1>5 DEF FreeGood
  <2>3. TypeOK'
    BY <2>1, <2>2, <1>0 DEF TypeOK
  <2>4. Saved'
    BY <2>2, <1>0, SavedMarked
  <2> QED BY <2>1, <2>3, <2>4
<1>6. ASSUME NEW b \in owned, NEW image \in Junk, WriteData(b, image) PROVE Goal
  <2>1. /\ block' = [block EXCEPT ![b] = image] /\ image \in Image
        /\ UNCHANGED <<s_nfree, s_free, s_fmod, super, owned, mounted>> /\ result' = NONE
    BY <1>6, JunkAssumption DEF WriteData, core
  <2>2. block' \in [Blocks -> Image] /\ WritesOwned(block, block', b)
    BY <2>1, <1>s DEF WritesOwned
  <2>3. GoodList(Core, block', owned, m, c)
    BY <2>2, <1>0, <1>s, WriteOwned
  <2>4. TypeOK' /\ Saved' /\ Core' = Core
    BY <2>1, <2>2, <1>0, SavedSame DEF TypeOK, Core
  <2> QED BY <2>1, <2>3, <2>4, <1>f
<1>7. ASSUME SaveSuper, mounted' \in BOOLEAN PROVE Goal
  <2>1. /\ super' = IF s_fmod THEN Core ELSE super
        /\ s_fmod' = FALSE /\ result' = NONE
        /\ UNCHANGED <<s_nfree, s_free, block, owned>>
    BY <1>7 DEF SaveSuper, Core
  <2>2. Core' = Core
    BY <2>1 DEF Core
  <2>3. Core \in [n : 0 .. NICFREE, f : [Slots -> Blocks \union {0}]]
    BY <1>0 DEF TypeOK, Core
  <2>4. TypeOK'
    BY <2>1, <2>3, <1>0, <1>7 DEF TypeOK
  <2>5. Saved'
    BY <2>1, <2>2, <1>0 DEF Saved, CleanIsSaved, TypeOK
  <2> QED BY <2>1, <2>2, <2>4, <2>5, <1>0, <1>f
<1>8. CASE Sync
  BY <1>0, <1>7, <1>8 DEF Sync, TypeOK
<1>9. CASE Unmount
  BY <1>7, <1>9 DEF Unmount
<1>10. CASE Mount
  <2>1. /\ ~ mounted /\ mounted' = TRUE /\ s_fmod' = FALSE /\ result' = NONE
        /\ s_nfree' = super.n /\ s_free' = super.f
        /\ UNCHANGED <<super, block, owned>>
    BY <1>10 DEF Mount
  <2>2. super \in [n : 0 .. NICFREE, f : [Slots -> Blocks \union {0}]]
    BY <1>0 DEF TypeOK
  <2>3. Core' = super
    BY <2>1, <2>2 DEF Core
  <2>4. TypeOK'
    BY <2>1, <2>2, <1>0 DEF TypeOK
  <2>5. Saved'
    BY <2>1, <2>3 DEF Saved, CleanIsSaved
  <2>6. super = Core \/ (IsFull(super) /\ IsFull(Core))
    BY <2>1, <1>0 DEF Saved, CleanIsSaved
  <2>7. CASE super = Core
    BY <2>1, <2>3, <2>4, <2>5, <2>7, <1>0, <1>f
  <2>8. CASE IsFull(super) /\ IsFull(Core)
    <3>1. owned = Blocks /\ Follows(m, c, 0, c)
      BY <2>8, <1>0, <1>s, FullIsEmpty DEF Follows
    <3>2. super \in Image
      BY <2>2, TableIsInt, SizesAssumption DEF Image
    <3>3. GoodList(super, block, Blocks, 0, c)
      BY <2>8, <3>2, <1>s, GoodListEmpty
    <3> QED BY <3>1, <3>3, <2>1, <2>3, <2>4, <2>5
  <2> QED BY <2>6, <2>7, <2>8
<1>11. CASE UNCHANGED vars
  <2>1. TypeOK' /\ Saved' /\ Core' = Core /\ block' = block /\ owned' = owned
    BY <1>11, <1>0 DEF vars, core, TypeOK, Saved, CleanIsSaved, Core
  <2> QED BY <2>1, <1>0, <1>f
<1> QED BY <1>1, <1>3, <1>4, <1>5, <1>6, <1>8, <1>9, <1>10, <1>11 DEF NextButIndex

LEMMA NextInv == Inv /\ [Next]_vars => Inv'
<1> SUFFICES ASSUME Inv, [Next]_vars PROVE Inv'
  OBVIOUS
<1>0. PICK m \in Nat, c \in [Nat -> Int] : IndInv(m, c)
  BY DEF Inv
<1>1. CASE AllocIndex
  <2>1. /\ mounted /\ HandOut(s_free[0]) /\ UsesIndex
    BY <1>1 DEF AllocIndex, TakesIndex, HandOut, UsesIndex
  <2>2. /\ m > 0 /\ s_free[0] \in Blocks
        /\ s_nfree' = NICFREE /\ s_free' \in [Slots -> Blocks \union {0}]
        /\ block' \in [Blocks -> Image] /\ owned' \in SUBSET Blocks
        /\ GoodList(Core', block', owned', m - 1, c)
    BY <2>1, <1>0, IndexFacts DEF IndInv
  <2>3. TypeOK'
    BY <2>1, <2>2, <1>0, SizesAssumption DEF IndInv, TypeOK, HandOut
  <2>4. Saved' /\ m - 1 \in Nat
    BY <2>1, <2>2, <1>0, SavedMarked DEF IndInv, HandOut
  <2> QED BY <2>2, <2>3, <2>4 DEF Inv, IndInv
<1>2. CASE [NextButIndex]_vars
  BY <1>0, <1>2, NextChain DEF Inv
<1> QED BY <1>1, <1>2 DEF Next, NextButIndex

(* The list of a V6 volume always has the structure of IndInv. *)
THEOREM ListCorrect == Spec => []Inv
BY InitInv, NextInv, PTL DEF Spec

(* The counts and numbers of the superblock stay in range. *)
THEOREM TypeCorrect == Spec => []TypeOK
<1>1. Inv => TypeOK
  BY DEF Inv, IndInv
<1> QED BY <1>1, ListCorrect, PTL

(***************************************************************************)
(* A superblock not marked modified can be read back: remounting a volume  *)
(* that was synced finds the list it had.                                  *)
(***************************************************************************)
THEOREM SavedWhenClean == Spec => []CleanIsSaved
<1>1. Inv => CleanIsSaved
  BY DEF Inv, IndInv, Saved
<1> QED BY <1>1, ListCorrect, PTL

(* alloc never returns a block that a file owns. *)
THEOREM NeverHandsOutTwice == Spec => NeverTwice
<1>1. ASSUME Inv, AllocRemembered \/ AllocIndex PROVE result' \notin owned
  <2>0. PICK m \in Nat, c \in [Nat -> Int] : TypeOK /\ GoodList(Core, block, owned, m, c)
    BY <1>1 DEF Inv, IndInv
  <2>1. CASE AllocRemembered
    <3>1. PICK i \in Remembered : StopsAt(i) /\ result' = s_free[i]
      BY <2>1 DEF AllocRemembered, HandOut
    <3>2. i = s_nfree - 1
      BY <3>1, <2>0, AllocStops
    <3> QED BY <3>1, <3>2, <2>0, <2>1, AllocFacts
  <2>2. CASE AllocIndex
    <3>1. result' = s_free[0]
      BY <2>2 DEF AllocIndex, TakesIndex, HandOut
    <3> QED BY <3>1, <2>0, <2>2, AllocFacts
  <2> QED BY <1>1, <2>1, <2>2
<1>2. Inv /\ [Next]_vars => [AllocRemembered \/ AllocIndex => result' \notin owned]_vars
  BY <1>1
<1>3. Spec => [][Next]_vars
  BY DEF Spec
<1> QED BY <1>2, <1>3, ListCorrect, PTL DEF NeverTwice

LEMMA StepImplements ==
  ASSUME Inv, [Next]_vars PROVE [Abstract!Next]_(Abstract!vars)
<1>0. PICK m \in Nat, c \in [Nat -> Int] : TypeOK /\ GoodList(Core, block, owned, m, c)
  BY DEF Inv, IndInv
<1>t. owned \subseteq Blocks
  BY <1>0 DEF TypeOK
<1>1. CASE AllocRemembered
  <2>1. PICK i \in Remembered : StopsAt(i) /\ HandOut(s_free[i])
    BY <1>1 DEF AllocRemembered
  <2>2. i = s_nfree - 1
    BY <2>1, <1>0, AllocStops
  <2>3. s_free[i] \in Blocks \ owned
    BY <2>2, <1>0, <1>1, AllocFacts
  <2>4. result' = s_free[i] /\ owned' = owned \union {s_free[i]}
    BY <2>1 DEF HandOut
  <2>5. Blocks \ owned' = (Blocks \ owned) \ {s_free[i]}
    BY <2>4
  <2>6. Abstract!Alloc(s_free[i])
    BY <2>3, <2>4, <2>5 DEF Abstract!Alloc
  <2> QED BY <2>3, <2>6 DEF Abstract!Next
<1>2. CASE AllocIndex
  <2>1. s_free[0] \in Blocks \ owned
    BY <1>0, <1>2, AllocFacts
  <2>2. result' = s_free[0] /\ owned' = owned \union {s_free[0]}
    BY <1>2 DEF AllocIndex, TakesIndex, HandOut
  <2>3. Blocks \ owned' = (Blocks \ owned) \ {s_free[0]}
    BY <2>2
  <2>4. Abstract!Alloc(s_free[0])
    BY <2>1, <2>2, <2>3 DEF Abstract!Alloc
  <2> QED BY <2>1, <2>4 DEF Abstract!Next
<1>3. CASE AllocNoSpace
  <2>1. owned = Blocks
    BY <1>0, <1>3, AllocFacts
  <2>2. result' = NULL /\ owned' = owned
    BY <1>3 DEF AllocNoSpace
  <2> QED BY <2>1, <2>2 DEF Abstract!Next, Abstract!NoSpace
<1>4. ASSUME NEW b \in owned, FreeGood(b) PROVE Abstract!Next
  <2>1. result' = NONE /\ owned' = owned \ {b}
    BY <1>4 DEF FreeGood
  <2>2. b \in Blocks /\ Blocks \ owned' = (Blocks \ owned) \union {b}
    BY <2>1, <1>t
  <2>3. Abstract!Free(b)
    BY <2>1, <2>2 DEF Abstract!Free
  <2> QED BY <2>2, <2>3 DEF Abstract!Next
<1>5. ASSUME result' = NONE, owned' = owned PROVE Abstract!Next
  BY <1>5 DEF Abstract!Next, Abstract!Other
<1>6. ASSUME NEW bn \in BadNumbers, FreeBad(bn) PROVE Abstract!Next
  BY <1>5, <1>6 DEF FreeBad
<1>7. ASSUME NEW b \in owned, NEW image \in Junk, WriteData(b, image) PROVE Abstract!Next
  BY <1>5, <1>7 DEF WriteData
<1>8. CASE Sync \/ Unmount
  BY <1>5, <1>8 DEF Sync, Unmount, SaveSuper
<1>9. CASE Mount
  BY <1>5, <1>9 DEF Mount
<1>10. CASE UNCHANGED vars
  BY <1>10 DEF vars, Abstract!vars
<1> QED BY <1>1, <1>2, <1>3, <1>4, <1>6, <1>7, <1>8, <1>9, <1>10 DEF Next

(***************************************************************************)
(* The list implements the set of blocks no file owns: an allocation fails *)
(* only when there is none, and takes one otherwise.                       *)
(***************************************************************************)
THEOREM ImplementsSet == Spec => FreeListImplementsSet
<1>1. Init => Abstract!Init
  BY DEF Init, Abstract!Init
<1>2. Inv /\ [Next]_vars => [Abstract!Next]_(Abstract!vars)
  BY StepImplements
<1> QED BY <1>1, <1>2, ListCorrect, PTL DEF Spec, FreeListImplementsSet, Abstract!Spec

-----------------------------------------------------------------------------
(***************************************************************************)
(* Even when an index block is read with an error and its image is that of *)
(* something else, alloc and free stay inside s_free.                      *)
(***************************************************************************)
FaultyTypes ==
  /\ s_nfree \in Int
  /\ s_free \in [Slots -> Int]
  /\ super \in Image
  /\ block \in [Blocks -> Image]
  /\ owned \subseteq Blocks

LEMMA FaultyStep == FaultyTypes /\ [FaultyNext]_vars => FaultyTypes'
<1> SUFFICES ASSUME FaultyTypes, [FaultyNext]_vars PROVE FaultyTypes'
  OBVIOUS
<1> USE DEF FaultyTypes
<1>0. /\ Zeroed \in Image /\ 0 \in Slots /\ Blocks \subseteq Int
      /\ GetfsCount \in Int /\ GetfsCount <= NICFREE
      /\ \A b \in Int : ~ Badblock(b) <=> b \in Blocks
  <2>1. Zeroed \in Image
    BY DEF Zeroed, Image
  <2>2. 0 \in Slots /\ Blocks \subseteq Int /\ GetfsCount \in Int /\ GetfsCount <= NICFREE
    BY SizesAssumption DEF Slots, Blocks, GetfsCount
  <2>3. \A b \in Int : ~ Badblock(b) <=> b \in Blocks
    BY SizesAssumption DEF Badblock, Blocks
  <2> QED BY <2>1, <2>2, <2>3
<1>1. CASE AllocRemembered
  <2>1. PICK i \in Remembered \ {0} :
          StopsAt(i) /\ s_free[i] # 0 /\ s_nfree' = i /\ s_free' = s_free /\ HandOut(s_free[i])
    BY <1>1 DEF AllocRemembered
  <2>2. i \in Int /\ i \in Slots
    BY <1>0, SizesAssumption DEF Remembered, Slots
  <2>3. s_free[i] \in Blocks
    BY <2>1, <2>2, <1>0 DEF StopsAt
  <2> QED BY <2>1, <2>2, <2>3, <1>0 DEF HandOut
<1>2. ASSUME NEW image \in Image, TakesIndex(image) PROVE FaultyTypes'
  <2>1. s_free[0] \in Blocks
    BY <1>2, <1>0 DEF TakesIndex, StopsAt
  <2>2. image.n \in Int /\ image.f \in [Slots -> Int]
    BY DEF Image
  <2> QED BY <1>2, <2>1, <2>2, <1>0 DEF TakesIndex, HandOut
<1>3. CASE AllocIndex
  <2>1. s_free[0] \in Blocks
    BY <1>3, <1>0 DEF AllocIndex, TakesIndex, StopsAt
  <2>2. block[s_free[0]] \in Image
    BY <2>1
  <2> QED BY <1>2, <1>3, <2>2 DEF AllocIndex
<1>4. CASE AllocNoSpace
  BY <1>4 DEF AllocNoSpace
<1>5. ASSUME NEW bn \in BadNumbers, FreeBad(bn) PROVE FaultyTypes'
  BY <1>0, <1>5 DEF FreeBad
<1>6. ASSUME NEW b \in owned, FreeGood(b) PROVE FaultyTypes'
  <2> DEFINE empty == GetfsCount <= 0
             n == IF empty THEN 1 ELSE GetfsCount
             f == IF empty THEN [s_free EXCEPT ![0] = 0] ELSE s_free
  <2>1. n \in Int /\ f \in [Slots -> Int]
    BY <1>0
  <2>2. /\ s_nfree' = IF Full(n) THEN 1 ELSE n + 1
        /\ s_free' = [f EXCEPT ![IF Full(n) THEN 0 ELSE n] = b]
        /\ block' = IF Full(n) THEN [block EXCEPT ![b] = [n |-> n, f |-> f]] ELSE block
        /\ owned' = owned \ {b} /\ super' = super
    BY <1>6 DEF FreeGood
  <2>3. [n |-> n, f |-> f] \in Image
    BY <2>1 DEF Image
  <2>4. b \in Int
    BY <1>0
  <2> HIDE DEF n, f
  <2>5. s_free' \in [Slots -> Int] /\ s_nfree' \in Int
    <3>1. PICK slot : slot = IF Full(n) THEN 0 ELSE n
      OBVIOUS
    <3>2. s_free' = [f EXCEPT ![slot] = b]
      BY <2>2, <3>1
    <3>3. s_free' \in [Slots -> Int]
      BY <3>2, <2>1, <2>4
    <3>4. s_nfree' \in Int
      BY <2>1, <2>2
    <3> QED BY <3>3, <3>4
  <2>6. block' \in [Blocks -> Image]
    BY <2>2, <2>3
  <2> QED BY <2>2, <2>5, <2>6
<1>7. ASSUME NEW b \in owned, NEW image \in Junk, WriteData(b, image) PROVE FaultyTypes'
  BY <1>7, JunkAssumption DEF WriteData, core
<1>8. CASE Sync \/ Unmount
  <2>1. super' = (IF s_fmod THEN [n |-> s_nfree, f |-> s_free] ELSE super)
        /\ UNCHANGED <<s_nfree, s_free, block, owned>>
    BY <1>8 DEF Sync, Unmount, SaveSuper
  <2>2. [n |-> s_nfree, f |-> s_free] \in Image
    BY DEF Image
  <2> QED BY <2>1, <2>2
<1>9. CASE Mount
  <2>1. super.n \in Int /\ super.f \in [Slots -> Int]
    BY DEF Image
  <2> QED BY <1>9, <2>1 DEF Mount
<1>10. CASE AllocReadError
  <2>1. PICK image \in Junk \union Range(block) : TakesIndex(image)
    BY <1>10 DEF AllocReadError
  <2>2. image \in Image
    BY JunkAssumption DEF Range
  <2> QED BY <2>1, <2>2, <1>2
<1>11. CASE UNCHANGED vars
  BY <1>11 DEF vars, core
<1> QED BY <1>1, <1>3, <1>4, <1>5, <1>6, <1>7, <1>8, <1>9, <1>10, <1>11 DEF Next, FaultyNext

THEOREM StaysInBounds == FaultySpec => []SlotsInBounds
<1>1. Init => FaultyTypes
  BY SizesAssumption, JunkAssumption DEF Init, FaultyTypes, Zeroed, Image
<1>2. FaultyTypes => SlotsInBounds
  BY SizesAssumption DEF FaultyTypes, SlotsInBounds, Remembered, GetfsCount, Slots
<1> QED BY <1>1, <1>2, FaultyStep, PTL DEF FaultySpec


-----------------------------------------------------------------------------
(***************************************************************************)
(* The walk down a chain c of j index blocks, from an image that names     *)
(* c[j], as statfs walks it and the next mount uses it.                    *)
(***************************************************************************)
HeadOf(c, j) == IF j = 0 THEN 0 ELSE c[j]

LeadsDown(top, blk, j, c) ==
  /\ NextIndex(top) = HeadOf(c, j)
  /\ \A i \in 1 .. j : c[i] \in Blocks /\ NextIndex(blk[c[i]]) = HeadOf(c, i - 1)

Follow(blk, index) == IF Badblock(index) THEN Zeroed ELSE blk[index]

IsWalk(w, top, blk) ==
  w = [k \in 0 .. s_fsize |-> IF k = 0 THEN top ELSE Follow(blk, NextIndex(w[k - 1]))]

LEMMA BadblockFacts ==
  /\ Badblock(0) /\ NextIndex(Zeroed) = 0
  /\ \A b \in Blocks : ~Badblock(b) /\ b # 0
BY SizesAssumption DEF Badblock, NextIndex, Zeroed, Blocks

(* A walk meets the index blocks from the last to the first, and then 0.   *)
LEMMA WalkMeets ==
  ASSUME NEW top, NEW blk, NEW j \in Nat, NEW c, LeadsDown(top, blk, j, c),
         NEW w, IsWalk(w, top, blk)
  PROVE  \A k \in 0 .. s_fsize : NextIndex(w[k]) = HeadOf(c, IF k < j THEN j - k ELSE 0)
<1> DEFINE At(k) == HeadOf(c, IF k < j THEN j - k ELSE 0)
           Wrong == {k \in 0 .. s_fsize : NextIndex(w[k]) # At(k)}
<1>1. SUFFICES ASSUME Wrong # {} PROVE FALSE
  OBVIOUS
<1>2. PICK k \in Wrong : \A l \in Wrong : k <= l
  <2>1. Wrong \subseteq Nat
    BY SizesAssumption
  <2> HIDE DEF Wrong
  <2> QED BY <1>1, <2>1, LeastNatural
<1>3. k \in 0 .. s_fsize /\ NextIndex(w[k]) # At(k)
  OBVIOUS
<1>4. w[0] = top /\ At(0) = HeadOf(c, j)
  BY SizesAssumption DEF IsWalk
<1>5. k # 0
  BY <1>3, <1>4 DEF LeadsDown
<1>6. k - 1 \in 0 .. s_fsize /\ k - 1 \notin Wrong
  BY <1>2, <1>3, <1>5, SizesAssumption
<1>7. w[k] = Follow(blk, At(k - 1))
  <2>1. NextIndex(w[k - 1]) = At(k - 1)
    BY <1>6
  <2>2. w[k] = Follow(blk, NextIndex(w[k - 1]))
    BY <1>3, <1>5 DEF IsWalk
  <2> QED BY <2>1, <2>2
<1>8. CASE k - 1 < j
  <2>1. j - (k - 1) \in 1 .. j /\ At(k - 1) = c[j - (k - 1)] /\ (j - (k - 1)) - 1 = j - k
    BY <1>3, <1>5, <1>8, SizesAssumption DEF HeadOf
  <2>2. NextIndex(w[k]) = HeadOf(c, j - k)
    BY <2>1, <1>7, BadblockFacts DEF LeadsDown, Follow
  <2>3. At(k) = HeadOf(c, j - k)
    BY <1>3, <1>8, SizesAssumption
  <2> QED BY <2>2, <2>3, <1>3
<1>9. CASE ~(k - 1 < j)
  <2>1. At(k - 1) = 0 /\ At(k) = 0
    BY <1>3, <1>5, <1>9, SizesAssumption DEF HeadOf
  <2> QED BY <2>1, <1>3, <1>7, BadblockFacts DEF Follow
<1> QED BY <1>3, <1>8, <1>9, SizesAssumption

(* There is such a walk: the recursive definitions have a value.           *)
LEMMA WalkExists ==
  ASSUME NEW top, NEW blk, NEW j \in Nat, NEW c, LeadsDown(top, blk, j, c)
  PROVE  \E w : IsWalk(w, top, blk)
<1> DEFINE w == [k \in 0 .. s_fsize |->
                   IF k = 0 THEN top ELSE IF k <= j THEN blk[c[j - k + 1]] ELSE Zeroed]
<1>1. ASSUME NEW k \in 1 .. s_fsize PROVE w[k] = Follow(blk, NextIndex(w[k - 1]))
  <2>1. k - 1 \in 0 .. s_fsize
    BY SizesAssumption
  <2>2. CASE k = 1
    <3>1. w[k - 1] = top
      BY <2>1, <2>2
    <3>2. w[k] = IF j = 0 THEN Zeroed ELSE blk[c[j]]
      BY <2>2
    <3>3. NextIndex(w[k - 1]) = HeadOf(c, j) /\ (j # 0 => c[j] \in Blocks)
      BY <3>1 DEF LeadsDown
    <3> QED BY <3>2, <3>3, BadblockFacts DEF Follow, HeadOf
  <2>3. CASE k > 1 /\ k - 1 <= j
    <3>1. w[k - 1] = blk[c[j - (k - 1) + 1]] /\ j - (k - 1) + 1 \in 1 .. j
      BY <2>1, <2>3
    <3>2. NextIndex(w[k - 1]) = HeadOf(c, j - (k - 1))
      BY <3>1 DEF LeadsDown
    <3>3. j - (k - 1) \in 0 .. j /\ w[k] = IF k <= j THEN blk[c[j - k + 1]] ELSE Zeroed
      BY <2>3
    <3>4. CASE k <= j
      <4>1. j - (k - 1) = j - k + 1 /\ j - k + 1 \in 1 .. j
        BY <2>3, <3>4
      <4> QED BY <3>2, <3>3, <3>4, <4>1, BadblockFacts DEF Follow, HeadOf, LeadsDown
    <3>5. CASE ~(k <= j)
      <4>1. j - (k - 1) = 0
        BY <2>3, <3>5
      <4> QED BY <3>2, <3>3, <3>5, <4>1, BadblockFacts DEF Follow, HeadOf
    <3> QED BY <3>4, <3>5
  <2>4. CASE k > 1 /\ ~(k - 1 <= j)
    <3>1. w[k - 1] = Zeroed /\ w[k] = Zeroed
      BY <2>1, <2>4
    <3> QED BY <3>1, BadblockFacts DEF Follow
  <2> QED BY <2>2, <2>3, <2>4
<1>2. w = [k \in 0 .. s_fsize |-> IF k = 0 THEN top ELSE Follow(blk, NextIndex(w[k - 1]))]
  <2>1. \A k \in 0 .. s_fsize :
          w[k] = IF k = 0 THEN top ELSE Follow(blk, NextIndex(w[k - 1]))
    BY <1>1, SizesAssumption
  <2> QED BY <2>1
<1> HIDE DEF w
<1>3. IsWalk(w, top, blk)
  BY <1>2 DEF IsWalk
<1> QED BY <1>3

-----------------------------------------------------------------------------
(* The index blocks of a good list are free, and full; it leads down them. *)
FreeAndFull(blk, own, m, c) ==
  \A i \in 1 .. m : c[i] \in Blocks \ own /\ blk[c[i]].n = NICFREE

LEMMA GoodIndexes ==
  ASSUME NEW top, NEW blk \in [Blocks -> Image], NEW own, NEW m \in Nat,
         NEW c \in [Nat -> Int], GoodList(top, blk, own, m, c)
  PROVE  FreeAndFull(blk, own, m, c)
<1> SUFFICES ASSUME NEW i \in 1 .. m
             PROVE  c[i] \in Blocks \ own /\ blk[c[i]].n = NICFREE
  BY DEF FreeAndFull
<1>1. Shape(top, blk, own, m, c)
  BY ListShape
<1>2. i - 1 \in 0 .. m - 1 /\ (i - 1) + 1 = i
  OBVIOUS
<1> QED BY <1>1, <1>2 DEF Shape, GoodList, GoodCounts

LEMMA GoodLeads ==
  ASSUME NEW top, NEW blk \in [Blocks -> Image], NEW own, NEW m \in Nat,
         NEW c \in [Nat -> Int], GoodList(top, blk, own, m, c)
  PROVE  LeadsDown(top, blk, m, c)
<1>1. Shape(top, blk, own, m, c)
  BY ListShape
<1>2. ASSUME NEW k \in 0 .. m PROVE NextIndex(ListNo(top, blk, m, c, k)) = HeadOf(c, k)
  <2> DEFINE image == ListNo(top, blk, m, c, k)
  <2>1. CASE image.n > 0
    <3>1. Remembers(top, blk, m, c, k, 0) /\ NextIndex(image) = Entry(top, blk, m, c, k, 0)
      BY <2>1 DEF Remembers, Entry, NextIndex
    <3> QED BY <3>1 DEF GoodList, GoodHeads, HeadOf
  <2>2. CASE ~(image.n > 0)
    <3>1. m = 0 /\ k = 0
      BY <1>1, <2>2 DEF Shape
    <3> QED BY <3>1, <2>2 DEF NextIndex, HeadOf
  <2> QED BY <2>1, <2>2
<1>3. ASSUME NEW i \in 1 .. m
      PROVE  c[i] \in Blocks /\ NextIndex(blk[c[i]]) = HeadOf(c, i - 1)
  <2>1. i - 1 \in 0 .. m /\ i - 1 # m /\ (i - 1) + 1 = i
    BY <1>3
  <2>2. ListNo(top, blk, m, c, i - 1) = blk[c[i]]
    BY <2>1 DEF ListNo
  <2> QED BY <2>1, <2>2, <1>1, <1>2 DEF Shape
<1>4. NextIndex(top) = HeadOf(c, m)
  BY <1>2 DEF ListNo
<1> QED BY <1>3, <1>4 DEF LeadsDown

(***************************************************************************)
(* The inductive invariant: the saved superblock names an index block of   *)
(* the chain in core, or the chain's end; and s_tfree counts the list.     *)
(***************************************************************************)
SavedIn(m, c) == \E j \in 0 .. m : NextIndex(super) = HeadOf(c, j)

FreeCount == Cardinality(Blocks \ owned)

Counted == s_tfree = FreeCount /\ (~s_fmod => super_tfree = s_tfree)

LaterInv(m, c) == IndInv(m, c) /\ bsd \in BOOLEAN /\ (bsd => SavedIn(m, c) /\ Counted)

AnyInv == \E m \in Nat, c \in [Nat -> Int] : LaterInv(m, c)

LEMMA AnyInitInv == AnyInit => AnyInv
<1> SUFFICES ASSUME AnyInit PROVE AnyInv
  OBVIOUS
<1>1. PICK m \in Nat, c \in [Nat -> Int] : IndInv(m, c)
  BY InitInv DEF AnyInit, Inv
<1>2. NextIndex(super) = HeadOf(c, 0)
  BY BadblockFacts DEF AnyInit, Init, HeadOf
<1>3. SavedIn(m, c)
  BY <1>2 DEF SavedIn
<1>4. FreeCount = 0 /\ s_fmod
  BY FS_EmptySet DEF AnyInit, Init, FreeCount
<1> QED BY <1>1, <1>3, <1>4 DEF AnyInit, AnyInv, LaterInv, Counted

(* The count follows the set of free blocks, block by block. *)
LEMMA FreeCounts ==
  ASSUME TypeOK
  PROVE  /\ FreeCount \in Nat
         /\ FreeCount = 0 <=> owned = Blocks
         /\ \A b \in Blocks \ owned : owned' = owned \union {b} => FreeCount' = FreeCount - 1
         /\ \A b \in owned : owned' = owned \ {b} => FreeCount' = FreeCount + 1
<1>1. owned \in SUBSET Blocks
  BY DEF TypeOK
<1>2. IsFiniteSet(Blocks \ owned)
  <2>1. IsFiniteSet(Blocks)
    BY SizesAssumption, FS_Interval DEF Blocks
  <2> QED BY <2>1, FS_Subset
<1>3. FreeCount \in Nat /\ (FreeCount = 0 <=> owned = Blocks)
  <2>1. FreeCount \in Nat
    BY <1>2, FS_CardinalityType DEF FreeCount
  <2>2. FreeCount = 0 <=> Blocks \ owned = {}
    BY <1>2, FS_EmptySet DEF FreeCount
  <2> QED BY <2>1, <2>2, <1>1
<1>4. ASSUME NEW b \in Blocks \ owned, owned' = owned \union {b}
      PROVE  FreeCount' = FreeCount - 1
  <2>1. Blocks \ owned' = (Blocks \ owned) \ {b}
    BY <1>4
  <2>2. Cardinality((Blocks \ owned) \ {b}) = Cardinality(Blocks \ owned) - 1
    BY <1>2, FS_RemoveElement
  <2> QED BY <2>1, <2>2 DEF FreeCount
<1>5. ASSUME NEW b \in owned, owned' = owned \ {b}
      PROVE  FreeCount' = FreeCount + 1
  <2>1. Blocks \ owned' = (Blocks \ owned) \union {b} /\ b \notin Blocks \ owned
    BY <1>1, <1>5
  <2>2. Cardinality((Blocks \ owned) \union {b}) = Cardinality(Blocks \ owned) + 1
    BY <1>2, <2>1, FS_AddElement
  <2> QED BY <2>1, <2>2 DEF FreeCount
<1> QED BY <1>3, <1>4, <1>5

-----------------------------------------------------------------------------
(***************************************************************************)
(* The steps that follow the chain leave the saved superblock where it     *)
(* is in it, or save the list in core, which is where the chain starts.    *)
(***************************************************************************)
LEMMA FollowedInv ==
  ASSUME NEW m \in Nat, NEW c \in [Nat -> Int], LaterInv(m, c), [NextButIndex]_vars,
         bsd' = bsd, super' = super \/ super' = Core', bsd => Counted'
  PROVE  AnyInv'
<1>1. PICK x \in Nat, y \in [Nat -> Int] : IndInv(x, y)' /\ Follows(m, c, x, y)
  BY NextChain DEF LaterInv
<1>2. ASSUME bsd PROVE SavedIn(x, y)'
  <2>1. CASE super' = super
    <3>1. PICK j \in 0 .. m : NextIndex(super) = HeadOf(c, j)
      BY <1>2 DEF LaterInv, SavedIn
    <3>2. j \in 0 .. x /\ HeadOf(y, j) = HeadOf(c, j)
      BY <1>1 DEF Follows, HeadOf
    <3> QED BY <2>1, <3>1, <3>2 DEF SavedIn
  <2>2. CASE super' = Core'
    <3>1. GoodList(Core', block', owned', x, y) /\ block' \in [Blocks -> Image]
      BY <1>1 DEF IndInv, TypeOK
    <3>2. LeadsDown(Core', block', x, y)
      BY <3>1, GoodLeads
    <3>3. x \in 0 .. x /\ NextIndex(Core') = HeadOf(y, x)
      BY <3>2 DEF LeadsDown
    <3> QED BY <2>2, <3>3 DEF SavedIn
  <2> QED BY <2>1, <2>2
<1>3. LaterInv(x, y)'
  BY <1>1, <1>2 DEF LaterInv
<1> QED BY <1>3 DEF AnyInv

(* Taking an index block, as the BSDs do: the list it held is in core, and *)
(* on disk as well.                                                        *)
LEMMA IndexBSDInv ==
  ASSUME NEW m \in Nat, NEW c \in [Nat -> Int], LaterInv(m, c), AllocIndexBSD,
         bsd' = bsd
  PROVE  AnyInv' /\ s_free[0] \in Blocks \ owned
<1>0. /\ TypeOK /\ Saved /\ GoodList(Core, block, owned, m, c)
      /\ bsd \in BOOLEAN /\ (bsd => Counted)
  BY DEF LaterInv, IndInv
<1>1. /\ bsd /\ mounted /\ s_fmod' = TRUE /\ mounted' = mounted /\ result' = s_free[0]
      /\ super' = block[s_free[0]] /\ super_tfree' = s_tfree /\ s_tfree' = s_tfree - 1
      /\ UsesIndex
  BY DEF AllocIndexBSD, TakesAndSaves, UsesIndex
<1>2. /\ m > 0 /\ s_free[0] \in Blocks \ owned
      /\ s_nfree' = NICFREE /\ s_free' \in [Slots -> Blocks \union {0}]
      /\ block' \in [Blocks -> Image] /\ owned' \in SUBSET Blocks
      /\ GoodList(Core', block', owned', m - 1, c)
  BY <1>0, <1>1, IndexFacts
<1>3. super' = Core'
  <2>1. block[s_free[0]] \in Image
    BY <1>0, <1>2 DEF TypeOK
  <2> QED BY <2>1, <1>1 DEF Image, Core, UsesIndex
<1>4. super' \in [n : 0 .. NICFREE, f : [Slots -> Blocks \union {0}]]
  BY <1>2, <1>3, SizesAssumption DEF Core
<1>5. TypeOK'
  BY <1>0, <1>1, <1>2, <1>4, SizesAssumption DEF TypeOK
<1>6. IndInv(m - 1, c)' /\ m - 1 \in Nat
  BY <1>0, <1>1, <1>2, <1>5, SavedMarked DEF IndInv
<1>7. SavedIn(m - 1, c)'
  <2>0. /\ m - 1 \in Nat /\ block' \in [Blocks -> Image]
        /\ GoodList(Core', block', owned', m - 1, c)
    BY <1>2
  <2>1. LeadsDown(Core', block', m - 1, c)
    BY <2>0, GoodLeads
  <2>2. m - 1 \in 0 .. m - 1 /\ NextIndex(Core') = HeadOf(c, m - 1)
    BY <2>0, <2>1 DEF LeadsDown
  <2> QED BY <2>2, <1>3 DEF SavedIn
<1>8. Counted'
  <2>1. owned' = owned \union {s_free[0]}
    BY <1>1 DEF UsesIndex
  <2> QED BY <2>1, <1>0, <1>1, <1>2, FreeCounts DEF Counted
<1> QED BY <1>0, <1>1, <1>2, <1>6, <1>7, <1>8 DEF AnyInv, LaterInv

LEMMA AnyNextInv == AnyInv /\ [AnyNext]_<<vars, bsd, count>> => AnyInv'
<1> SUFFICES ASSUME AnyInv, [AnyNext]_<<vars, bsd, count>> PROVE AnyInv'
  OBVIOUS
<1>0. PICK m \in Nat, c \in [Nat -> Int] : LaterInv(m, c)
  BY DEF AnyInv
<1>a. /\ TypeOK /\ Saved /\ GoodList(Core, block, owned, m, c)
      /\ bsd \in BOOLEAN /\ (bsd => Counted) /\ IndInv(m, c)
  BY <1>0 DEF LaterInv, IndInv
<1>b. bsd' = bsd
  BY DEF AnyNext
<1>f. [NextButIndex]_vars /\ (super' = super \/ super' = Core') /\ (bsd => Counted') => AnyInv'
  BY <1>0, <1>b, FollowedInv
<1>1. CASE AllocCounted
  <2>1. PICK i \in Remembered : StopsAt(i) /\ HandOut(s_free[i])
    BY <1>1 DEF AllocCounted, AllocRemembered
  <2>2. i = s_nfree - 1
    BY <2>1, <1>a, AllocStops
  <2>3. s_free[i] \in Blocks \ owned
    BY <2>2, <1>1, <1>a, AllocFacts DEF AllocCounted
  <2>4. owned' = owned \union {s_free[i]} /\ s_fmod' = TRUE /\ super' = super
    BY <2>1 DEF HandOut
  <2>5. bsd => Counted'
    BY <2>3, <2>4, <1>1, <1>a, FreeCounts DEF AllocCounted, Counts, Counted
  <2> QED BY <2>4, <2>5, <1>1, <1>f DEF AllocCounted, NextButIndex
<1>2. CASE AllocIndexV6
  <2>1. Inv'
    BY <1>2, <1>a, NextInv DEF AllocIndexV6, Inv, Next
  <2> QED BY <2>1, <1>2, <1>b DEF AllocIndexV6, Inv, AnyInv, LaterInv
<1>3. CASE AllocIndexBSD
  BY <1>0, <1>3, <1>b, IndexBSDInv
<1>4. CASE AllocNoSpaceCounted
  <2>1. owned = Blocks
    BY <1>4, <1>a, AllocFacts DEF AllocNoSpaceCounted
  <2>2. owned' = owned /\ s_fmod' = s_fmod /\ super' = super
    BY <1>4 DEF AllocNoSpaceCounted, AllocNoSpace
  <2>3. FreeCount' = FreeCount /\ FreeCount = 0
    BY <2>1, <2>2, <1>a, FreeCounts DEF FreeCount
  <2>4. bsd => Counted'
    BY <2>2, <2>3, <1>4, <1>a DEF AllocNoSpaceCounted, Counts, Counted
  <2> QED BY <2>2, <2>4, <1>4, <1>f DEF AllocNoSpaceCounted, NextButIndex
<1>5. ASSUME NEW bn \in BadNumbers, FreeBadV6(bn) PROVE AnyInv'
  <2>1. ~bsd /\ FreeBad(bn) /\ super' = super
    BY <1>5 DEF FreeBadV6, FreeBad
  <2> QED BY <2>1, <1>f DEF NextButIndex
<1>6. ASSUME NEW bn \in BadNumbers, FreeBadBSD(bn) PROVE AnyInv'
  <2>1. /\ UNCHANGED <<s_nfree, s_free, s_fmod, super, block, owned, mounted, count>>
        /\ result' = NONE
    BY <1>6, <1>a, CoreShape DEF FreeBadBSD
  <2>2. TypeOK' /\ Saved' /\ Core' = Core
    BY <2>1, <1>a, SavedSame DEF TypeOK, Core
  <2>3. IndInv(m, c)'
    BY <2>1, <2>2, <1>a DEF IndInv
  <2>4. FreeCount' = FreeCount
    BY <2>1 DEF FreeCount
  <2>5. bsd => SavedIn(m, c)' /\ Counted'
    BY <2>1, <2>4, <1>0 DEF LaterInv, SavedIn, Counted, count
  <2> QED BY <2>3, <2>5, <1>a, <1>b DEF AnyInv, LaterInv
<1>7. ASSUME NEW b \in owned, FreeCounted(b) PROVE AnyInv'
  <2>1. owned' = owned \ {b} /\ s_fmod' = TRUE /\ super' = super
    BY <1>7 DEF FreeCounted, FreeGood
  <2>2. bsd => Counted'
    BY <2>1, <1>7, <1>a, FreeCounts DEF FreeCounted, Counts, Counted
  <2> QED BY <2>1, <2>2, <1>7, <1>f DEF FreeCounted, NextButIndex
<1>8. ASSUME NEW b \in owned, NEW image \in Junk, WriteData(b, image), UNCHANGED count
      PROVE  AnyInv'
  <2>1. owned' = owned /\ s_fmod' = s_fmod /\ super' = super
    BY <1>8 DEF WriteData, core
  <2>2. bsd => Counted'
    BY <2>1, <1>8, <1>a DEF Counted, FreeCount, count
  <2> QED BY <2>1, <2>2, <1>8, <1>f DEF NextButIndex
<1>9. CASE (Sync \/ Unmount) /\ Saves
  <2>1. /\ super' = IF s_fmod THEN Core ELSE super
        /\ s_fmod' = FALSE /\ Core' = Core /\ owned' = owned
    BY <1>9 DEF Sync, Unmount, SaveSuper, Core
  <2>2. bsd => Counted'
    BY <2>1, <1>9, <1>a DEF Saves, Counted, FreeCount, TypeOK
  <2>3. super' = super \/ super' = Core'
    BY <2>1
  <2> QED BY <2>2, <2>3, <1>9, <1>f DEF NextButIndex
<1>10. CASE MountCounted
  <2>1. ~s_fmod /\ s_fmod' = FALSE /\ super' = super /\ owned' = owned
    BY <1>10, <1>a DEF MountCounted, Mount, Saved
  <2>2. bsd => Counted'
    BY <2>1, <1>10, <1>a DEF MountCounted, Counted, FreeCount
  <2> QED BY <2>1, <2>2, <1>10, <1>f DEF MountCounted, NextButIndex
<1>11. CASE UNCHANGED <<vars, bsd, count>>
  <2>1. UNCHANGED vars /\ super' = super /\ owned' = owned /\ s_fmod' = s_fmod
    BY <1>11 DEF vars, core
  <2>2. bsd => Counted'
    BY <2>1, <1>11, <1>a DEF Counted, FreeCount, count
  <2> QED BY <2>1, <2>2, <1>f
<1> QED BY <1>1, <1>2, <1>3, <1>4, <1>5, <1>6, <1>7, <1>8, <1>9, <1>10, <1>11 DEF AnyNext

(* The list and the count of every kernel always have the structure of     *)
(* LaterInv.                                                               *)
THEOREM LaterListCorrect == AnySpec => []AnyInv
BY AnyInitInv, AnyNextInv, PTL DEF AnySpec

(* What is taken for an index block after a crash of a BSD still is one,   *)
(* full, and no file's, however long ago the superblock was saved.         *)
THEOREM SavedChainIsSound == AnySpec => []SavedChainSound
<1>1. ASSUME AnyInv, bsd, NEW k \in 0 .. s_fsize
      PROVE  LET index == NextIndex(SavedListAt[k]) IN
               index = 0 \/ (index \in Blocks \ owned /\ block[index].n = NICFREE)
  <2>0. PICK m \in Nat, c \in [Nat -> Int] : LaterInv(m, c)
    BY <1>1 DEF AnyInv
  <2>1. PICK j \in 0 .. m : NextIndex(super) = HeadOf(c, j)
    BY <1>1, <2>0 DEF LaterInv, SavedIn
  <2>2. /\ GoodList(Core, block, owned, m, c) /\ block \in [Blocks -> Image]
    BY <2>0 DEF LaterInv, IndInv, TypeOK
  <2>3. LeadsDown(Core, block, m, c)
    BY <2>2, GoodLeads
  <2>s. FreeAndFull(block, owned, m, c)
    BY <2>2, GoodIndexes
  <2>4. LeadsDown(super, block, j, c)
    BY <2>1, <2>3 DEF LeadsDown
  <2>5. IsWalk(SavedListAt, super, block)
    <3>1. \E w : IsWalk(w, super, block)
      BY <2>4, WalkExists
    <3> QED BY <3>1 DEF IsWalk, Follow, SavedListAt
  <2>6. NextIndex(SavedListAt[k]) = HeadOf(c, IF k < j THEN j - k ELSE 0)
    BY <2>4, <2>5, WalkMeets
  <2> QED BY <2>s, <2>6 DEF HeadOf, FreeAndFull
<1>2. AnyInv => SavedChainSound
  BY <1>1 DEF SavedChainSound
<1> QED BY <1>2, LaterListCorrect, PTL

(* statfs never meets a bad index block, in any of the kernels.            *)
THEOREM StatfsNeverFails == AnySpec => []~StatfsFails
<1>1. ASSUME AnyInv, NEW k \in 0 .. s_fsize
      PROVE  NextIndex(ListAt[k]) = 0 \/ ~Badblock(NextIndex(ListAt[k]))
  <2>0. PICK m \in Nat, c \in [Nat -> Int] : IndInv(m, c)
    BY <1>1 DEF AnyInv, LaterInv
  <2>1. GoodList(Core, block, owned, m, c) /\ block \in [Blocks -> Image]
    BY <2>0 DEF IndInv, TypeOK
  <2>2. LeadsDown(Core, block, m, c)
    BY <2>1, GoodLeads
  <2>3. IsWalk(ListAt, Core, block)
    <3>1. \E w : IsWalk(w, Core, block)
      BY <2>2, WalkExists
    <3> QED BY <3>1 DEF IsWalk, Follow, ListAt
  <2>4. NextIndex(ListAt[k]) = HeadOf(c, IF k < m THEN m - k ELSE 0)
    BY <2>2, <2>3, WalkMeets
  <2> QED BY <2>2, <2>4, BadblockFacts DEF HeadOf, LeadsDown
<1>2. AnyInv => ~StatfsFails
  BY <1>1 DEF StatfsFails
<1> QED BY <1>2, LaterListCorrect, PTL

(* The count that 2.11BSD's statfs shows, and 2.9BSD keeps, is the number  *)
(* of blocks no file owns, after any history of syncs, remounts and full   *)
(* volumes.                                                                *)
THEOREM CountIsExact == AnySpec => [](bsd => s_tfree = Cardinality(Blocks \ owned))
<1>1. AnyInv => (bsd => s_tfree = Cardinality(Blocks \ owned))
  BY DEF AnyInv, LaterInv, Counted, FreeCount
<1> QED BY <1>1, LaterListCorrect, PTL

(* A superblock that is not marked modified can be read back, and the      *)
(* saved counts and numbers stay in range.                                 *)
THEOREM LaterTypeCorrect == AnySpec => [](TypeOK /\ CleanIsSaved)
<1>1. AnyInv => TypeOK /\ CleanIsSaved
  BY DEF AnyInv, LaterInv, IndInv, Saved
<1> QED BY <1>1, LaterListCorrect, PTL

(* The list of each kernel implements the set of blocks no file owns.      *)
THEOREM LaterImplementsSet == AnySpec => FreeListImplementsSet
<1>1. AnyInit => Abstract!Init
  BY DEF AnyInit, Init, Abstract!Init
<1>2. ASSUME AnyInv, [AnyNext]_<<vars, bsd, count>> PROVE [Abstract!Next]_(Abstract!vars)
  <2>0. PICK m \in Nat, c \in [Nat -> Int] : LaterInv(m, c)
    BY <1>2 DEF AnyInv
  <2>1. Inv
    BY <2>0 DEF LaterInv, Inv
  <2>2. CASE [Next]_vars
    BY <2>1, <2>2, StepImplements
  <2>3. CASE AllocIndexBSD /\ bsd' = bsd
    <3>1. s_free[0] \in Blocks \ owned
      BY <2>0, <2>3, IndexBSDInv
    <3>2. result' = s_free[0] /\ owned' = owned \union {s_free[0]}
      BY <2>3 DEF AllocIndexBSD
    <3>3. Blocks \ owned' = (Blocks \ owned) \ {s_free[0]}
      BY <3>2
    <3>4. Abstract!Alloc(s_free[0])
      BY <3>1, <3>2, <3>3 DEF Abstract!Alloc
    <3> QED BY <3>1, <3>4 DEF Abstract!Next
  <2>4. ASSUME NEW bn \in BadNumbers, FreeBadBSD(bn) PROVE Abstract!Next
    BY <2>4 DEF FreeBadBSD, Abstract!Next, Abstract!Other
  <2>5. \/ [Next]_vars
        \/ AllocIndexBSD /\ bsd' = bsd
        \/ \E bn \in BadNumbers : FreeBadBSD(bn)
    BY <1>2 DEF AnyNext, Next, AllocCounted, AllocIndexV6, AllocNoSpaceCounted, FreeBadV6,
                FreeCounted, MountCounted
  <2> QED BY <2>2, <2>3, <2>4, <2>5
<1> QED BY <1>1, <1>2, LaterListCorrect, PTL DEF AnySpec, FreeListImplementsSet, Abstract!Spec
-----------------------------------------------------------------------------
(***************************************************************************)
(* What statfs adds up.  A fold is a recursive function on sets; it has a  *)
(* value because the places of the numbers that it counts can be counted   *)
(* all together, and has no other.                                         *)
(***************************************************************************)
IsSum(g, w, S) ==
  g = [s \in SUBSET S |->
         IF s = {} THEN 0
         ELSE LET x == CHOOSE x \in s : TRUE IN CountOf(w[x]) + g[s \ {x}]]

LEMMA FoldIsSum == f_bfree = (CHOOSE g : IsSum(g, ListAt, DOMAIN ListAt))[DOMAIN ListAt]
  BY DEF FoldFunction, FoldFunctionOnSet, MapThenFoldSet, IsSum, f_bfree

(* The numbers that one list counts are its last ones: all, or all but the *)
(* 0 in slot 0.                                                            *)
CountedSlots(image) == image.n - CountOf(image) .. image.n - 1

Places(w, s) == {p \in s \X Slots : p[2] \in CountedSlots(w[p[1]])}

AreLists(w, S) == \A k \in S : w[k].n \in 0 .. NICFREE

LEMMA SlotsCounted ==
  ASSUME NEW image, image.n \in 0 .. NICFREE
  PROVE  /\ CountedSlots(image) \subseteq Slots /\ IsFiniteSet(CountedSlots(image))
         /\ CountOf(image) \in Nat /\ Cardinality(CountedSlots(image)) = CountOf(image)
         /\ \A i \in CountedSlots(image) : i < image.n
<1>1. CountOf(image) \in 0 .. image.n /\ image.n \in Nat
  BY DEF CountOf
<1>2. image.n - CountOf(image) \in Int /\ image.n - 1 \in Int
  BY <1>1
<1>3. /\ IsFiniteSet(CountedSlots(image))
      /\ Cardinality(CountedSlots(image)) =
           IF image.n - CountOf(image) > image.n - 1 THEN 0
           ELSE (image.n - 1) - (image.n - CountOf(image)) + 1
  BY <1>2, FS_Interval DEF CountedSlots
<1> QED BY <1>1, <1>3, SizesAssumption DEF CountedSlots, Slots

LEMMA PlacesOfOne ==
  ASSUME NEW S, NEW w, AreLists(w, S), NEW s \in SUBSET S, IsFiniteSet(s), NEW x \in s
  PROVE  /\ IsFiniteSet(Places(w, s))
         /\ Cardinality(Places(w, s)) = CountOf(w[x]) + Cardinality(Places(w, s \ {x}))
<1>1. IsFiniteSet(Slots)
  BY FS_Interval, SizesAssumption DEF Slots
<1>2. IsFiniteSet(s \ {x})
  BY FS_RemoveElement
<1>3. IsFiniteSet(s \X Slots) /\ IsFiniteSet((s \ {x}) \X Slots)
  BY <1>1, <1>2, FS_Product
<1>4. IsFiniteSet(Places(w, s)) /\ IsFiniteSet(Places(w, s \ {x}))
  BY <1>3, FS_Subset DEF Places
<1> DEFINE here == CountedSlots(w[x])
           ours == {x} \X here
<1>5. /\ here \subseteq Slots /\ IsFiniteSet(here)
      /\ CountOf(w[x]) \in Nat /\ Cardinality(here) = CountOf(w[x])
  BY SlotsCounted DEF AreLists
<1>6. IsFiniteSet({x}) /\ Cardinality({x}) = 1
  BY FS_Singleton
<1>7. Places(w, s) = ours \union Places(w, s \ {x}) /\ ours \intersect Places(w, s \ {x}) = {}
  BY <1>5 DEF Places
<1> HIDE DEF here
<1>8. IsFiniteSet(ours) /\ Cardinality(ours) = 1 * Cardinality(here)
  BY <1>5, <1>6, FS_Product
<1> HIDE DEF ours
<1>9. Cardinality(Places(w, s)) =
        Cardinality(ours) + Cardinality(Places(w, s \ {x})) - Cardinality({})
  <2>1. PICK rest : rest = Places(w, s \ {x})
    OBVIOUS
  <2>2. IsFiniteSet(rest) /\ Places(w, s) = ours \union rest /\ ours \intersect rest = {}
    BY <2>1, <1>4, <1>7
  <2>3. Cardinality(ours \union rest) =
          Cardinality(ours) + Cardinality(rest) - Cardinality(ours \intersect rest)
    BY <2>2, <1>8, FS_Union
  <2> QED BY <2>1, <2>2, <2>3
<1>10. Cardinality(Places(w, s \ {x})) \in Nat
  BY <1>4, FS_CardinalityType
<1> QED BY <1>4, <1>5, <1>8, <1>9, <1>10, FS_EmptySet

(* The sum is the number of places, *)
LEMMA PlacesAreSum ==
  ASSUME NEW S, IsFiniteSet(S), NEW w, AreLists(w, S)
  PROVE  IsSum([s \in SUBSET S |-> Cardinality(Places(w, s))], w, S)
<1> DEFINE g == [s \in SUBSET S |-> Cardinality(Places(w, s))]
<1>1. ASSUME NEW s \in SUBSET S
      PROVE  g[s] = IF s = {} THEN 0
                    ELSE LET x == CHOOSE x \in s : TRUE IN CountOf(w[x]) + g[s \ {x}]
  <2>1. CASE s = {}
    BY <2>1, FS_EmptySet DEF Places
  <2>2. CASE s # {}
    <3> DEFINE x == CHOOSE x \in s : TRUE
    <3>1. x \in s
      BY <2>2
    <3>2. IsFiniteSet(s)
      BY FS_Subset
    <3> HIDE DEF x
    <3>3. Cardinality(Places(w, s)) = CountOf(w[x]) + Cardinality(Places(w, s \ {x}))
      BY <3>1, <3>2, PlacesOfOne
    <3>4. g[s] = CountOf(w[x]) + g[s \ {x}]
      BY <3>3
    <3> HIDE DEF g
    <3> QED BY <3>4, <2>2 DEF x
  <2> QED BY <2>1, <2>2
<1> QED BY <1>1 DEF IsSum

(* and no other function is a sum. *)
LEMMA OneSum ==
  ASSUME NEW S, IsFiniteSet(S), NEW w, NEW g, NEW h, IsSum(g, w, S), IsSum(h, w, S)
  PROVE  g = h
<1> DEFINE Differ == {s \in SUBSET S : g[s] # h[s]}
           Sizes == {Cardinality(s) : s \in Differ}
<1>1. ASSUME NEW s \in SUBSET S PROVE IsFiniteSet(s) /\ Cardinality(s) \in Nat
  BY FS_Subset, FS_CardinalityType
<1>2. Differ = {}
  <2>1. SUFFICES ASSUME Differ # {} PROVE FALSE
    OBVIOUS
  <2>2. Sizes \subseteq Nat /\ Sizes # {}
    BY <2>1, <1>1
  <2>3. PICK k \in Sizes : \A l \in Sizes : k <= l
    <3> HIDE DEF Sizes
    <3> QED BY <2>2, LeastNatural
  <2>4. PICK s \in Differ : \A t \in Differ : Cardinality(s) <= Cardinality(t)
    BY <2>3
  <2>5. s \in SUBSET S /\ g[s] # h[s]
    OBVIOUS
  <2>6. s # {}
    BY <2>5 DEF IsSum
  <2> DEFINE x == CHOOSE x \in s : TRUE
  <2>7. x \in s
    BY <2>6
  <2>8. g[s] = CountOf(w[x]) + g[s \ {x}] /\ h[s] = CountOf(w[x]) + h[s \ {x}]
    BY <2>5, <2>6 DEF IsSum
  <2> HIDE DEF x
  <2>9. s \ {x} \in Differ
    BY <2>5, <2>8
  <2>10. Cardinality(s \ {x}) = Cardinality(s) - 1 /\ Cardinality(s) \in Nat
    BY <2>5, <2>7, <1>1, FS_RemoveElement
  <2> QED BY <2>4, <2>9, <2>10
<1>3. \A s \in SUBSET S : g[s] = h[s]
  BY <1>2
<1> QED BY <1>3 DEF IsSum

LEMMA FoldCounts ==
  ASSUME IsFiniteSet(DOMAIN ListAt), AreLists(ListAt, DOMAIN ListAt)
  PROVE  f_bfree = Cardinality(Places(ListAt, DOMAIN ListAt))
<1> DEFINE S == DOMAIN ListAt
           g == [s \in SUBSET S |-> Cardinality(Places(ListAt, s))]
           h == CHOOSE h : IsSum(h, ListAt, S)
<1>1. IsSum(g, ListAt, S)
  BY PlacesAreSum
<1>2. IsSum(h, ListAt, S)
  BY <1>1
<1>3. f_bfree = h[S]
  BY FoldIsSum
<1> HIDE DEF h, g
<1>4. g = h
  BY <1>1, <1>2, OneSum
<1> QED BY <1>3, <1>4 DEF g

LEMMA FinitelyMany ==
  /\ IsFiniteSet(Blocks) /\ Cardinality(Blocks) \in Nat /\ Cardinality(Blocks) <= s_fsize
  /\ IsFiniteSet(Slots)
<1>1. /\ s_isize + 2 \in Int /\ s_fsize - 1 \in Int /\ 0 \in Int /\ NICFREE - 1 \in Int
  BY SizesAssumption
<1>2. /\ IsFiniteSet(Blocks)
      /\ Cardinality(Blocks) = IF s_isize + 2 > s_fsize - 1 THEN 0
                               ELSE (s_fsize - 1) - (s_isize + 2) + 1
  BY <1>1, FS_Interval DEF Blocks
<1>3. IsFiniteSet(Slots)
  BY <1>1, FS_Interval DEF Slots
<1> QED BY <1>2, <1>3, SizesAssumption

(***************************************************************************)
(* The index blocks of a chain are all different.                          *)
(***************************************************************************)
LEMMA ChainFits ==
  ASSUME NEW top, NEW blk \in [Blocks -> Image], NEW own, NEW m \in Nat,
         NEW c \in [Nat -> Int], GoodList(top, blk, own, m, c)
  PROVE  m <= Cardinality(Blocks) /\ m <= s_fsize
<1>1. Shape(top, blk, own, m, c)
  BY ListShape
<1> DEFINE d == [k \in 1 .. m |-> c[k]]
<1>2. ASSUME NEW k \in 1 .. m PROVE c[k] \in Blocks /\ Remembers(top, blk, m, c, k, 0)
                                     /\ Entry(top, blk, m, c, k, 0) = c[k]
  <2>1. Remembers(top, blk, m, c, k, 0)
    BY <1>1 DEF Shape, Remembers
  <2> QED BY <2>1, <1>1 DEF Shape, GoodList, GoodHeads
<1>3. ASSUME NEW k \in 1 .. m, NEW l \in 1 .. m, c[k] = c[l] PROVE k = l
  <2>1. k \in 0 .. m /\ l \in 0 .. m /\ 0 \in Slots
    BY SizesAssumption DEF Slots
  <2> QED BY <2>1, <1>2, <1>3 DEF GoodList, GoodUnique
<1>4. d \in Injection(1 .. m, Blocks)
  BY <1>2, <1>3 DEF Injection, IsInjective
<1>6. Cardinality(1 .. m) = m
  BY FS_Interval
<1> HIDE DEF d
<1>7. Cardinality(1 .. m) <= Cardinality(Blocks)
  BY <1>4, FinitelyMany, FS_Injection
<1> QED BY FinitelyMany, <1>6, <1>7, SizesAssumption

(* The walk of statfs meets the lists of the chain, the superblock's       *)
(* first, and then nothing.                                                *)
LEMMA WalkLists ==
  ASSUME NEW m \in Nat, NEW c \in [Nat -> Int], IndInv(m, c)
  PROVE  \A k \in 0 .. s_fsize :
           ListAt[k] = IF k <= m THEN ListNo(Core, block, m, c, m - k) ELSE Zeroed
<1>1. GoodList(Core, block, owned, m, c) /\ block \in [Blocks -> Image]
  BY DEF IndInv, TypeOK
<1>2. LeadsDown(Core, block, m, c)
  BY <1>1, GoodLeads
<1>3. IsWalk(ListAt, Core, block)
  <2>1. \E w : IsWalk(w, Core, block)
    BY <1>2, WalkExists
  <2> QED BY <2>1 DEF IsWalk, Follow, ListAt
<1> SUFFICES ASSUME NEW k \in 0 .. s_fsize
             PROVE  ListAt[k] = IF k <= m THEN ListNo(Core, block, m, c, m - k) ELSE Zeroed
  OBVIOUS
<1>4. CASE k = 0
  BY <1>3, <1>4 DEF IsWalk, ListNo
<1>5. CASE k # 0
  <2>1. k - 1 \in 0 .. s_fsize /\ k - 1 \in Nat
    BY <1>5, SizesAssumption
  <2>2. NextIndex(ListAt[k - 1]) = HeadOf(c, IF k - 1 < m THEN m - (k - 1) ELSE 0)
    BY <2>1, <1>2, <1>3, WalkMeets
  <2>3. ListAt[k] = Follow(block, NextIndex(ListAt[k - 1]))
    BY <1>3, <1>5 DEF IsWalk
  <2>4. CASE k <= m
    <3>1. k - 1 < m /\ m - (k - 1) \in 1 .. m /\ m - (k - 1) = (m - k) + 1 /\ m - k # m
      BY <2>4, <1>5, SizesAssumption
    <3>2. ListAt[k] = block[c[m - (k - 1)]]
      BY <3>1, <2>2, <2>3, <1>2, BadblockFacts DEF HeadOf, LeadsDown, Follow
    <3> QED BY <3>1, <3>2, <2>4 DEF ListNo
  <2>5. CASE ~(k <= m)
    <3>1. ~(k - 1 < m)
      BY <2>5, SizesAssumption
    <3> QED BY <3>1, <2>2, <2>3, <2>5, BadblockFacts DEF HeadOf, Follow
  <2> QED BY <2>4, <2>5
<1> QED BY <1>4, <1>5

(* So the places that statfs counts are those of the blocks no file owns.  *)
LEMMA PlacesAreFree ==
  ASSUME NEW m \in Nat, NEW c \in [Nat -> Int], IndInv(m, c)
  PROVE  f_bfree = Cardinality(Blocks \ owned)
<1> DEFINE L(k) == ListNo(Core, block, m, c, k)
           S == 0 .. s_fsize
           P == Places(ListAt, S)
           e == [p \in P |-> ListAt[p[1]].f[p[2]]]
<1>1. GoodList(Core, block, owned, m, c) /\ block \in [Blocks -> Image]
  BY DEF IndInv, TypeOK
<1>2. Shape(Core, block, owned, m, c)
  BY <1>1, ListShape
<1>3. m <= s_fsize
  BY <1>1, ChainFits
<1>4. DOMAIN ListAt = S /\ IsFiniteSet(S)
  <2>1. LeadsDown(Core, block, m, c)
    BY <1>1, GoodLeads
  <2>2. IsWalk(ListAt, Core, block)
    <3>1. \E w : IsWalk(w, Core, block)
      BY <2>1, WalkExists
    <3> QED BY <3>1 DEF IsWalk, Follow, ListAt
  <2> QED BY <2>2, FS_Interval, SizesAssumption DEF IsWalk
<1>5. \A k \in S : ListAt[k] = IF k <= m THEN L(m - k) ELSE Zeroed
  BY WalkLists
<1>6. AreLists(ListAt, S)
  <2> SUFFICES ASSUME NEW k \in S PROVE ListAt[k].n \in 0 .. NICFREE
    BY DEF AreLists
  <2>1. CASE k <= m
    BY <2>1, <1>2, <1>5, SizesAssumption DEF Shape
  <2>2. CASE ~(k <= m)
    BY <2>2, <1>5, SizesAssumption DEF Zeroed
  <2> QED BY <2>1, <2>2
<1>7. ASSUME NEW p \in P
      PROVE  /\ p[1] \in 0 .. m /\ m - p[1] \in 0 .. m /\ p[2] \in Slots
             /\ Remembers(Core, block, m, c, m - p[1], p[2])
             /\ e[p] = Entry(Core, block, m, c, m - p[1], p[2])
             /\ e[p] \in Blocks \ owned
             /\ p = <<p[1], p[2]>>
  <2>1. p[1] \in S /\ p[2] \in Slots /\ p[2] \in CountedSlots(ListAt[p[1]]) /\ p = <<p[1], p[2]>>
    BY DEF Places
  <2>2. p[1] <= m
    BY <2>1, <1>5 DEF Zeroed, CountedSlots, CountOf
  <2>3. p[1] \in 0 .. m /\ m - p[1] \in 0 .. m /\ ListAt[p[1]] = L(m - p[1])
    BY <2>1, <2>2, <1>5
  <2>4. p[2] < L(m - p[1]).n
    BY <2>1, <2>3, <1>6, SlotsCounted DEF AreLists
  <2>5. Remembers(Core, block, m, c, m - p[1], p[2])
    BY <2>4 DEF Remembers
  <2>6. e[p] = Entry(Core, block, m, c, m - p[1], p[2])
    BY <2>3 DEF Entry
  <2>7. ~(m - p[1] = 0 /\ p[2] = 0)
    <3>1. SUFFICES ASSUME m - p[1] = 0, p[2] = 0 PROVE FALSE
      OBVIOUS
    <3>2. L(0).f[0] = 0
      BY <3>1, <2>5, <1>1 DEF GoodList, GoodHeads, Entry
    <3>3. L(0).n \in Nat /\ L(0).n > 0
      BY <3>1, <2>4, <1>2 DEF Shape
    <3>4. CountOf(L(0)) = L(0).n - 1
      BY <3>2, <3>3 DEF CountOf
    <3> QED BY <3>1, <3>3, <3>4, <2>1, <2>3 DEF CountedSlots
  <2>8. e[p] \in Blocks \ owned
    BY <2>1, <2>3, <2>5, <2>6, <2>7, <1>1 DEF GoodList, GoodEntries
  <2> QED BY <2>1, <2>3, <2>5, <2>6, <2>8
<1>8. ASSUME NEW p \in P, NEW q \in P, e[p] = e[q] PROVE p = q
  <2>1. m - p[1] = m - q[1] /\ p[2] = q[2]
    BY <1>7, <1>8, <1>1 DEF GoodList, GoodUnique
  <2>2. m \in Int /\ p[1] \in Int /\ q[1] \in Int
    BY <1>1, <1>7
  <2>3. p[1] = q[1]
    BY <2>1, <2>2
  <2> QED BY <2>1, <2>3, <1>7
<1>9. ASSUME NEW b \in Blocks \ owned PROVE \E p \in P : e[p] = b
  <2>1. PICK k \in 0 .. m, i \in Slots :
          Remembers(Core, block, m, c, k, i) /\ Entry(Core, block, m, c, k, i) = b
    BY <1>1 DEF GoodList, GoodComplete
  <2>2. m - k \in S /\ m - (m - k) = k /\ m - k <= m
    BY <1>3, SizesAssumption
  <2>3. ListAt[m - k] = L(k) /\ L(k).f[i] = b /\ i < L(k).n
    BY <2>1, <2>2, <1>5 DEF Remembers, Entry
  <2>4. L(k).n \in 0 .. NICFREE /\ b # 0 /\ i \in Nat
    BY <2>1, <1>2 DEF Shape, Slots
  <2>5. i \in CountedSlots(L(k))
    BY <2>3, <2>4, SizesAssumption DEF CountedSlots, CountOf
  <2>6. <<m - k, i>> \in P
    BY <2>2, <2>3, <2>5 DEF Places
  <2>7. e[<<m - k, i>>] = b
    BY <2>3, <2>6
  <2> QED BY <2>6, <2>7
<1>10. f_bfree = Cardinality(P)
  BY <1>4, <1>6, FoldCounts
<1>11. IsFiniteSet(P)
  <2>1. IsFiniteSet(S \X Slots)
    BY <1>4, FS_Product, FinitelyMany
  <2> QED BY <2>1, FS_Subset DEF Places
<1>12. e \in Bijection(P, Blocks \ owned)
  <2> HIDE DEF P
  <2>1. e \in [P -> Blocks \ owned]
    BY <1>7
  <2> QED BY <2>1, <1>8, <1>9 DEF Bijection, Injection, Surjection, IsInjective
<1> HIDE DEF P, e
<1>13. Cardinality(Blocks \ owned) = Cardinality(P)
  BY <1>11, <1>12, FS_Bijection DEF ExistsBijection
<1> QED BY <1>10, <1>13

(* There is always a chain, and it is no longer than the volume.           *)
THEOREM ChainAlwaysExists == AnySpec => []ChainExists
<1>1. ASSUME NEW m \in Nat, NEW c \in [Nat -> Int], IndInv(m, c) PROVE ChainExists
  <2> DEFINE d == [k \in 1 .. m |-> c[k]]
  <2>1. GoodList(Core, block, owned, m, c) /\ block \in [Blocks -> Image]
    BY <1>1 DEF IndInv, TypeOK
  <2>2. Shape(Core, block, owned, m, c)
    BY <2>1, ListShape
  <2>3. m \in 0 .. Cardinality(Blocks)
    <3>1. m <= Cardinality(Blocks)
      BY <2>1, ChainFits
    <3> QED BY <3>1, FinitelyMany
  <2>4. d \in [1 .. m -> Blocks]
    BY <2>2 DEF Shape
  <2>5. \A k \in 0 .. m : ListNo(Core, block, m, d, k) = ListNo(Core, block, m, c, k)
    BY DEF ListNo
  <2>6. \A k \in 0 .. m - 1 : d[k + 1] = c[k + 1]
    OBVIOUS
  <2>7. \A k \in 1 .. m : d[k] = c[k]
    OBVIOUS
  <2> HIDE DEF d
  <2>8. GoodCounts(Core, block, m, d)
    BY <2>1, <2>6 DEF GoodList, GoodCounts
  <2>9. GoodHeads(Core, block, m, d)
    BY <2>1, <2>5, <2>7 DEF GoodList, GoodHeads, Remembers, Entry
  <2>10. GoodEntries(Core, block, owned, m, d)
    BY <2>1, <2>5 DEF GoodList, GoodEntries, Remembers, Entry
  <2>11. GoodUnique(Core, block, m, d)
    BY <2>1, <2>5 DEF GoodList, GoodUnique, Remembers, Entry
  <2>12. GoodComplete(Core, block, owned, m, d)
    BY <2>1, <2>5 DEF GoodList, GoodComplete, Remembers, Entry
  <2>13. IndInv(m, d)
    BY <1>1, <2>8, <2>9, <2>10, <2>11, <2>12 DEF IndInv, GoodList
  <2> QED BY <2>3, <2>4, <2>13 DEF ChainExists
<1>2. AnyInv => ChainExists
  BY <1>1 DEF AnyInv, LaterInv
<1> QED BY <1>2, LaterListCorrect, PTL

(* What df shows is right in every kernel, whether the walk of the chain   *)
(* counts the blocks or s_tfree does, after any history of allocations,    *)
(* frees, syncs, remounts and full volumes.                                *)
THEOREM DfIsExact == AnySpec => []DfExact
<1>1. AnyInv => f_bfree = Cardinality(Blocks \ owned)
  BY PlacesAreFree DEF AnyInv, LaterInv
<1>2. AnyInv /\ ~StatfsFails => DfExact
  BY <1>1 DEF DfExact, StatfsExact, AnyInv, LaterInv, Counted, FreeCount
<1> QED BY <1>2, LaterListCorrect, StatfsNeverFails, PTL
==============================================================================
