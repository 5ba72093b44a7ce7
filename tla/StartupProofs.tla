--------------------------- MODULE StartupProofs ----------------------------
(***************************************************************************)
(* Proofs about the start of the program, for every number of mappings,    *)
(* every range of ids, and every volume, span and interleave.              *)
(***************************************************************************)
EXTENDS Startup, ListFacts, FiniteSetTheorems

(* k places of a span, no two alike                                        *)
Arranged(s, k, len) == s \in Seq(0 .. len - 1) /\ Len(s) = k /\ Distinct(s)

LEMMA PlaceFound ==
  ASSUME NEW len \in Nat \ {0}, NEW k \in 0 .. len - 1, NEW s, Arranged(s, k, len),
         NEW p \in Int
  PROVE  LET q == Mkfs!NextPlace(len, s, p) IN q \in 0 .. len - 1 /\ ~OnList(s, q)
<1> DEFINE free == {r \in 0 .. len - 1 : r \notin Mkfs!ToSet(s)}
           far(r) == (r - p) % len
           all == {far(r) : r \in free}
<1>1. Mkfs!ToSet(s) = {s[x] : x \in 1 .. k} /\ \A x \in 1 .. k : s[x] \in 0 .. len - 1
  BY DEF Mkfs!ToSet, Arranged
<1>2. free # {}
  <2> SUFFICES ASSUME free = {} PROVE FALSE
    OBVIOUS
  <2> DEFINE f == [x \in 1 .. k |-> s[x]]
  <2>1. f \in Surjection(1 .. k, 0 .. len - 1)
    <3>1. f \in [1 .. k -> 0 .. len - 1]
      BY <1>1
    <3>2. \A r \in 0 .. len - 1 : \E x \in 1 .. k : f[x] = r
      BY <1>1
    <3> QED BY <3>1, <3>2 DEF Surjection
  <2>2. k \in Nat /\ ExistsSurjection(1 .. k, 0 .. len - 1)
    BY <2>1 DEF ExistsSurjection
  <2>3. Cardinality(0 .. len - 1) <= k
    BY <2>2, FS_SurjCardinalityBound
  <2>4. Cardinality(0 .. len - 1) = len
    BY FS_Interval
  <2> QED BY <2>3, <2>4
<1>3. all \subseteq Nat /\ all # {}
  BY <1>2
<1>4. PICK d \in all : \A e \in all : d <= e
  <2> HIDE DEF all
  <2> QED BY <1>3, LeastNatural
<1>5. \E q \in 0 .. len - 1 :
        /\ q \notin Mkfs!ToSet(s)
        /\ \A r \in 0 .. len - 1 : r \notin Mkfs!ToSet(s) => (q - p) % len <= (r - p) % len
  BY <1>4
<1>6. Mkfs!NextPlace(len, s, p) \in free
  BY <1>5 DEF Mkfs!NextPlace
<1> QED BY <1>1, <1>6 DEF OnList, Arranged

-----------------------------------------------------------------------------
(* SpanOrder puts the places of a span in some order.                      *)
Start(len, step, k, s) == IF k = 1 THEN 0 ELSE (Mkfs!Last(s) + step) % len

Longer(len, step, k, s) ==
  Append(s, Mkfs!NextPlace(len, s, Start(len, step, k, s)))

LEMMA LongerArranged ==
  ASSUME NEW len \in Nat \ {0}, NEW step \in Nat, NEW k \in 1 .. len, NEW s,
         Arranged(s, k - 1, len)
  PROVE  Arranged(Longer(len, step, k, s), k, len)
<1> DEFINE p == Start(len, step, k, s)
           q == Mkfs!NextPlace(len, s, p)
<1>1. p \in Int
  <2>1. CASE k = 1
    BY <2>1 DEF Start
  <2>2. CASE k # 1
    <3>1. Mkfs!Last(s) \in 0 .. len - 1
      BY <2>2 DEF Mkfs!Last, Arranged
    <3>2. (Mkfs!Last(s) + step) % len \in Int
      BY <3>1
    <3> QED BY <3>2, <2>2 DEF Start
  <2> QED BY <2>1, <2>2
<1>2. q \in 0 .. len - 1 /\ ~OnList(s, q)
  <2>1. k - 1 \in 0 .. len - 1
    OBVIOUS
  <2> QED BY <1>1, <2>1, PlaceFound
<1> HIDE DEF q
<1>3. Append(s, q) \in Seq(0 .. len - 1) /\ Distinct(Append(s, q))
  BY <1>2, Appends DEF Arranged
<1>4. Len(Append(s, q)) = k
  BY <1>2 DEF Arranged
<1> QED BY <1>3, <1>4 DEF Arranged, Longer, q

(* f lists the orders of the first k places, by the equation of SpanOrder. *)
Orders(f, len, step, k) ==
  /\ f \in [0 .. k -> Seq(0 .. len - 1)]
  /\ f[0] = <<>>
  /\ \A x \in 1 .. k : f[x] = Longer(len, step, x, f[x - 1])
  /\ \A x \in 0 .. k : Arranged(f[x], x, len)

LEMMA OrdersExist ==
  ASSUME NEW len \in Nat \ {0}, NEW step \in Nat
  PROVE  \E f : Orders(f, len, step, len)
<1> DEFINE short == {k \in 0 .. len : ~\E f : Orders(f, len, step, k)}
<1>1. ASSUME short # {} PROVE FALSE
  <2>1. short \subseteq Nat
    OBVIOUS
  <2>2. PICK k \in short : \A x \in short : k <= x
    BY <1>1, <2>1, LeastNatural
  <2>3. CASE k = 0
    <3> DEFINE f == [x \in 0 .. 0 |-> <<>>]
    <3>1. /\ f \in [0 .. 0 -> Seq(0 .. len - 1)] /\ f[0] = <<>>
          /\ \A x \in 0 .. 0 : f[x] = <<>>
      OBVIOUS
    <3>2. Arranged(<<>>, 0, len)
      BY DEF Arranged, Distinct
    <3>3. \A x \in 0 .. 0 : x = 0
      OBVIOUS
    <3> HIDE DEF f
    <3>4. Orders(f, len, step, 0)
      BY <3>1, <3>2, <3>3 DEF Orders
    <3> QED BY <2>3, <3>4
  <2>4. CASE k # 0
    <3>1. k - 1 \in 0 .. len /\ k - 1 \notin short /\ k \in 1 .. len
      BY <2>2, <2>4
    <3>2. PICK f : Orders(f, len, step, k - 1)
      BY <3>1
    <3> DEFINE s == Longer(len, step, k, f[k - 1])
               g == [x \in 0 .. k |-> IF x = k THEN s ELSE f[x]]
    <3>3. Arranged(f[k - 1], k - 1, len)
      BY <3>1, <3>2 DEF Orders
    <3>4. Arranged(s, k, len)
      BY <3>1, <3>3, LongerArranged
    <3> HIDE DEF s
    <3>5. \A x \in 0 .. k - 1 : g[x] = f[x] /\ f[x] \in Seq(0 .. len - 1)
                                /\ Arranged(f[x], x, len)
      <4>1. \A x \in 0 .. k - 1 : x \in 0 .. k /\ x # k
        BY <3>1
      <4>2. \A x \in 0 .. k : x # k => g[x] = f[x]
        OBVIOUS
      <4>3. /\ f \in [0 .. k - 1 -> Seq(0 .. len - 1)]
            /\ \A x \in 0 .. k - 1 : Arranged(f[x], x, len)
        BY <3>2 DEF Orders
      <4> HIDE DEF g
      <4> QED BY <4>1, <4>2, <4>3
    <3>6. g[k] = s
      BY <3>1
    <3>7. g \in [0 .. k -> Seq(0 .. len - 1)]
      <4>1. \A x \in 0 .. k : g[x] \in Seq(0 .. len - 1)
        <5>1. \A x \in 0 .. k : x \in 0 .. k - 1 \/ x = k
          BY <3>1
        <5> QED BY <5>1, <3>4, <3>5, <3>6 DEF Arranged
      <4> QED BY <4>1
    <3>8. \A x \in 1 .. k : g[x] = Longer(len, step, x, g[x - 1])
      <4>1. ASSUME NEW x \in 1 .. k - 1 PROVE g[x] = Longer(len, step, x, g[x - 1])
        <5>1. x \in 0 .. k - 1 /\ x - 1 \in 0 .. k - 1
          BY <3>1
        <5>2. f[x] = Longer(len, step, x, f[x - 1])
          BY <3>2 DEF Orders
        <5> QED BY <5>1, <5>2, <3>5
      <4>2. g[k] = Longer(len, step, k, g[k - 1])
        <5>1. g[k - 1] = f[k - 1]
          BY <3>1, <3>5
        <5> QED BY <5>1, <3>6 DEF s
      <4>3. \A x \in 1 .. k : x \in 1 .. k - 1 \/ x = k
        BY <3>1
      <4> QED BY <4>1, <4>2, <4>3
    <3>9. \A x \in 0 .. k : Arranged(g[x], x, len)
      <4>1. \A x \in 0 .. k : x \in 0 .. k - 1 \/ x = k
        BY <3>1
      <4> QED BY <4>1, <3>4, <3>5, <3>6
    <3>10. g[0] = <<>>
      BY <3>1, <3>2, <3>5 DEF Orders
    <3> HIDE DEF g
    <3>11. Orders(g, len, step, k)
      BY <3>7, <3>8, <3>9, <3>10 DEF Orders
    <3> QED BY <3>11, <2>2
  <2> QED BY <2>3, <2>4
<1>2. len \notin short
  BY <1>1
<1> QED BY <1>2

(* The equation of SpanOrder, of functions on the numbers up to len        *)
IsOrder(f, len, step) ==
  f = [k \in 0 .. len |-> IF k = 0 THEN <<>> ELSE Longer(len, step, k, f[k - 1])]

LEMMA SpanOrderIs ==
  ASSUME NEW len \in Nat \ {0}, NEW step \in Nat
  PROVE  \E f : IsOrder(f, len, step) /\ Mkfs!SpanOrder(len, step) = f[len]
<1>1. PICK g : Orders(g, len, step, len)
  BY OrdersExist
<1>2. g \in [0 .. len -> Seq(0 .. len - 1)]
  BY <1>1 DEF Orders
<1>3. \A k \in 0 .. len : g[k] = IF k = 0 THEN <<>> ELSE Longer(len, step, k, g[k - 1])
  BY <1>1 DEF Orders
<1>4. IsOrder(g, len, step)
  BY <1>2, <1>3 DEF IsOrder
<1>5. \E f : IsOrder(f, len, step)
  BY <1>4
<1> QED BY <1>5 DEF IsOrder, Longer, Start, Mkfs!SpanOrder

LEMMA Permutes ==
  ASSUME NEW len \in Nat \ {0}, NEW step \in Nat
  PROVE  Arranged(Mkfs!SpanOrder(len, step), len, len)
<1>1. PICK f : IsOrder(f, len, step) /\ Mkfs!SpanOrder(len, step) = f[len]
  BY SpanOrderIs
<1> DEFINE bad == {k \in 0 .. len : ~Arranged(f[k], k, len)}
<1>2. \A k \in 0 .. len : f[k] = IF k = 0 THEN <<>> ELSE Longer(len, step, k, f[k - 1])
  BY <1>1 DEF IsOrder
<1>3. ASSUME bad # {} PROVE FALSE
  <2>1. bad \subseteq Nat
    OBVIOUS
  <2>2. PICK k \in bad : \A x \in bad : k <= x
    BY <1>3, <2>1, LeastNatural
  <2>3. CASE k = 0
    <3>1. Arranged(<<>>, 0, len)
      BY DEF Arranged, Distinct
    <3> QED BY <2>2, <2>3, <3>1, <1>2
  <2>4. CASE k # 0
    <3>1. k \in 1 .. len /\ k - 1 \in 0 .. len /\ k - 1 \notin bad
      BY <2>2, <2>4
    <3>2. Arranged(Longer(len, step, k, f[k - 1]), k, len)
      BY <3>1, LongerArranged
    <3> QED BY <3>1, <3>2, <2>2, <1>2
  <2> QED BY <2>3, <2>4
<1>4. len \notin bad
  BY <1>3
<1> QED BY <1>1, <1>4

(* As many places as there are are all of them.                            *)
LEMMA AllPlaces ==
  ASSUME NEW len \in Nat \ {0}, NEW s, Arranged(s, len, len)
  PROVE  /\ \A k \in 1 .. len : s[k] \in 0 .. len - 1
         /\ \A k, l \in 1 .. len : s[k] = s[l] => k = l
         /\ \A q \in 0 .. len - 1 : \E k \in 1 .. len : s[k] = q
<1>1. /\ \A k \in 1 .. len : s[k] \in 0 .. len - 1
      /\ \A k, l \in 1 .. len : s[k] = s[l] => k = l
  BY DEF Arranged, Distinct
<1> DEFINE f == [k \in 1 .. len |-> s[k]]
<1>2. f \in Injection(1 .. len, 0 .. len - 1)
  BY <1>1 DEF Injection, IsInjective
<1>3. /\ Cardinality(1 .. len) = len /\ Cardinality(0 .. len - 1) = len
      /\ IsFiniteSet(0 .. len - 1)
  BY FS_Interval
<1>4. f \in Surjection(1 .. len, 0 .. len - 1)
  BY <1>2, <1>3, FS_Injection
<1>5. \A q \in 0 .. len - 1 : \E k \in 1 .. len : f[k] = q
  BY <1>4 DEF Surjection
<1> QED BY <1>1, <1>5

-----------------------------------------------------------------------------
(* The free list of a new volume.                                          *)

Params ==
  /\ release \in {"v6", "v7"}
  /\ n \in 1 .. MaxN /\ m \in 1 .. n /\ size \in 4 .. MaxSize /\ low \in 3 .. size - 1

(* Each block of S has been freed once, and no other.                      *)
FreedAre(S) == freed = [b \in 0 .. MaxSize - 1 |-> IF b \in S THEN 1 ELSE 0]

(* The data blocks, but for the last if that is left out                   *)
Due == {b \in low .. size - 1 : Mkfs!LastLeftOut => b # size - 1}

(* What V6 has freed: all above i, and j - 1 places of the span down from  *)
(* i.                                                                      *)
AboveV6 ==
  {b \in low .. size - 1 :
     b > i \/ \E k \in 1 .. j - 1 : b = i - Mkfs!SpanOrder(n, m)[k]}

(* ... and the others: all from i on, and j - 1 places of the span below   *)
AboveV7 ==
  {b \in Due : b >= i \/ \E k \in 1 .. j - 1 : b = i - (Mkfs!SpanOrder(n, m)[k] + 1)}

FillingV6 ==
  /\ release = "v6" /\ phase \in {"top", "spans", "bottom", "done"}
  /\ i \in low - 1 .. size - 1 /\ j \in 1 .. n
  /\ j > 1 => phase = "spans" /\ Mkfs!SpanFits
  /\ phase = "done" => i < low
  /\ FreedAre(AboveV6)

FillingV7 ==
  /\ release = "v7" /\ phase \in {"round", "spans", "done"}
  /\ i \in Int /\ j \in 1 .. n
  /\ phase = "round" => j = 1 /\ i >= size - 1 /\ (i > size - 1 => ~Mkfs!LastLeftOut)
  /\ phase = "spans" => (j > 1 => i > 0) /\ (Mkfs!LastLeftOut => i <= size - 1)
  /\ phase = "done" => j = 1 /\ i <= 0
  /\ FreedAre(IF phase = "round" THEN {} ELSE AboveV7)

Filling ==
  \/ phase = "none" /\ freed = <<>>
  \/ Params /\ (FillingV6 \/ FillingV7)

LEMMA FillingFreesOnce ==
  ASSUME Filling
  PROVE  FreedOnce
<1>1. CASE phase = "none" /\ freed = <<>>
  BY <1>1 DEF FreedOnce, Mkfs!FreedOnce
<1>2. CASE Params /\ FillingV6
  <2>1. phase = "done" => AboveV6 = low .. size - 1
    BY <1>2 DEF FillingV6, AboveV6, Params
  <2>2. AboveV6 \subseteq low .. size - 1 /\ ~Mkfs!LastLeftOut
    BY <1>2 DEF FillingV6, AboveV6, Mkfs!LastLeftOut
  <2>3. low .. size - 1 \subseteq 0 .. MaxSize - 1
    BY <1>2, StartupAssumption DEF Params
  <2>4. DOMAIN freed = 0 .. MaxSize - 1
    BY <1>2 DEF FillingV6, FreedAre
  <2>5. \A b \in 0 .. MaxSize - 1 :
          freed[b] = 0 \/ (freed[b] = 1 /\ b \in AboveV6)
    BY <1>2 DEF FillingV6, FreedAre
  <2>6. phase = "done" => {b \in low .. size - 1 : freed[b] = 0} = {}
    BY <1>2, <2>1, <2>3 DEF FillingV6, FreedAre
  <2>7. \A b \in DOMAIN freed : freed[b] <= IF b \in low .. size - 1 THEN 1 ELSE 0
    BY <2>2, <2>4, <2>5
  <2>8. ~Mkfs!LastLeftOut
    BY <2>2
  <2> QED BY <2>6, <2>7, <2>8 DEF FreedOnce, Mkfs!FreedOnce
<1>3. CASE Params /\ FillingV7
  <2>1. phase = "done" => AboveV7 = Due
    BY <1>3 DEF FillingV7, AboveV7, Due, Params
  <2>2. AboveV7 \subseteq Due /\ Due \subseteq low .. size - 1
    BY <1>3 DEF AboveV7, Due
  <2>3. low .. size - 1 \subseteq 0 .. MaxSize - 1 /\ size - 1 \in low .. size - 1
    BY <1>3, StartupAssumption DEF Params
  <2>4. \A b \in 0 .. MaxSize - 1 : freed[b] = 0 \/ (freed[b] = 1 /\ b \in Due)
    BY <1>3, <2>2 DEF FillingV7, FreedAre
  <2>5. phase = "done" => \A b \in low .. size - 1 : freed[b] = 0 <=> b \notin Due
    BY <1>3, <2>1, <2>3 DEF FillingV7, FreedAre
  <2>6. DOMAIN freed = 0 .. MaxSize - 1
    BY <1>3 DEF FillingV7, FreedAre
  <2>7. phase = "done" =>
          {b \in low .. size - 1 : freed[b] = 0}
            = IF Mkfs!LastLeftOut THEN {size - 1} ELSE {}
    BY <2>3, <2>5 DEF Due
  <2>8. \A b \in DOMAIN freed : freed[b] <= IF b \in low .. size - 1 THEN 1 ELSE 0
    BY <2>2, <2>4, <2>6
  <2> QED BY <2>7, <2>8 DEF FreedOnce, Mkfs!FreedOnce
<1> QED BY <1>1, <1>2, <1>3 DEF Filling

-----------------------------------------------------------------------------
(* One more block is freed.                                                *)
LEMMA OneMore ==
  ASSUME NEW S, NEW T, NEW b \in 0 .. MaxSize - 1, FreedAre(S), b \notin S,
         Mkfs!Free(b), T = S \union {b}
  PROVE  freed' = [x \in 0 .. MaxSize - 1 |-> IF x \in T THEN 1 ELSE 0]
<1>1. freed = [x \in 0 .. MaxSize - 1 |-> IF x \in S THEN 1 ELSE 0]
  BY DEF FreedAre
<1>2. freed' = [x \in 0 .. MaxSize - 1 |-> IF x = b THEN freed[b] + 1 ELSE freed[x]]
  BY <1>1 DEF Mkfs!Free
<1>3. \A x \in 0 .. MaxSize - 1 :
        (IF x = b THEN freed[b] + 1 ELSE freed[x]) = IF x \in T THEN 1 ELSE 0
  BY <1>1
<1> QED BY <1>2, <1>3

(* The places of the span                                                  *)
Places == Mkfs!SpanOrder(n, m)

LEMMA PlacesOfSpan ==
  ASSUME Params
  PROVE  /\ \A k \in 1 .. n : Places[k] \in 0 .. n - 1
         /\ \A k, l \in 1 .. n : Places[k] = Places[l] => k = l
         /\ \A q \in 0 .. n - 1 : \E k \in 1 .. n : Places[k] = q
<1>1. n \in Nat \ {0} /\ m \in Nat
  BY DEF Params
<1>2. Arranged(Places, n, n)
  BY <1>1, Permutes DEF Places
<1> QED BY <1>1, <1>2, AllPlaces

(* After the j-th place comes the next, or the next span. *)
LEMMA NextPlaceTaken ==
  ASSUME Params, j \in 1 .. n, Mkfs!NextOfSpan
  PROVE  /\ j' \in 1 .. n
         /\ j < n => j' = j + 1 /\ i' = i
         /\ j = n => j' = 1 /\ i' = i - n
BY DEF Params, Mkfs!NextOfSpan

Same == UNCHANGED <<release, n, m, low, size>>

LEMMA SameParams ==
  ASSUME Params, Same
  PROVE  Params' /\ Places' = Places /\ (Mkfs!LastLeftOut)' = Mkfs!LastLeftOut /\ Due' = Due
BY DEF Params, Same, Places, Mkfs!LastLeftOut, Due

LEMMA SpansKeeps ==
  ASSUME Params, FillingV6, Mkfs!Spans
  PROVE  Same /\ FillingV6'
<1>1. Same /\ phase = "spans"
  BY DEF Mkfs!Spans, Mkfs!params, Same
<1>2. Params' /\ Places' = Places
  BY <1>1, SameParams
<1>3. /\ n \in Nat \ {0} /\ low \in Nat /\ size \in Nat /\ low >= 3 /\ size <= MaxSize
      /\ i \in low - 1 .. size - 1 /\ j \in 1 .. n
  BY DEF Params, FillingV6
<1>4. CASE ~Mkfs!SpanFits
  <2>1. j = 1 /\ phase' = "bottom" /\ UNCHANGED <<i, j, freed>>
    BY <1>4, <1>1, <1>3 DEF FillingV6, Mkfs!Spans
  <2>2. AboveV6' = AboveV6
    BY <1>1, <2>1 DEF AboveV6, Same
  <2>3. FreedAre(AboveV6)'
    BY <2>1, <2>2 DEF FillingV6, FreedAre
  <2> QED BY <1>1, <2>1, <2>3 DEF FillingV6, Same
<1>5. CASE Mkfs!SpanFits
  <2> DEFINE f == i - Places[j]
  <2>1. Mkfs!Free(f) /\ Mkfs!NextOfSpan /\ phase' = phase
    BY <1>5 DEF Mkfs!Spans, Places
  <2>2. f \in low .. size - 1 /\ f <= i /\ f \in 0 .. MaxSize - 1
    BY <1>3, <1>5, PlacesOfSpan, StartupAssumption DEF Mkfs!SpanFits
  <2>3. ~\E k \in 1 .. j - 1 : f = i - Places[k]
    BY <1>3, PlacesOfSpan
  <2>4. f \notin AboveV6
    BY <2>2, <2>3, <1>3 DEF AboveV6, Places
  <2>5. \A b \in low .. size - 1 : b \in AboveV6' <=> b \in AboveV6 \/ b = f
    <3> SUFFICES ASSUME NEW b \in low .. size - 1
                 PROVE  b \in AboveV6' <=> b \in AboveV6 \/ b = f
      OBVIOUS
    <3>1. b \in AboveV6 <=> b > i \/ \E k \in 1 .. j - 1 : b = i - Places[k]
      BY DEF AboveV6, Places
    <3>2. b \in AboveV6' <=> b > i' \/ \E k \in 1 .. j' - 1 : b = i' - Places[k]
      BY <1>1, <1>2 DEF AboveV6, Places, Same
    <3>3. CASE j < n
      <4>1. j' - 1 = j /\ i' = i
        BY <3>3, <2>1, <1>3, NextPlaceTaken
      <4> QED BY <3>1, <3>2, <4>1, <1>3
    <3>4. CASE j = n
      <4>1. j' = 1 /\ i' = i - n
        BY <3>4, <2>1, <1>3, NextPlaceTaken
      <4>2. b \in AboveV6' <=> b > i - n
        BY <3>2, <4>1
      <4>3. ASSUME b > i - n, ~(b > i) PROVE \E k \in 1 .. n : b = i - Places[k]
        <5>1. i - b \in 0 .. n - 1
          BY <4>3, <1>3
        <5>2. PICK k \in 1 .. n : Places[k] = i - b
          BY <5>1, PlacesOfSpan
        <5> QED BY <5>2, <1>3
      <4>4. \A k \in 1 .. n : i - Places[k] > i - n
        BY <1>3, PlacesOfSpan
      <4> QED BY <3>1, <3>4, <4>2, <4>3, <4>4, <1>3
    <3> QED BY <3>3, <3>4, <1>3
  <2>6. AboveV6' = AboveV6 \union {f}
    <3>1. AboveV6' \subseteq low .. size - 1 /\ AboveV6 \subseteq low .. size - 1
      BY <1>1 DEF AboveV6, Same
    <3> QED BY <2>2, <2>5, <3>1
  <2>7. FreedAre(AboveV6)'
    <3>1. FreedAre(AboveV6)
      BY DEF FillingV6
    <3> HIDE DEF f
    <3> QED BY <2>1, <2>2, <2>4, <2>6, <3>1, OneMore DEF FreedAre
  <2>8. /\ i' \in low' - 1 .. size' - 1 /\ j' \in 1 .. n'
        /\ j' > 1 => (Mkfs!SpanFits)'
    BY <1>1, <1>3, <1>5, <2>1, NextPlaceTaken DEF Same, Mkfs!SpanFits
  <2> QED BY <1>1, <2>1, <2>7, <2>8 DEF FillingV6, Same
<1> QED BY <1>4, <1>5

(* The blocks above the last span's end, and those below the first span's  *)
(* beginning, are freed one by one.                                        *)
LEMMA OneByOne ==
  ASSUME Params, FillingV6, Mkfs!Top \/ Mkfs!Bottom
  PROVE  Same /\ FillingV6'
<1>1. Same /\ j' = j /\ j = 1 /\ phase \in {"top", "bottom"}
  BY DEF Mkfs!Top, Mkfs!Bottom, Mkfs!params, Same, FillingV6, Params
<1>2. /\ n \in Nat \ {0} /\ low \in Nat /\ size \in Nat /\ low >= 3 /\ size <= MaxSize
      /\ i \in low - 1 .. size - 1 /\ MaxSize \in Nat
  BY StartupAssumption DEF Params, FillingV6
<1>3. CASE UNCHANGED <<i, freed>>
  <2>1. AboveV6' = AboveV6
    BY <1>1, <1>3 DEF AboveV6, Same
  <2>2. FreedAre(AboveV6)'
    BY <1>3, <2>1 DEF FillingV6, FreedAre
  <2>3. \/ phase' = "spans"
        \/ phase' = "done" /\ i < low
    BY <1>1, <1>2, <1>3 DEF Mkfs!Top, Mkfs!Bottom
  <2> QED BY <1>1, <1>2, <1>3, <2>2, <2>3 DEF FillingV6, Same, Params
<1>4. CASE Mkfs!Free(i) /\ i' = i - 1 /\ i >= low /\ phase' = phase
  <2>1. i \in 0 .. MaxSize - 1 /\ i \in low .. size - 1 /\ i' \in low - 1 .. size - 1
    BY <1>2, <1>4
  <2>2. AboveV6 = {b \in low .. size - 1 : b > i}
    BY <1>1 DEF AboveV6
  <2>3. AboveV6' = {b \in low .. size - 1 : b > i - 1}
    BY <1>1, <1>4 DEF AboveV6, Same
  <2>4. AboveV6' = AboveV6 \union {i} /\ i \notin AboveV6
    BY <2>1, <2>2, <2>3
  <2>5. FreedAre(AboveV6)'
    <3>1. FreedAre(AboveV6)
      BY DEF FillingV6
    <3> QED BY <1>4, <2>1, <2>4, <3>1, OneMore DEF FreedAre
  <2> QED BY <1>1, <1>4, <2>1, <2>5 DEF FillingV6, Same
<1>5. \/ UNCHANGED <<i, freed>>
      \/ Mkfs!Free(i) /\ i' = i - 1 /\ i >= low /\ phase' = phase
  BY <1>2 DEF Mkfs!Top, Mkfs!Bottom, Mkfs!TopAligned
<1> QED BY <1>3, <1>4, <1>5

LEMMA RoundUpKeeps ==
  ASSUME Params, FillingV7, Mkfs!RoundUp
  PROVE  Same /\ FillingV7'
<1>1. Same /\ phase = "round" /\ UNCHANGED <<j, freed>> /\ j = 1
  BY DEF Mkfs!RoundUp, Mkfs!params, Same, FillingV7
<1>2. /\ n \in Nat \ {0} /\ size \in Nat /\ low \in Nat /\ i \in Int /\ i >= size - 1
      /\ (i > size - 1 => ~Mkfs!LastLeftOut) /\ FreedAre({})
  BY <1>1 DEF Params, FillingV7
<1>3. release' = "v7" /\ (Mkfs!LastLeftOut)' = Mkfs!LastLeftOut /\ Due' = Due /\ j' \in 1 .. n'
  BY <1>1, SameParams DEF FillingV7, Same
<1>4. CASE i % n # 0
  <2>1. i' = i + 1 /\ phase' = "round"
    BY <1>1, <1>4 DEF Mkfs!RoundUp
  <2>2. ~Mkfs!LastLeftOut
    <3>1. i = size - 1 \/ i > size - 1
      BY <1>2
    <3> QED BY <3>1, <1>2, <1>4 DEF Mkfs!LastLeftOut
  <2>3. FreedAre({})'
    BY <1>1, <1>2 DEF FreedAre
  <2>4. i' \in Int /\ i' >= size' - 1
    BY <1>1, <1>2, <2>1 DEF Same
  <2> QED BY <1>1, <1>3, <2>1, <2>2, <2>3, <2>4 DEF FillingV7
<1>5. CASE i % n = 0
  <2>1. i' = i /\ phase' = "spans"
    BY <1>1, <1>5 DEF Mkfs!RoundUp
  <2>2. Mkfs!LastLeftOut => i <= size - 1
    BY <1>2
  <2>3. \A b \in Due : ~(b >= i)
    <3> SUFFICES ASSUME NEW b \in Due, b >= i PROVE FALSE
      OBVIOUS
    <3>1. b = size - 1 /\ i = size - 1
      BY <1>2 DEF Due
    <3>2. Mkfs!LastLeftOut
      BY <1>5, <3>1 DEF Mkfs!LastLeftOut, FillingV7
    <3> QED BY <3>1, <3>2 DEF Due
  <2>4. AboveV7' = {}
    BY <1>1, <1>3, <2>1, <2>3 DEF AboveV7
  <2>5. FreedAre(AboveV7)'
    BY <1>1, <1>2, <2>4 DEF FreedAre
  <2>6. Mkfs!LastLeftOut' => i' <= size' - 1
    BY <1>1, <1>3, <2>1, <2>2 DEF Same
  <2> QED BY <1>1, <1>2, <1>3, <2>1, <2>5, <2>6 DEF FillingV7
<1> QED BY <1>4, <1>5

LEMMA SpansBelowKeeps ==
  ASSUME Params, FillingV7, Mkfs!SpansBelow
  PROVE  Same /\ FillingV7'
<1>1. Same /\ phase = "spans"
  BY DEF Mkfs!SpansBelow, Mkfs!params, Same
<1>2. Params' /\ Places' = Places /\ Due' = Due /\ (Mkfs!LastLeftOut)' = Mkfs!LastLeftOut
  BY <1>1, SameParams
<1>3. /\ n \in Nat \ {0} /\ low \in Nat /\ size \in Nat /\ low >= 3 /\ size <= MaxSize
      /\ i \in Int /\ j \in 1 .. n /\ MaxSize \in Nat
      /\ (j > 1 => i > 0) /\ (Mkfs!LastLeftOut => i <= size - 1)
  BY <1>1, StartupAssumption DEF Params, FillingV7
<1>r. release' = "v7"
  BY <1>1 DEF FillingV7, Same
<1>a. FreedAre(AboveV7)
  BY <1>1 DEF FillingV7
<1>4. CASE ~(i > 0)
  <2>1. j = 1 /\ phase' = "done" /\ UNCHANGED <<i, j, freed>>
    BY <1>4, <1>1, <1>3 DEF Mkfs!SpansBelow
  <2>2. AboveV7' = AboveV7
    BY <1>1, <1>2, <2>1 DEF AboveV7, Same
  <2>3. FreedAre(AboveV7)'
    BY <2>1, <2>2, <1>a DEF FreedAre
  <2>4. i' \in Int /\ i' <= 0 /\ j' = 1 /\ j' \in 1 .. n'
    BY <1>1, <1>3, <1>4, <2>1 DEF Same
  <2> QED BY <1>r, <2>1, <2>3, <2>4, <1>1 DEF FillingV7
<1>5. CASE i > 0
  <2> DEFINE f == i - (Places[j] + 1)
  <2>1. /\ IF f \in low .. size - 1 THEN Mkfs!Free(f) ELSE UNCHANGED freed
        /\ Mkfs!NextOfSpan /\ phase' = phase
    BY <1>5 DEF Mkfs!SpansBelow, Places
  <2>2. f \in Int /\ f < i
    BY <1>3, PlacesOfSpan
  <2>3. f \in low .. size - 1 => f \in Due
    BY <1>3, <2>2 DEF Due
  <2>4. f \notin AboveV7
    <3>1. ~\E k \in 1 .. j - 1 : f = i - (Places[k] + 1)
      BY <1>3, PlacesOfSpan
    <3> QED BY <2>2, <3>1, <1>3 DEF AboveV7, Places, Due
  <2>5. \A b \in Due : b \in AboveV7' <=> b \in AboveV7 \/ b = f
    <3> SUFFICES ASSUME NEW b \in Due
                 PROVE  b \in AboveV7' <=> b \in AboveV7 \/ b = f
      OBVIOUS
    <3>0. b \in Int
      BY <1>3 DEF Due
    <3>1. b \in AboveV7 <=> b >= i \/ \E k \in 1 .. j - 1 : b = i - (Places[k] + 1)
      BY DEF AboveV7, Places
    <3>2. b \in AboveV7' <=> b >= i' \/ \E k \in 1 .. j' - 1 : b = i' - (Places[k] + 1)
      BY <1>1, <1>2 DEF AboveV7, Places
    <3>3. CASE j < n
      <4>1. j' - 1 = j /\ i' = i
        BY <3>3, <2>1, <1>3, NextPlaceTaken
      <4> QED BY <3>1, <3>2, <4>1, <1>3
    <3>4. CASE j = n
      <4>1. j' = 1 /\ i' = i - n
        BY <3>4, <2>1, <1>3, NextPlaceTaken
      <4>2. b \in AboveV7' <=> b >= i - n
        BY <3>2, <4>1
      <4>3. ASSUME b >= i - n, ~(b >= i) PROVE \E k \in 1 .. n : b = i - (Places[k] + 1)
        <5>1. i - b - 1 \in 0 .. n - 1
          BY <4>3, <1>3, <3>0
        <5>2. PICK k \in 1 .. n : Places[k] = i - b - 1
          BY <5>1, PlacesOfSpan
        <5> QED BY <5>2, <1>3, <3>0
      <4>4. \A k \in 1 .. n : i - (Places[k] + 1) >= i - n
        BY <1>3, PlacesOfSpan
      <4>5. b \in AboveV7 \/ b = f <=> b >= i \/ \E k \in 1 .. n : b = i - (Places[k] + 1)
        BY <3>1, <3>4, <1>3
      <4>6. b >= i \/ (\E k \in 1 .. n : b = i - (Places[k] + 1)) <=> b >= i - n
        BY <4>3, <4>4, <1>3, <3>0
      <4> QED BY <4>2, <4>5, <4>6
    <3> QED BY <3>3, <3>4, <1>3
  <2>6. AboveV7 \subseteq Due /\ AboveV7' \subseteq Due /\ Due \subseteq low .. size - 1
    BY <1>2 DEF AboveV7, Due
  <2>7. FreedAre(AboveV7)'
    <3> HIDE DEF f
    <3>1. CASE f \in low .. size - 1
      <4>1. AboveV7' = AboveV7 \union {f}
        BY <2>3, <2>5, <2>6, <3>1
      <4>2. f \in 0 .. MaxSize - 1
        BY <3>1, <1>3
      <4> QED BY <3>1, <2>1, <2>4, <4>1, <4>2, <1>a, OneMore DEF FreedAre
    <3>2. CASE f \notin low .. size - 1
      <4>1. AboveV7' = AboveV7
        BY <2>5, <2>6, <3>2
      <4> QED BY <3>2, <2>1, <4>1, <1>a DEF FreedAre
    <3> QED BY <3>1, <3>2
  <2>8. /\ i' \in Int /\ i' <= i /\ j' \in 1 .. n'
        /\ j' > 1 => i' = i
    BY <1>1, <1>3, <2>1, NextPlaceTaken DEF Same
  <2>9. /\ j' > 1 => i' > 0
        /\ Mkfs!LastLeftOut' => i' <= size' - 1
    BY <1>1, <1>2, <1>3, <1>5, <2>8 DEF Same
  <2> QED BY <1>r, <1>1, <2>1, <2>7, <2>8, <2>9 DEF FillingV7
<1> QED BY <1>4, <1>5

LEMMA FirstNumbers ==
  ASSUME NEW c \in 1 .. MaxN, NEW s \in 4 .. MaxSize, NEW l \in 3 .. s - 1
  PROVE  /\ 1 \in 1 .. c /\ s - 1 \in l - 1 .. s - 1 /\ s - 1 \in Int
         /\ s - 1 >= s - 1 /\ ~(s - 1 > s - 1)
         /\ \A b \in l .. s - 1 : ~(b > s - 1) /\ \A k \in 1 .. 1 - 1 : FALSE
BY StartupAssumption

LEMMA BeginKeeps ==
  ASSUME Mkfs!Begin
  PROVE  Filling'
<1>1. n' \in 1 .. MaxN /\ m' \in 1 .. n' /\ size' \in 4 .. MaxSize /\ low' \in 3 .. size' - 1
  BY DEF Mkfs!Begin
<1>2. i' = size' - 1 /\ j' = 1 /\ freed' = [b \in 0 .. MaxSize - 1 |-> 0]
  BY DEF Mkfs!Begin
<1>3. release' \in {"v6", "v7"}
  BY StartupAssumption DEF Mkfs!Begin
<1>4. /\ release' = "v6" => phase' = "top"
      /\ release' # "v6" => phase' = "round"
  BY DEF Mkfs!Begin
<1>5. /\ 1 \in 1 .. n' /\ size' - 1 \in low' - 1 .. size' - 1 /\ size' - 1 \in Int
      /\ size' - 1 >= size' - 1 /\ ~(size' - 1 > size' - 1)
      /\ \A b \in low' .. size' - 1 : ~(b > size' - 1) /\ \A k \in 1 .. 1 - 1 : FALSE
  BY <1>1, FirstNumbers
<1>6. j' \in 1 .. n' /\ i' \in low' - 1 .. size' - 1
  BY <1>2, <1>5
<1>7. Params'
  BY <1>1, <1>3 DEF Params
<1>8. CASE release' = "v6"
  <2>1. AboveV6' = {}
    BY <1>2, <1>5 DEF AboveV6
  <2>2. FreedAre(AboveV6)'
    BY <1>2, <2>1 DEF FreedAre
  <2>3. ~(j' > 1) /\ phase' = "top"
    BY <1>2, <1>4, <1>8
  <2>4. FillingV6'
    BY <1>6, <1>8, <2>2, <2>3 DEF FillingV6
  <2> QED BY <1>7, <2>4 DEF Filling
<1>9. CASE release' = "v7"
  <2>1. FreedAre({})'
    BY <1>2 DEF FreedAre
  <2>2. i' \in Int /\ i' >= size' - 1 /\ ~(i' > size' - 1)
    BY <1>2, <1>5
  <2>3. phase' = "round"
    BY <1>4, <1>9
  <2>4. FillingV7'
    BY <1>2, <1>6, <1>9, <2>1, <2>2, <2>3 DEF FillingV7
  <2> QED BY <1>7, <2>4 DEF Filling
<1> QED BY <1>3, <1>8, <1>9

LEMMA FillingNext ==
  ASSUME Filling, Mkfs!Next
  PROVE  Filling'
<1>1. phase # "none"
  BY DEF Mkfs!Next, Mkfs!Top, Mkfs!Spans, Mkfs!Bottom, Mkfs!RoundUp, Mkfs!SpansBelow
<1>2. Params /\ (FillingV6 \/ FillingV7)
  BY <1>1 DEF Filling
<1>3. CASE FillingV6
  <2>1. Mkfs!Spans \/ Mkfs!Top \/ Mkfs!Bottom
    BY <1>3 DEF Mkfs!Next, Mkfs!RoundUp, Mkfs!SpansBelow, FillingV6
  <2>2. Same /\ FillingV6'
    BY <1>2, <1>3, <2>1, SpansKeeps, OneByOne
  <2> QED BY <1>2, <2>2, SameParams DEF Filling
<1>4. CASE FillingV7
  <2>1. Mkfs!RoundUp \/ Mkfs!SpansBelow
    BY <1>4 DEF Mkfs!Next, Mkfs!Top, Mkfs!Bottom, Mkfs!Spans, FillingV7
  <2>2. Same /\ FillingV7'
    BY <1>2, <1>4, <2>1, RoundUpKeeps, SpansBelowKeeps
  <2> QED BY <1>2, <2>2, SameParams DEF Filling
<1> QED BY <1>2, <1>3, <1>4

-----------------------------------------------------------------------------
(* The table of ids.                                                       *)

(* Memory is had in pieces of INC entries.                                 *)
Table ==
  /\ entries \in Seq(Ids!HostIds \X (0 .. MaxFsid))
  /\ room \in Nat /\ room % INC = 0 /\ Len(entries) <= room

LEMMA NextPiece ==
  ASSUME NEW x \in Nat, NEW c \in Nat \ {0}, x % c = 0
  PROVE  (x + c) % c = 0
<1>1. PICK q \in Nat : q = x \div c
  OBVIOUS
<1>2. x = c * q
  BY <1>1
<1>3. x + c = c * (q + 1) /\ q + 1 \in Nat
  BY <1>2
<1>4. \A r \in Nat : (c * r) % c = 0
  OBVIOUS
<1> QED BY <1>3, <1>4

LEMMA AddKeeps ==
  ASSUME Table, NEW hostid \in Ids!HostIds, NEW fsid \in 0 .. MaxFsid,
         Ids!AddIdMap(hostid, fsid)
  PROVE  Table'
<1>1. INC \in Nat \ {0} /\ Len(entries) \in Nat
  BY StartupAssumption DEF Table
<1>2. /\ entries' = Append(entries, <<hostid, fsid>>)
      /\ room' = IF Len(entries) % INC = 0 THEN Len(entries) + INC ELSE room
  BY DEF Ids!AddIdMap, Ids!NeedsRoom
<1>3. entries' \in Seq(Ids!HostIds \X (0 .. MaxFsid)) /\ Len(entries') = Len(entries) + 1
  BY <1>2, AppendProperties DEF Table
<1>4. CASE Len(entries) % INC = 0
  <2>1. room' = Len(entries) + INC
    BY <1>2, <1>4
  <2>2. room' % INC = 0
    BY <1>1, <1>4, <2>1, NextPiece
  <2>3. room' \in Nat /\ Len(entries') <= room'
    BY <1>1, <1>3, <2>1
  <2> QED BY <1>3, <2>2, <2>3 DEF Table, Ids!HostIds
<1>5. CASE Len(entries) % INC # 0
  <2>1. room' = room /\ Len(entries) # room
    BY <1>2, <1>5 DEF Table
  <2>2. Len(entries') <= room'
    BY <1>1, <1>3, <2>1 DEF Table
  <2> QED BY <1>3, <2>1, <2>2 DEF Table, Ids!HostIds
<1> QED BY <1>4, <1>5

(* x is where id first is the k-th part of an entry, or 0.                 *)
FirstAt(k, id, x) ==
  \/ x = 0 /\ \A y \in 1 .. Len(entries) : entries[y][k] # id
  \/ /\ x \in 1 .. Len(entries) /\ entries[x][k] = id
     /\ \A y \in 1 .. x - 1 : entries[y][k] # id

LEMMA FirstIs ==
  ASSUME Table, NEW k, NEW id
  PROVE  FirstAt(k, id, Ids!First(k, id))
<1> DEFINE I == {y \in 1 .. Len(entries) : entries[y][k] = id}
<1>0. Len(entries) \in Nat
  BY DEF Table
<1>1. Ids!First(k, id) = IF I # {} THEN Ids!Min(I) ELSE 0
  BY DEF Ids!First, Ids!SelectInSeq
<1>2. CASE I = {}
  BY <1>1, <1>2 DEF FirstAt
<1>3. CASE I # {}
  <2>1. I \subseteq Nat
    BY <1>0
  <2>2. \E x \in I : \A y \in I : x <= y
    <3> HIDE DEF I
    <3> QED BY <1>3, <2>1, LeastNatural
  <2>3. Ids!Min(I) \in I /\ \A y \in I : Ids!Min(I) <= y
    <3> HIDE DEF I
    <3> QED BY <2>2 DEF Ids!Min
  <2> DEFINE x == Ids!Min(I)
  <2>4. x \in 1 .. Len(entries) /\ entries[x][k] = id
    BY <2>3
  <2>5. \A y \in 1 .. x - 1 : entries[y][k] # id
    BY <2>3, <2>4, <1>0
  <2> HIDE DEF x
  <2>6. Ids!First(k, id) = x
    BY <1>1, <1>3 DEF x
  <2> QED BY <2>4, <2>5, <2>6 DEF FirstAt
<1> QED BY <1>2, <1>3

(* What an inode keeps as it is comes back as it is; what it does not is   *)
(* beyond every id of the filesystem.                                      *)
LEMMA Kept ==
  ASSUME NEW f \in 0 .. MaxFsid
  PROVE  LET w == Ids!Widen(Ids!Narrow(f)) IN
           /\ Ids!Keeps(f) => w = f
           /\ ~Ids!Keeps(f) => w \in Nat /\ w > MaxFsid
<1>1. /\ HostRange \in Nat /\ Width \in Nat /\ Width % 2 = 0 /\ MaxFsid \in Nat
      /\ MaxFsid < Width /\ Width < HostRange /\ MaxFsid < HostRange - Width \div 2
  BY StartupAssumption
<1>2. CASE Ids!Keeps(f)
  <2>1. Ids!Narrow(f) = f
    BY <1>1, <1>2 DEF Ids!Keeps, Ids!Narrow
  <2>2. f \in 0 .. HostRange - 1
    BY <1>1
  <2>3. f % HostRange = f
    BY <2>2, <1>1
  <2> QED BY <1>2, <2>1, <2>3 DEF Ids!Widen
<1>3. CASE ~Ids!Keeps(f)
  <2>1. f >= Width \div 2 /\ Ids!Narrow(f) = f - Width
    BY <1>1, <1>3 DEF Ids!Keeps, Ids!Narrow
  <2> DEFINE w == (f - Width) + HostRange
  <2>2. w \in 0 .. HostRange - 1 /\ w > MaxFsid
    <3>1. Width \div 2 \in Nat /\ Width = 2 * (Width \div 2)
      BY <1>1
    <3> QED BY <1>1, <2>1, <3>1
  <2>3. (f - Width) % HostRange = w
    <3>1. f - Width = HostRange * (-1) + w
      BY <1>1
    <3> QED BY <3>1, <2>2, <1>1
  <2> QED BY <1>3, <2>1, <2>2, <2>3 DEF Ids!Widen
<1> QED BY <1>2, <1>3

(* The part of an entry that comes first is where it is found. *)
LEMMA FoundAt ==
  ASSUME Table, NEW x \in 1 .. Len(entries), NEW k,
         \A y \in 1 .. x - 1 : entries[y][k] # entries[x][k]
  PROVE  Ids!First(k, entries[x][k]) = x
<1>1. Len(entries) \in Nat
  BY DEF Table
<1>2. FirstAt(k, entries[x][k], Ids!First(k, entries[x][k]))
  BY FirstIs
<1> QED BY <1>1, <1>2 DEF FirstAt

LEMMA EntryTyped ==
  ASSUME Table, NEW x \in 1 .. Len(entries)
  PROVE  entries[x][1] \in Ids!HostIds /\ entries[x][2] \in 0 .. MaxFsid
BY DEF Table

LEMMA BothWays ==
  ASSUME Table
  PROVE  Ids!AppliesBothWays
<1> SUFFICES ASSUME NEW x \in 1 .. Len(entries),
                    \A y \in 1 .. x - 1 : /\ entries[y][1] # entries[x][1]
                                         /\ entries[y][2] # entries[x][2]
             PROVE  /\ Ids!ToFsid(entries[x][1]) = entries[x][2]
                    /\ Ids!Keeps(entries[x][2]) => Ids!Shown(entries[x][1]) = entries[x][1]
  BY DEF Ids!AppliesBothWays
<1> DEFINE h == entries[x][1]
           f == entries[x][2]
<1>1. Ids!First(1, h) = x /\ Ids!First(2, f) = x /\ x # 0
  BY FoundAt DEF Table
<1>2. Ids!ToFsid(h) = f
  BY <1>1 DEF Ids!ToFsid
<1>3. Ids!ToHostid(f) = h
  BY <1>1 DEF Ids!ToHostid
<1>4. f \in 0 .. MaxFsid
  BY EntryTyped
<1> HIDE DEF h, f
<1>5. Ids!Keeps(f) => Ids!Widen(Ids!Narrow(f)) = f
  BY <1>4, Kept
<1> QED BY <1>2, <1>3, <1>5 DEF Ids!Shown, h, f

(* What an inode has lost is nobody, and so is the last id.                *)
LEMMA LostIsNobody ==
  ASSUME Table, NEW w \in Nat, w > MaxFsid
  PROVE  Ids!ToHostid(w) = DefaultHost
<1>1. Ids!First(2, w) = 0
  <2>1. FirstAt(2, w, Ids!First(2, w))
    BY FirstIs
  <2>2. \A y \in 1 .. Len(entries) : entries[y][2] # w
    <3>1. \A e \in 0 .. MaxFsid : e # w
      BY StartupAssumption
    <3> QED BY <3>1, EntryTyped
  <2> QED BY <2>1, <2>2 DEF FirstAt
<1>2. ~(w \in 0 .. MaxFsid - 1)
  BY StartupAssumption
<1> QED BY <1>1, <1>2 DEF Ids!ToHostid

LEMMA Others ==
  ASSUME Table
  PROVE  Ids!OthersUnchanged
<1> SUFFICES ASSUME NEW h \in Ids!HostIds,
                    Ids!First(1, h) = 0, Ids!First(2, h) = 0, Ids!First(2, MaxFsid) = 0
             PROVE  Ids!Shown(h) = IF h < MaxFsid /\ Ids!Keeps(h) THEN h ELSE DefaultHost
  BY DEF Ids!OthersUnchanged
<1>1. h \in Nat /\ MaxFsid \in Nat
  BY StartupAssumption DEF Ids!HostIds
<1> DEFINE f == IF h <= MaxFsid THEN h ELSE MaxFsid
<1>2. f \in 0 .. MaxFsid /\ Ids!ToFsid(h) = f
  BY <1>1 DEF Ids!ToFsid
<1>3. Ids!Shown(h) = Ids!ToHostid(Ids!Widen(Ids!Narrow(f)))
  BY <1>2 DEF Ids!Shown
<1>4. CASE ~Ids!Keeps(f)
  <2>1. Ids!Shown(h) = DefaultHost
    <3> HIDE DEF f
    <3>1. Ids!Widen(Ids!Narrow(f)) \in Nat /\ Ids!Widen(Ids!Narrow(f)) > MaxFsid
      BY <1>2, <1>4, Kept
    <3> QED BY <1>3, <3>1, LostIsNobody
  <2>2. h < MaxFsid => f = h
    BY <1>1
  <2> QED BY <1>4, <2>1, <2>2
<1>5. CASE Ids!Keeps(f)
  <2>1. Ids!Shown(h) = Ids!ToHostid(f)
    <3> HIDE DEF f
    <3> QED BY <1>2, <1>3, <1>5, Kept
  <2>2. CASE h < MaxFsid
    <3>1. f = h /\ h \in 0 .. MaxFsid - 1
      BY <1>1, <2>2
    <3>2. Ids!ToHostid(h) = h
      BY <3>1 DEF Ids!ToHostid
    <3> QED BY <1>5, <2>1, <2>2, <3>1, <3>2
  <2>3. CASE ~(h < MaxFsid)
    <3>1. f = MaxFsid /\ ~(MaxFsid \in 0 .. MaxFsid - 1)
      BY <1>1, <2>3
    <3>2. Ids!ToHostid(MaxFsid) = DefaultHost
      BY <3>1 DEF Ids!ToHostid
    <3> QED BY <2>1, <2>3, <3>1, <3>2
  <2> QED BY <2>2, <2>3
<1> QED BY <1>4, <1>5

-----------------------------------------------------------------------------
(* The theorems.                                                           *)

Inv == Table /\ Filling

LEMMA InvInit ==
  ASSUME Init
  PROVE  Inv
<1>1. Table
  <2>1. entries = <<>> /\ room = 0
    BY DEF Init, Ids!Init
  <2>2. 0 % INC = 0 /\ Len(<<>>) = 0
    BY StartupAssumption
  <2> QED BY <2>1, <2>2 DEF Table
<1>2. Filling
  BY DEF Init, Mkfs!Init, Filling
<1> QED BY <1>1, <1>2 DEF Inv

LEMMA SameTable ==
  ASSUME Table, UNCHANGED ids
  PROVE  Table'
BY DEF Table, ids, Ids!HostIds

LEMMA SameFilling ==
  ASSUME Filling, UNCHANGED list
  PROVE  Filling'
<1>1. UNCHANGED <<release, n, m, low, size, phase, i, j, freed>>
  BY DEF list
<1> QED BY <1>1 DEF Filling, Params, FillingV6, FillingV7, FreedAre, AboveV6, AboveV7, Due,
                    Mkfs!LastLeftOut, Mkfs!SpanFits

LEMMA InvNext ==
  ASSUME Inv, [Next]_<<stage, ids, list>>
  PROVE  Inv'
<1>0. Table /\ Filling
  BY DEF Inv
<1>1. CASE MapOption
  <2>1. Table'
    BY <1>0, <1>1, AddKeeps DEF MapOption
  <2>2. Filling'
    BY <1>0, <1>1, SameFilling DEF MapOption
  <2> QED BY <2>1, <2>2 DEF Inv
<1>2. CASE InitFs
  BY <1>0, <1>2, SameTable, BeginKeeps DEF InitFs, Inv
<1>3. CASE FreeNext
  BY <1>0, <1>3, SameTable, FillingNext DEF FreeNext, Inv
<1>4. CASE UNCHANGED <<ids, list>>
  BY <1>0, <1>4, SameTable, SameFilling DEF Inv
<1>5. Leave \/ Mount \/ UNCHANGED <<stage, ids, list>> => UNCHANGED <<ids, list>>
  BY DEF Leave, Mount
<1> QED BY <1>1, <1>2, <1>3, <1>4, <1>5 DEF Next

THEOREM Consistent == Spec => []Inv
<1>1. Init => Inv
  BY InvInit
<1>2. Inv /\ [Next]_<<stage, ids, list>> => Inv'
  BY InvNext
<1> QED BY <1>1, <1>2, PTL DEF Spec

(* However many mappings the command line has, each is written to memory   *)
(* that idmap_addidmap has had for it.                                     *)
THEOREM MappingsHaveRoom == Spec => []TypeOK
<1>1. Inv => TypeOK
  BY DEF Inv, Table, TypeOK, Ids!TypeOK
<1> QED BY <1>1, Consistent, PTL

(* Whatever the mappings, the first that has a host id or a filesystem id  *)
(* answers both ways, if an inode keeps the id; an id that no mapping has  *)
(* stays what it is, or is nobody's.                                       *)
THEOREM IdsAlwaysAgree == Spec => []IdsAgree
<1>1. Inv => IdsAgree
  BY BothWays, Others DEF Inv, IdsAgree, Ids!IdsAgree
<1> QED BY <1>1, Consistent, PTL

(* For every size of a volume, every span and every interleave, mkfs frees *)
(* each data block once; but V7 and the BSDs leave the last one out when a *)
(* span would begin with it.                                               *)
THEOREM EachBlockFreedOnce == Spec => []FreedOnce
<1>1. Inv => FreedOnce
  BY FillingFreesOnce DEF Inv
<1> QED BY <1>1, Consistent, PTL
=============================================================================
