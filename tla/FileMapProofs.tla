---------------------------- MODULE FileMapProofs ----------------------------
(***************************************************************************)
(* Proofs about the block map of a file, for every number of addresses,    *)
(* every size of an indirect block and every number of blocks.  The        *)
(* inductive invariant says that the map is a tree in which each block of  *)
(* the file stands once, counting the buffer that a call of bmap has       *)
(* cleared and not written as what its block holds; that such a call has   *)
(* come down the path of its logical block; and that bmap would answer     *)
(* what it answered last.                                                  *)
(***************************************************************************)
EXTENDS FileMap, SequenceTheorems, TLAPS

-----------------------------------------------------------------------------
(* Quotients and remainders: the digits of a block number.                 *)

LEMMA Divided ==
  ASSUME NEW x \in Nat, NEW c \in Nat \ {0}
  PROVE  /\ x \div c \in Nat /\ x % c \in 0 .. c - 1
         /\ x = c * (x \div c) + (x % c)
OBVIOUS

LEMMA DividedUniquely ==
  ASSUME NEW c \in Nat \ {0}, NEW q \in Nat, NEW r \in 0 .. c - 1, NEW q2 \in Nat, NEW r2 \in 0 .. c - 1,
         c * q + r = c * q2 + r2
  PROVE  q = q2 /\ r = r2
<1>1. ASSUME NEW a \in Nat, NEW b \in Nat, NEW s \in 0 .. c - 1, NEW t \in 0 .. c - 1,
             a < b PROVE c * a + s < c * b + t
  <2>1. c * (a + 1) <= c * b
    BY <1>1
  <2>2. c * (a + 1) = c * a + c
    OBVIOUS
  <2> QED BY <2>1, <2>2
<1>2. ~(q < q2) /\ ~(q2 < q)
  BY <1>1
<1> QED BY <1>2

LEMMA QuotientOrder ==
  ASSUME NEW x \in Nat, NEW y \in Nat, NEW c \in Nat \ {0}
  PROVE  x > y <=> \/ x \div c > y \div c
                   \/ x \div c = y \div c /\ x % c > y % c
<1> DEFINE q == x \div c  r == x % c  q2 == y \div c  r2 == y % c
<1>1. /\ q \in Nat /\ r \in 0 .. c - 1 /\ x = c * q + r
      /\ q2 \in Nat /\ r2 \in 0 .. c - 1 /\ y = c * q2 + r2
  BY Divided
<1> HIDE DEF q, r, q2, r2
<1>2. ASSUME NEW a \in Nat, NEW b \in Nat, NEW s \in 0 .. c - 1, NEW t \in 0 .. c - 1,
             a < b PROVE c * a + s < c * b + t
  <2>1. c * (a + 1) <= c * b
    BY <1>2
  <2>2. c * (a + 1) = c * a + c
    OBVIOUS
  <2> QED BY <2>1, <2>2
<1>3. x > y <=> q > q2 \/ (q = q2 /\ r > r2)
  <2>1. CASE q < q2
    <3>1. x < y BY <2>1, <1>1, <1>2
    <3> QED BY <2>1, <3>1, <1>1
  <2>2. CASE q > q2
    <3>1. x > y BY <2>2, <1>1, <1>2
    <3> QED BY <2>2, <3>1, <1>1
  <2>3. CASE q = q2
    BY <2>3, <1>1
  <2> QED BY <2>1, <2>2, <2>3, <1>1
<1> QED BY <1>3 DEF q, r, q2, r2

LEMMA QuotientBelow ==
  ASSUME NEW x \in Nat, NEW c \in Nat \ {0}, NEW d \in Nat, x < c * d
  PROVE  x \div c < d
<1> DEFINE q == x \div c  r == x % c
<1>1. q \in Nat /\ r \in 0 .. c - 1 /\ x = c * q + r
  BY Divided
<1> HIDE DEF q, r
<1>2. ASSUME q >= d PROVE FALSE
  <2>1. c * q >= c * d
    BY <1>1, <1>2
  <2> QED BY <1>1, <2>1
<1>3. q < d
  BY <1>1, <1>2
<1> QED BY <1>3 DEF q

(* x in base c: the digits of x % (c * c) are the last two of x *)
LEMMA TwoDigits ==
  ASSUME NEW x \in Nat, NEW c \in Nat \ {0}
  PROVE  /\ x \div (c * c) = (x \div c) \div c
         /\ (x % (c * c)) \div c = (x \div c) % c
         /\ (x % (c * c)) % c = x % c
<1> DEFINE q == x \div c  r == x % c  q2 == q \div c  r2 == q % c
           Q == x \div (c * c)  R == x % (c * c)
           a == R \div c  b == R % c
<1>0. c * c \in Nat \ {0}
  OBVIOUS
<1>1. q \in Nat /\ r \in 0 .. c - 1 /\ x = c * q + r
  BY Divided
<1>2. q2 \in Nat /\ r2 \in 0 .. c - 1 /\ q = c * q2 + r2
  BY Divided, <1>1
<1>3. Q \in Nat /\ R \in 0 .. c * c - 1 /\ x = (c * c) * Q + R
  BY Divided, <1>0
<1>4. a \in Nat /\ b \in 0 .. c - 1 /\ R = c * a + b
  <2>1. R \in Nat
    BY <1>3, <1>0
  <2> HIDE DEF R
  <2> QED BY <2>1, Divided
<1>5. a < c
  <2>1. R \in Nat /\ R < c * c
    BY <1>3, <1>0
  <2> QED BY <2>1, QuotientBelow
<1> HIDE DEF q, r, q2, r2, Q, R, a, b
<1>6. x = c * (c * Q + a) + b /\ c * Q + a \in Nat
  <2>1. (c * c) * Q = c * (c * Q) /\ c * (c * Q + a) = c * (c * Q) + c * a
    BY <1>3, <1>4
  <2> QED BY <2>1, <1>3, <1>4
<1>7. q = c * Q + a /\ r = b
  <2>1. c * q + r = c * (c * Q + a) + b
    BY <1>1, <1>6
  <2> QED BY <2>1, <1>1, <1>4, <1>6, DividedUniquely
<1>8. q2 = Q /\ r2 = a
  <2>1. c * q2 + r2 = c * Q + a /\ a \in 0 .. c - 1
    BY <1>2, <1>4, <1>5, <1>7
  <2> QED BY <2>1, <1>2, <1>3, DividedUniquely
<1> QED BY <1>7, <1>8 DEF q, r, q2, r2, Q, R, a, b
-----------------------------------------------------------------------------
(* Paths.                                                                  *)

Parent(p) == SubSeq(p, 1, Len(p) - 1)

Sized == kernel \in Kernels /\ ilarg \in BOOLEAN

LEMMA SizesFacts ==
  Sized => /\ Naddr \in Nat \ {0} /\ PER \in Nat \ {0}
           /\ V6 => Naddr \in 2 .. PER
           /\ ~V6 => Naddr > 3
           /\ \A i \in 0 .. Naddr - 1 : Levels(i) \in 0 .. 3
BY FileMapAssumption DEF Sized, Naddr, V6, Levels

(* What a sequence must be to be a path. *)
IsPath(p) ==
  /\ p \in Seq(Nat) /\ Len(p) >= 1
  /\ p[1] \in 0 .. Naddr - 1 /\ Len(p) <= 1 + Levels(p[1])
  /\ \A k \in 2 .. Len(p) : p[k] \in 0 .. PER - 1

LEMMA PathsAre == Sized => \A p : p \in Paths <=> IsPath(p)
<1> SUFFICES ASSUME Sized, NEW p PROVE p \in Paths <=> IsPath(p)
  OBVIOUS
<1>1. ASSUME p \in Paths PROVE IsPath(p)
  <2>0. PICK i \in 0 .. Naddr - 1 :
             p \in {<<i>> \o t : t \in UNION {[1 .. k -> 0 .. PER - 1] : k \in 0 .. Levels(i)}}
    BY <1>1 DEF Paths
  <2>1. PICK k \in 0 .. Levels(i) : \E t \in [1 .. k -> 0 .. PER - 1] : p = <<i>> \o t
    BY <2>0
  <2>9. PICK t \in [1 .. k -> 0 .. PER - 1] : p = <<i>> \o t
    BY <2>1
  <2>2. Levels(i) \in Nat /\ k \in Nat /\ i \in Nat /\ PER \in Nat
    BY SizesFacts
  <2>3. t \in Seq(Nat) /\ Len(t) = k
    BY <2>2
  <2>4. <<i>> \in Seq(Nat) /\ Len(<<i>>) = 1 /\ <<i>>[1] = i
    BY <2>2
  <2>5. /\ p \in Seq(Nat) /\ Len(p) = 1 + k
        /\ \A j \in 1 .. 1 + k : p[j] = IF j <= 1 THEN <<i>>[j] ELSE t[j - 1]
    <3>1. /\ <<i>> \o t \in Seq(Nat) /\ Len(<<i>> \o t) = Len(<<i>>) + Len(t)
          /\ \A j \in 1 .. Len(<<i>>) + Len(t) :
               (<<i>> \o t)[j] = IF j <= Len(<<i>>) THEN <<i>>[j] ELSE t[j - Len(<<i>>)]
      BY <2>3, <2>4, ConcatProperties
    <3> QED BY <3>1, <2>9, <2>3, <2>4
  <2>6. p[1] = i /\ \A j \in 2 .. Len(p) : p[j] = t[j - 1] /\ j - 1 \in 1 .. k
    BY <2>5, <2>4, <2>2
  <2> QED BY <2>5, <2>6, <2>2 DEF IsPath
<1>2. ASSUME IsPath(p) PROVE p \in Paths
  <2> DEFINE i == p[1]
             k == Len(p) - 1
             t == [j \in 1 .. k |-> p[j + 1]]
  <2>1. Len(p) \in Nat /\ k \in Nat /\ k \in 0 .. Levels(i) /\ i \in 0 .. Naddr - 1 /\ i \in Nat
    <3>1. Len(p) \in Nat /\ Len(p) >= 1 /\ Len(p) <= 1 + Levels(i)
      BY <1>2, LenProperties DEF IsPath
    <3>2. i \in 0 .. Naddr - 1 /\ Naddr \in Nat /\ Levels(i) \in 0 .. 3
      BY <1>2, SizesFacts DEF IsPath
    <3> HIDE DEF i
    <3>3. Levels(i) \in Nat
      BY <3>2
    <3> QED BY <3>1, <3>2, <3>3
  <2>2. \A j \in 1 .. k : p[j + 1] \in 0 .. PER - 1
    BY <1>2, <2>1 DEF IsPath
  <2>3. t \in [1 .. k -> 0 .. PER - 1]
    BY <2>2
  <2>4. t \in Seq(Nat) /\ Len(t) = k
    <3> HIDE DEF t, k, i
    <3>1. 0 .. PER - 1 \subseteq Nat
      BY SizesFacts
    <3>2. t \in [1 .. k -> Nat]
      BY <3>1, <2>3
    <3> QED BY <3>2, <2>1
  <2>5. <<i>> \in Seq(Nat) /\ Len(<<i>>) = 1 /\ <<i>>[1] = i
    BY <2>1
  <2>6. /\ <<i>> \o t \in Seq(Nat) /\ Len(<<i>> \o t) = 1 + k
        /\ \A j \in 1 .. 1 + k : (<<i>> \o t)[j] = IF j <= 1 THEN <<i>>[j] ELSE t[j - 1]
    <3> HIDE DEF i, t
    <3>1. /\ <<i>> \o t \in Seq(Nat) /\ Len(<<i>> \o t) = Len(<<i>>) + Len(t)
          /\ \A j \in 1 .. Len(<<i>>) + Len(t) :
               (<<i>> \o t)[j] = IF j <= Len(<<i>>) THEN <<i>>[j] ELSE t[j - Len(<<i>>)]
      BY <2>4, <2>5, ConcatProperties
    <3> QED BY <3>1, <2>4, <2>5
  <2>7. \A j \in 1 .. 1 + k : (<<i>> \o t)[j] = p[j]
    BY <2>6, <2>5, <2>1
  <2>8. p = <<i>> \o t
    <3>1. p \in Seq(Nat) /\ Len(p) = 1 + k
      BY <1>2, <2>1 DEF IsPath
    <3> HIDE DEF i, t, k
    <3> QED BY <3>1, <2>6, <2>7, SeqEqual
  <2> HIDE DEF t, k, i
  <2>9. t \in UNION {[1 .. n -> 0 .. PER - 1] : n \in 0 .. Levels(i)}
    BY <2>1, <2>3
  <2>10. p \in {<<i>> \o s : s \in UNION {[1 .. n -> 0 .. PER - 1] : n \in 0 .. Levels(i)}}
    BY <2>8, <2>9
  <2> QED BY <2>1, <2>10 DEF Paths
<1> QED BY <1>1, <1>2

LEMMA ParentIs ==
  ASSUME NEW p \in Seq(Nat), Len(p) > 1
  PROVE  /\ Parent(p) \in Seq(Nat) /\ Len(Parent(p)) = Len(p) - 1
         /\ \A k \in 1 .. Len(p) - 1 : Parent(p)[k] = p[k]
<1>1. Len(p) \in Nat /\ \A k \in 1 .. Len(p) - 1 : p[k] \in Nat
  BY ElementOfSeq, LenProperties
<1>2. /\ Parent(p) \in Seq(Nat)
      /\ Len(Parent(p)) = IF 1 <= Len(p) - 1 THEN Len(p) - 1 - 1 + 1 ELSE 0
      /\ \A i \in 1 .. Len(p) - 1 - 1 + 1 : Parent(p)[i] = p[1 + i - 1]
  BY <1>1, SubSeqProperties DEF Parent
<1> QED BY <1>1, <1>2

(* What the lemmas on trees need of a set of paths. *)
Rooted(P) ==
  \A p \in P : /\ p \in Seq(Nat) /\ Len(p) \in 1 .. 4
               /\ Len(p) > 1 => Parent(p) \in P /\ p[Len(p)] \in 0 .. PER - 1

LEMMA PathsRooted == Sized => Rooted(Paths)
<1> SUFFICES ASSUME Sized, NEW p \in Paths
             PROVE  /\ p \in Seq(Nat) /\ Len(p) \in 1 .. 4
                    /\ Len(p) > 1 => Parent(p) \in Paths /\ p[Len(p)] \in 0 .. PER - 1
  BY DEF Rooted
<1>1. IsPath(p) /\ Len(p) \in Nat /\ Levels(p[1]) \in 0 .. 3
  BY PathsAre, SizesFacts, LenProperties DEF IsPath
<1>2. p \in Seq(Nat) /\ Len(p) \in 1 .. 4
  <2>1. p \in Seq(Nat) /\ Len(p) >= 1 /\ Len(p) <= 1 + Levels(p[1])
    BY <1>1 DEF IsPath
  <2>2. Len(p) \in Nat /\ Levels(p[1]) \in Nat /\ Levels(p[1]) <= 3
    BY <1>1
  <2>3. \A n, m \in Nat : n >= 1 /\ n <= 1 + m /\ m <= 3 => n \in 1 .. 4
    OBVIOUS
  <2>4. Len(p) \in 1 .. 4
    BY <2>1, <2>2, <2>3
  <2> QED BY <2>1, <2>4
<1>3. ASSUME Len(p) > 1 PROVE IsPath(Parent(p)) /\ p[Len(p)] \in 0 .. PER - 1
  <2>1. /\ Parent(p) \in Seq(Nat) /\ Len(Parent(p)) = Len(p) - 1
        /\ \A k \in 1 .. Len(p) - 1 : Parent(p)[k] = p[k]
    BY <1>2, <1>3, ParentIs
  <2>2. PICK n \in Nat : n = Len(p) /\ n > 1
    BY <1>1, <1>3
  <2>3. PICK q \in Seq(Nat) : q = Parent(p) /\ Len(q) = n - 1 /\ \A k \in 1 .. n - 1 : q[k] = p[k]
    BY <2>1, <2>2
  <2>4. /\ p[1] \in 0 .. Naddr - 1 /\ n <= 1 + Levels(p[1]) /\ Levels(p[1]) \in Nat
        /\ \A k \in 2 .. n : p[k] \in 0 .. PER - 1
    BY <1>1, <2>2 DEF IsPath
  <2>5. q[1] = p[1] /\ Len(q) >= 1 /\ n - 1 <= 1 + Levels(p[1])
    BY <2>2, <2>3, <2>4
  <2>6. \A k \in 2 .. n - 1 : q[k] \in 0 .. PER - 1
    <3>1. \A k \in 2 .. n - 1 : k \in 1 .. n - 1 /\ k \in 2 .. n
      BY <2>2
    <3> QED BY <3>1, <2>3, <2>4
  <2>7. IsPath(q)
    BY <2>3, <2>4, <2>5, <2>6 DEF IsPath
  <2>8. p[n] \in 0 .. PER - 1
    BY <2>2, <2>4
  <2> QED BY <2>2, <2>3, <2>7, <2>8
<1> QED BY <1>2, <1>3, PathsAre

LEMMA SamePath ==
  ASSUME NEW p \in Seq(Nat), NEW q \in Seq(Nat), Len(p) > 1, Len(q) = Len(p),
         Parent(p) = Parent(q), p[Len(p)] = q[Len(p)]
  PROVE  p = q
<1>1. Len(p) \in Nat
  BY LenProperties
<1>2. \A k \in 1 .. Len(p) - 1 : p[k] = q[k]
  <2>1. \A k \in 1 .. Len(p) - 1 : Parent(p)[k] = p[k]
    BY ParentIs
  <2>2. \A k \in 1 .. Len(q) - 1 : Parent(q)[k] = q[k]
    BY ParentIs
  <2> QED BY <2>1, <2>2
<1>3. \A k \in 1 .. Len(p) : p[k] = q[k]
  BY <1>1, <1>2
<1> QED BY <1>3, SeqEqual

LEMMA SameAddress ==
  ASSUME NEW p \in Seq(Nat), NEW q \in Seq(Nat), Len(p) = 1, Len(q) = 1, p[1] = q[1]
  PROVE  p = q
<1>1. \A k \in 1 .. Len(p) : p[k] = q[k]
  OBVIOUS
<1> QED BY <1>1, SeqEqual

-----------------------------------------------------------------------------
(* Where paths lead.                                                       *)

LEMMA LeadsOne ==
  ASSUME NEW addr, NEW cont, NEW p, Len(p) = 1
  PROVE  Leads(addr, cont, p) = addr[p[1]]
BY DEF Leads, Followed

LEMMA LeadsOn ==
  ASSUME NEW addr, NEW cont, NEW p \in Seq(Nat), Len(p) \in 2 .. 4
  PROVE  LET b == Leads(addr, cont, Parent(p)) IN
         Leads(addr, cont, p) = IF b = 0 THEN 0 ELSE cont[b][p[Len(p)]]
<1>0. Len(p) > 1
  OBVIOUS
<1>1. /\ Len(Parent(p)) = Len(p) - 1
      /\ \A k \in 1 .. Len(p) - 1 : Parent(p)[k] = p[k]
  BY <1>0, ParentIs
<1>2. CASE Len(p) = 2
  BY <1>1, <1>2 DEF Leads, Followed
<1>3. CASE Len(p) = 3
  <2>1. PICK q : q = Parent(p) /\ Len(q) = 2 /\ q[1] = p[1] /\ q[2] = p[2]
    BY <1>1, <1>3
  <2>2. \A b : /\ Followed(cont, b, q, 2) = Followed(cont, b, p, 2)
               /\ Followed(cont, b, q, 3) = b /\ Followed(cont, b, q, 4) = b
               /\ Followed(cont, b, p, 3) = (IF b = 0 THEN 0 ELSE cont[b][p[3]])
               /\ Followed(cont, b, p, 4) = b
    BY <2>1, <1>3 DEF Followed
  <2> QED BY <2>1, <2>2, <1>3 DEF Leads
<1>4. CASE Len(p) = 4
  <2>1. PICK q : q = Parent(p) /\ Len(q) = 3 /\ q[1] = p[1] /\ q[2] = p[2] /\ q[3] = p[3]
    BY <1>1, <1>4
  <2>2. \A b : /\ Followed(cont, b, q, 2) = Followed(cont, b, p, 2)
               /\ Followed(cont, b, q, 3) = Followed(cont, b, p, 3)
               /\ Followed(cont, b, q, 4) = b
               /\ Followed(cont, b, p, 4) = (IF b = 0 THEN 0 ELSE cont[b][p[4]])
    BY <2>1, <1>4 DEF Followed
  <2> QED BY <2>1, <2>2, <1>4 DEF Leads
<1> QED BY <1>2, <1>3, <1>4

(* The map that addr and cont make over the paths P holds each block of    *)
(* owned in one place, and no other.                                       *)
IsTree(P, addr, cont, owned) ==
  /\ \A p \in P : Leads(addr, cont, p) \in owned \union {0}
  /\ \A p, q \in P : Leads(addr, cont, p) # 0 /\ Leads(addr, cont, p) = Leads(addr, cont, q) => p = q
  /\ \A b \in owned : \E p \in P : Leads(addr, cont, p) = b

(* Block b is entered at path q, where there was none. *)
EntersAt(P, addr, cont, q, b, addr2, cont2) ==
  IF Len(q) = 1
  THEN /\ \A p \in P : Len(p) = 1 => addr2[p[1]] = IF p = q THEN b ELSE addr[p[1]]
       /\ \A x \in {Leads(addr, cont, p) : p \in P} \ {0} : cont2[x] = cont[x]
  ELSE LET x == Leads(addr, cont, Parent(q)) IN
       /\ addr2 = addr /\ x # 0
       /\ \A j \in 0 .. PER - 1 : cont2[x][j] = IF j = q[Len(q)] THEN b ELSE cont[x][j]
       /\ \A y \in {Leads(addr, cont, p) : p \in P} \ {0, x} : cont2[y] = cont[y]

LEMMA Grafted ==
  ASSUME NEW P, Rooted(P), NEW addr, NEW cont, NEW owned, 0 \notin owned,
         IsTree(P, addr, cont, owned), NEW q \in P, Leads(addr, cont, q) = 0,
         NEW b, b \notin owned, b # 0, NEW addr2, NEW cont2,
         EntersAt(P, addr, cont, q, b, addr2, cont2),
         \A p \in P : Len(p) > 1 /\ Parent(p) = q => cont2[b][p[Len(p)]] = 0
  PROVE  /\ \A p \in P : Leads(addr2, cont2, p) = IF p = q THEN b ELSE Leads(addr, cont, p)
         /\ IsTree(P, addr2, cont2, owned \union {b})
<1> DEFINE Old(p) == Leads(addr, cont, p)
           New(p) == Leads(addr2, cont2, p)
           Right(n) == \A p \in P : Len(p) = n => New(p) = IF p = q THEN b ELSE Old(p)
<1>0. \A p \in P : Old(p) # b
  BY DEF IsTree
<1>1. Right(1)
  <2> SUFFICES ASSUME NEW p \in P, Len(p) = 1 PROVE New(p) = IF p = q THEN b ELSE Old(p)
    OBVIOUS
  <2>1. New(p) = addr2[p[1]] /\ Old(p) = addr[p[1]]
    BY LeadsOne
  <2>2. CASE Len(q) = 1
    BY <2>1, <2>2 DEF EntersAt
  <2>3. CASE Len(q) # 1
    BY <2>1, <2>3 DEF EntersAt
  <2> QED BY <2>2, <2>3
<1>2. ASSUME NEW n \in 1 .. 3, Right(n) PROVE Right(n + 1)
  <2> SUFFICES ASSUME NEW p \in P, Len(p) = n + 1
               PROVE  New(p) = IF p = q THEN b ELSE Old(p)
    OBVIOUS
  <2> DEFINE r == Parent(p)
             j == p[Len(p)]
  <2>1. /\ p \in Seq(Nat) /\ Len(p) \in 2 .. 4 /\ Len(p) > 1 /\ r \in P
        /\ j \in 0 .. PER - 1
    BY DEF Rooted
  <2>2. Len(r) = n
    BY <2>1, ParentIs
  <2>3. New(r) = IF r = q THEN b ELSE Old(r)
    BY <1>2, <2>1, <2>2
  <2>4. /\ New(p) = IF New(r) = 0 THEN 0 ELSE cont2[New(r)][j]
        /\ Old(p) = IF Old(r) = 0 THEN 0 ELSE cont[Old(r)][j]
    BY <2>1, LeadsOn
  <2>5. q \in Seq(Nat) /\ Len(q) \in 1 .. 4 /\ (Len(q) = 1 \/ Len(q) > 1)
    <3>1. \A k : k \in 1 .. 4 => k = 1 \/ k > 1
      OBVIOUS
    <3>2. q \in Seq(Nat) /\ Len(q) \in 1 .. 4
      BY DEF Rooted
    <3> QED BY <3>1, <3>2
  <2>6. CASE r = q
    <3>1. p # q
      BY <2>6, <2>2
    <3>2. New(p) = 0 /\ Old(p) = 0
      BY <2>1, <2>3, <2>4, <2>6
    <3> QED BY <3>1, <3>2
  <2>7. CASE r # q /\ Old(r) = 0
    <3>1. p # q
      <4> SUFFICES ASSUME p = q PROVE FALSE
        OBVIOUS
      <4> QED BY <2>1, <2>7 DEF EntersAt
    <3> QED BY <3>1, <2>3, <2>4, <2>7
  <2>8. CASE r # q /\ Old(r) # 0
    <3>1. New(r) = Old(r) /\ Old(r) \in {Old(s) : s \in P} \ {0}
      BY <2>1, <2>3, <2>8
    <3>2. CASE Len(q) = 1
      <4>1. cont2[Old(r)] = cont[Old(r)]
        BY <3>1, <3>2 DEF EntersAt
      <4>2. p # q
        <5>1. Len(p) # 1
          BY <2>1
        <5> QED BY <5>1, <3>2
      <4> QED BY <4>1, <4>2, <3>1, <2>4, <2>8
    <3>3. CASE Len(q) # 1 /\ r = Parent(q)
      <4>1. cont2[Old(r)][j] = IF j = q[Len(q)] THEN b ELSE cont[Old(r)][j]
        BY <3>3, <2>1 DEF EntersAt
      <4>2. p = q <=> j = q[Len(q)]
        <5>1. Len(q) > 1
          BY <3>3, <2>5
        <5>2. Len(q) = Len(p)
          BY <5>1, <3>3, <2>1, <2>5, ParentIs
        <5> QED BY <5>1, <5>2, <3>3, <2>1, <2>5, SamePath
      <4> QED BY <4>1, <4>2, <3>1, <2>4, <2>8
    <3>4. CASE Len(q) # 1 /\ r # Parent(q)
      <4>1. Parent(q) \in P
        BY <3>4, <2>5 DEF Rooted
      <4>2. Old(r) # Old(Parent(q))
        BY <4>1, <3>4, <2>1, <2>8 DEF IsTree
      <4>3. cont2[Old(r)] = cont[Old(r)]
        BY <3>1, <3>4, <4>2 DEF EntersAt
      <4>4. p # q
        BY <3>4
      <4> QED BY <4>3, <4>4, <3>1, <2>4, <2>8
    <3> QED BY <3>2, <3>3, <3>4
  <2> QED BY <2>6, <2>7, <2>8
<1>3. Right(1) /\ Right(2) /\ Right(3) /\ Right(4)
  <2> HIDE DEF Right
  <2>1. Right(1 + 1) BY <1>1, <1>2
  <2>2. Right(2 + 1) BY <2>1, <1>2
  <2>3. Right(3 + 1) BY <2>2, <1>2
  <2> QED BY <1>1, <2>1, <2>2, <2>3
<1>4. \A p \in P : New(p) = IF p = q THEN b ELSE Old(p)
  <2>1. \A p \in P : Len(p) \in {1, 2, 3, 4}
    BY DEF Rooted
  <2> QED BY <2>1, <1>3
<1>5. IsTree(P, addr2, cont2, owned \union {b})
  <2>1. \A p \in P : Old(p) \in owned \union {0}
    BY DEF IsTree
  <2>2. \A p, s \in P : Old(p) # 0 /\ Old(p) = Old(s) => p = s
    BY DEF IsTree
  <2>3. \A x \in owned : \E p \in P : Old(p) = x
    BY DEF IsTree
  <2> HIDE DEF Old, New
  <2>4. \A p \in P : New(p) \in (owned \union {b}) \union {0}
    BY <1>4, <2>1
  <2>5. \A p, s \in P : New(p) # 0 /\ New(p) = New(s) => p = s
    BY <1>0, <1>4, <2>2
  <2>6. \A x \in owned \union {b} : \E p \in P : New(p) = x
    <3>1. New(q) = b
      BY <1>4
    <3>2. ASSUME NEW x \in owned, x # b PROVE \E p \in P : New(p) = x
      <4>1. PICK p \in P : Old(p) = x
        BY <2>3
      <4>2. Old(q) = 0 /\ x # 0
        BY DEF Old
      <4>3. New(p) = x
        BY <4>1, <4>2, <1>4
      <4> QED BY <4>3
    <3> QED BY <3>1, <3>2
  <2> QED BY <2>4, <2>5, <2>6 DEF IsTree, New
<1> QED BY <1>4, <1>5

(* The places C, and all that lies under them, are cleared. *)
ClearsAt(P, addr, cont, C, addr2, cont2) ==
  /\ C \subseteq P
  /\ \A p \in P : Len(p) > 1 /\ Parent(p) \in C => p \in C
  /\ \A p \in P : Len(p) = 1 => addr2[p[1]] = IF p \in C THEN 0 ELSE addr[p[1]]
  /\ \A p \in P : Len(p) > 1 =>
       LET x == Leads(addr, cont, Parent(p)) IN
       x # 0 => cont2[x][p[Len(p)]] = IF p \in C THEN 0 ELSE cont[x][p[Len(p)]]

(* What the places C hold *)
AllOf(addr, cont, C) == {Leads(addr, cont, p) : p \in C}

LEMMA Pruned ==
  ASSUME NEW P, Rooted(P), NEW addr, NEW cont, NEW owned, 0 \notin owned,
         IsTree(P, addr, cont, owned),
         NEW C, NEW addr2, NEW cont2, ClearsAt(P, addr, cont, C, addr2, cont2)
  PROVE  /\ \A p \in P : Leads(addr2, cont2, p) = IF p \in C THEN 0 ELSE Leads(addr, cont, p)
         /\ IsTree(P, addr2, cont2, owned \ AllOf(addr, cont, C))
<1> DEFINE Old(p) == Leads(addr, cont, p)
           New(p) == Leads(addr2, cont2, p)
           Right(n) == \A p \in P : Len(p) = n => New(p) = IF p \in C THEN 0 ELSE Old(p)
<1>1. Right(1)
  <2> SUFFICES ASSUME NEW p \in P, Len(p) = 1 PROVE New(p) = IF p \in C THEN 0 ELSE Old(p)
    OBVIOUS
  <2>1. New(p) = addr2[p[1]] /\ Old(p) = addr[p[1]]
    BY LeadsOne
  <2> QED BY <2>1 DEF ClearsAt
<1>2. ASSUME NEW n \in 1 .. 3, Right(n) PROVE Right(n + 1)
  <2> SUFFICES ASSUME NEW p \in P, Len(p) = n + 1
               PROVE  New(p) = IF p \in C THEN 0 ELSE Old(p)
    OBVIOUS
  <2> DEFINE r == Parent(p)
             j == p[Len(p)]
  <2>1. p \in Seq(Nat) /\ Len(p) \in 2 .. 4 /\ Len(p) > 1 /\ r \in P
    BY DEF Rooted
  <2>2. Len(r) = n
    BY <2>1, ParentIs
  <2>3. New(r) = IF r \in C THEN 0 ELSE Old(r)
    BY <1>2, <2>1, <2>2
  <2>4. /\ New(p) = IF New(r) = 0 THEN 0 ELSE cont2[New(r)][j]
        /\ Old(p) = IF Old(r) = 0 THEN 0 ELSE cont[Old(r)][j]
    BY <2>1, LeadsOn
  <2>5. CASE r \in C
    BY <2>1, <2>3, <2>4, <2>5 DEF ClearsAt
  <2>6. CASE r \notin C /\ Old(r) = 0
    BY <2>3, <2>4, <2>6
  <2>7. CASE r \notin C /\ Old(r) # 0
    <3>1. cont2[Old(r)][j] = IF p \in C THEN 0 ELSE cont[Old(r)][j]
      BY <2>1, <2>7 DEF ClearsAt
    <3> QED BY <3>1, <2>3, <2>4, <2>7
  <2> QED BY <2>5, <2>6, <2>7
<1>3. Right(1) /\ Right(2) /\ Right(3) /\ Right(4)
  <2> HIDE DEF Right
  <2>1. Right(1 + 1) BY <1>1, <1>2
  <2>2. Right(2 + 1) BY <2>1, <1>2
  <2>3. Right(3 + 1) BY <2>2, <1>2
  <2> QED BY <1>1, <2>1, <2>2, <2>3
<1>4. \A p \in P : New(p) = IF p \in C THEN 0 ELSE Old(p)
  <2>1. \A p \in P : Len(p) \in {1, 2, 3, 4}
    BY DEF Rooted
  <2> QED BY <2>1, <1>3
<1>5. IsTree(P, addr2, cont2, owned \ {Old(p) : p \in C})
  <2>1. \A p \in P : Old(p) \in owned \union {0}
    BY DEF IsTree
  <2>2. \A p, s \in P : Old(p) # 0 /\ Old(p) = Old(s) => p = s
    BY DEF IsTree
  <2>3. \A x \in owned : \E p \in P : Old(p) = x
    BY DEF IsTree
  <2>4. C \subseteq P
    BY DEF ClearsAt
  <2> HIDE DEF Old, New
  <2>5. \A p \in P : New(p) \in (owned \ {Old(s) : s \in C}) \union {0}
    BY <1>4, <2>1, <2>2, <2>4
  <2>6. \A p, s \in P : New(p) # 0 /\ New(p) = New(s) => p = s
    BY <1>4, <2>2
  <2>7. \A x \in owned \ {Old(s) : s \in C} : \E p \in P : New(p) = x
    BY <1>4, <2>3
  <2> QED BY <2>5, <2>6, <2>7 DEF IsTree, New
<1>6. AllOf(addr, cont, C) = {Old(p) : p \in C}
  BY DEF AllOf
<1> QED BY <1>4, <1>5, <1>6

(* Block x, which has no entries, is read as something else. *)
ReadsAt(P, addr, cont, cont2, x) ==
  /\ \A j \in 0 .. PER - 1 : cont[x][j] = 0
  /\ \A p \in P : Leads(addr, cont, p) \notin {0, x} =>
       cont2[Leads(addr, cont, p)] = cont[Leads(addr, cont, p)]

(* If a block without entries is read as something else, the blocks that   *)
(* are in the map stay where they are.                                     *)
LEMMA Unmoved ==
  ASSUME NEW P, Rooted(P), NEW addr, NEW cont, NEW cont2, NEW x,
         ReadsAt(P, addr, cont, cont2, x)
  PROVE  \A p \in P : Leads(addr, cont, p) # 0 =>
           Leads(addr, cont2, p) = Leads(addr, cont, p)
<1> DEFINE Old(p) == Leads(addr, cont, p)
           New(p) == Leads(addr, cont2, p)
           Right(n) == \A p \in P : Len(p) = n /\ Old(p) # 0 => New(p) = Old(p)
<1>1. Right(1)
  BY LeadsOne
<1>2. ASSUME NEW n \in 1 .. 3, Right(n) PROVE Right(n + 1)
  <2> SUFFICES ASSUME NEW p \in P, Len(p) = n + 1, Old(p) # 0
               PROVE  New(p) = Old(p)
    OBVIOUS
  <2> DEFINE r == Parent(p)
             j == p[Len(p)]
  <2>1. /\ p \in Seq(Nat) /\ Len(p) \in 2 .. 4 /\ Len(p) > 1 /\ r \in P
        /\ j \in 0 .. PER - 1
    BY DEF Rooted
  <2>2. Len(r) = n
    BY <2>1, ParentIs
  <2>4. /\ New(p) = IF New(r) = 0 THEN 0 ELSE cont2[New(r)][j]
        /\ Old(p) = IF Old(r) = 0 THEN 0 ELSE cont[Old(r)][j]
    BY <2>1, LeadsOn
  <2>5. Old(r) # 0 /\ Old(r) # x
    BY <2>1, <2>4 DEF ReadsAt
  <2>6. New(r) = Old(r)
    BY <1>2, <2>1, <2>2, <2>5
  <2>7. cont2[Old(r)] = cont[Old(r)]
    BY <2>1, <2>5 DEF ReadsAt
  <2> QED BY <2>4, <2>5, <2>6, <2>7
<1>3. Right(1) /\ Right(2) /\ Right(3) /\ Right(4)
  <2> HIDE DEF Right
  <2>1. Right(1 + 1) BY <1>1, <1>2
  <2>2. Right(2 + 1) BY <2>1, <1>2
  <2>3. Right(3 + 1) BY <2>2, <1>2
  <2> QED BY <1>1, <2>1, <2>2, <2>3
<1>4. \A p \in P : Len(p) \in {1, 2, 3, 4}
  BY DEF Rooted
<1> QED BY <1>3, <1>4

-----------------------------------------------------------------------------
(* The path of a block number.                                             *)

LEMMA PathsOfNumbers ==
  ASSUME Sized
  PROVE  /\ \A a \in 0 .. Naddr - 1 : IsPath(<<a>>)
         /\ \A a \in 0 .. Naddr - 1, b \in 0 .. PER - 1 : Levels(a) >= 1 => IsPath(<<a, b>>)
         /\ \A a \in 0 .. Naddr - 1, b, c \in 0 .. PER - 1 : Levels(a) >= 2 => IsPath(<<a, b, c>>)
         /\ \A a \in 0 .. Naddr - 1, b, c, d \in 0 .. PER - 1 :
              Levels(a) >= 3 => IsPath(<<a, b, c, d>>)
<1>0. /\ Naddr \in Nat /\ PER \in Nat /\ \A i \in 0 .. Naddr - 1 : Levels(i) \in 0 .. 3
  BY SizesFacts
<1>1. ASSUME NEW a \in 0 .. Naddr - 1 PROVE IsPath(<<a>>)
  BY <1>0, <1>1 DEF IsPath
<1>2. ASSUME NEW a \in 0 .. Naddr - 1, NEW b \in 0 .. PER - 1, Levels(a) >= 1
      PROVE  IsPath(<<a, b>>)
  BY <1>0, <1>2 DEF IsPath
<1>3. ASSUME NEW a \in 0 .. Naddr - 1, NEW b \in 0 .. PER - 1, NEW c \in 0 .. PER - 1,
             Levels(a) >= 2
      PROVE  IsPath(<<a, b, c>>)
  BY <1>0, <1>3 DEF IsPath
<1>4. ASSUME NEW a \in 0 .. Naddr - 1, NEW b \in 0 .. PER - 1, NEW c \in 0 .. PER - 1,
             NEW d \in 0 .. PER - 1, Levels(a) >= 3
      PROVE  IsPath(<<a, b, c, d>>)
  BY <1>0, <1>4 DEF IsPath
<1> QED BY <1>1, <1>2, <1>3, <1>4

(* The block numbers that bmap finds a path for, as the file is. *)
Reachable(bn) == ~TooBig(bn) /\ ~(V6 /\ ~ilarg /\ bn >= Naddr)

LEMMA LargePathIs ==
  ASSUME Sized, V6, ilarg, NEW bn \in Nat, ~TooBig(bn)
  PROVE  /\ bn \div PER \in Nat /\ bn % PER \in 0 .. PER - 1
         /\ bn \div PER - (Naddr - 1) < PER
<1>1. PER \in Nat \ {0} /\ Naddr \in Nat /\ "v6" \in Kernels /\ Naddr = NADDR["v6"]
  BY SizesFacts DEF Sized, V6, Naddr
<1> DEFINE y == BnRange \div 2 - 1
<1>2. y \div PER - (Naddr - 1) < PER
  BY <1>1, FileMapAssumption
<1>3. BnRange \div 2 \in Nat /\ bn < BnRange \div 2
  BY FileMapAssumption, Divided DEF TooBig
<1>4. y \in Nat /\ bn <= y
  BY <1>3
<1> HIDE DEF y
<1>5. /\ bn \div PER \in Nat /\ bn % PER \in 0 .. PER - 1
      /\ y \div PER \in Nat
  BY <1>1, <1>4, Divided
<1>6. bn \div PER <= y \div PER
  <2>1. ~(bn > y)
    BY <1>4
  <2>2. ~(bn \div PER > y \div PER)
    BY <2>1, <1>1, <1>4, QuotientOrder
  <2> QED BY <2>2, <1>5
<1> QED BY <1>1, <1>2, <1>5, <1>6

LEMMA IndirectPathIs ==
  ASSUME Sized, ~V6, NEW bn \in Nat, ~TooBig(bn), bn >= Naddr - 3
  PROVE  LET n == bn - (Naddr - 3) IN
         /\ n \in Nat /\ n < PER + PER * PER + PER * PER * PER
         /\ n >= PER => n - PER \in Nat
         /\ n >= PER /\ n - PER < PER * PER =>
              (n - PER) \div PER \in 0 .. PER - 1 /\ (n - PER) % PER \in 0 .. PER - 1
         /\ n >= PER /\ n - PER >= PER * PER =>
              LET m == n - PER - PER * PER IN
              /\ m \in Nat
              /\ m \div (PER * PER) \in 0 .. PER - 1 /\ (m \div PER) % PER \in 0 .. PER - 1
              /\ m % PER \in 0 .. PER - 1
<1> DEFINE n == bn - (Naddr - 3)
<1>0. PER \in Nat \ {0} /\ PER * PER \in Nat \ {0} /\ Naddr \in Nat /\ Naddr > 3
  BY SizesFacts
<1>1. n \in Nat /\ n < PER + PER * PER + PER * PER * PER
  BY <1>0 DEF TooBig
<1> HIDE DEF n
<1>2. ASSUME n >= PER, n - PER < PER * PER
      PROVE  (n - PER) \div PER \in 0 .. PER - 1 /\ (n - PER) % PER \in 0 .. PER - 1
  <2> DEFINE k == n - PER
  <2>1. k \in Nat /\ k < PER * PER
    BY <1>0, <1>1, <1>2
  <2> HIDE DEF k
  <2>2. k \div PER \in Nat /\ k % PER \in 0 .. PER - 1 /\ k \div PER < PER
    BY <1>0, <2>1, Divided, QuotientBelow
  <2>3. k \div PER \in 0 .. PER - 1
    BY <1>0, <2>2
  <2> QED BY <2>2, <2>3 DEF k
<1>3. ASSUME n >= PER, n - PER >= PER * PER
      PROVE  LET m == n - PER - PER * PER IN
              /\ m \in Nat
              /\ m \div (PER * PER) \in 0 .. PER - 1 /\ (m \div PER) % PER \in 0 .. PER - 1
              /\ m % PER \in 0 .. PER - 1
  <2> DEFINE m == n - PER - PER * PER
  <2>1. m \in Nat /\ m < (PER * PER) * PER
    <3>1. PER * PER * PER = (PER * PER) * PER
      OBVIOUS
    <3> QED BY <3>1, <1>0, <1>1, <1>3
  <2> HIDE DEF m
  <2>2. /\ m \div (PER * PER) \in Nat /\ m \div (PER * PER) < PER
        /\ m \div PER \in Nat /\ m % PER \in 0 .. PER - 1
    BY <1>0, <2>1, Divided, QuotientBelow
  <2>3. (m \div PER) % PER \in 0 .. PER - 1
    BY <1>0, <2>2, Divided
  <2>4. m \div (PER * PER) \in 0 .. PER - 1
    BY <1>0, <2>2
  <2> QED BY <2>1, <2>2, <2>3, <2>4 DEF m
<1> QED BY <1>0, <1>1, <1>2, <1>3 DEF n

LEMMA PathOfBlock ==
  Sized => \A bn \in Nat : Reachable(bn) =>
             Path(bn) \in Paths /\ Len(Path(bn)) = 1 + Levels(Path(bn)[1])
<1> SUFFICES ASSUME Sized, NEW bn \in Nat, Reachable(bn)
             PROVE  IsPath(Path(bn)) /\ Len(Path(bn)) = 1 + Levels(Path(bn)[1])
  BY PathsAre
<1>0. PER \in Nat \ {0} /\ Naddr \in Nat /\ (V6 => Naddr \in 2 .. PER) /\ (~V6 => Naddr > 3)
  BY SizesFacts
<1>1. ~TooBig(bn)
  BY DEF Reachable
<1>2. CASE V6 /\ ilarg
  <2>1. /\ bn \div PER \in Nat /\ bn % PER \in 0 .. PER - 1
        /\ bn \div PER - (Naddr - 1) < PER
    BY <1>1, <1>2, LargePathIs
  <2>2. Path(bn) = LargePath(bn)
    BY <1>2 DEF Path
  <2> DEFINE q == bn \div PER
             r == bn % PER
  <2>3. LargePath(bn) = IF q < Naddr - 1 THEN <<q, r>> ELSE <<Naddr - 1, q - (Naddr - 1), r>>
    BY DEF LargePath
  <2> HIDE DEF q, r
  <2>4. CASE q < Naddr - 1
    <3>1. q \in 0 .. Naddr - 1 /\ Levels(q) = 1
      BY <1>0, <1>2, <2>1, <2>4 DEF Levels, q
    <3>2. IsPath(<<q, r>>)
      BY <3>1, <2>1, PathsOfNumbers DEF r
    <3> QED BY <3>1, <3>2, <2>2, <2>3, <2>4
  <2>5. CASE ~(q < Naddr - 1)
    <3>1. /\ Naddr - 1 \in 0 .. Naddr - 1 /\ Levels(Naddr - 1) = 2
          /\ q - (Naddr - 1) \in 0 .. PER - 1
      BY <1>0, <1>2, <2>1, <2>5 DEF Levels, q
    <3>2. IsPath(<<Naddr - 1, q - (Naddr - 1), r>>)
      BY <3>1, <2>1, PathsOfNumbers DEF r
    <3> QED BY <3>1, <3>2, <2>2, <2>3, <2>5
  <2> QED BY <2>4, <2>5
<1>3. CASE ~V6 /\ bn >= Naddr - 3
  <2> DEFINE n == bn - (Naddr - 3)
             m == n - PER - PER * PER
  <2>1. Path(bn) = IndirectPath(n)
    BY <1>3 DEF Path
  <2>2. /\ n \in Nat
        /\ n >= PER /\ n - PER < PER * PER =>
              (n - PER) \div PER \in 0 .. PER - 1 /\ (n - PER) % PER \in 0 .. PER - 1
        /\ n >= PER /\ n - PER >= PER * PER =>
              /\ m \div (PER * PER) \in 0 .. PER - 1 /\ (m \div PER) % PER \in 0 .. PER - 1
              /\ m % PER \in 0 .. PER - 1
    BY <1>1, <1>3, IndirectPathIs
  <2>3. /\ Naddr - 3 \in 0 .. Naddr - 1 /\ Levels(Naddr - 3) = 1
        /\ Naddr - 2 \in 0 .. Naddr - 1 /\ Levels(Naddr - 2) = 2
        /\ Naddr - 1 \in 0 .. Naddr - 1 /\ Levels(Naddr - 1) = 3
    BY <1>0, <1>3 DEF Levels
  <2> HIDE DEF n
  <2>4. CASE n < PER
    <3>1. IndirectPath(n) = <<Naddr - 3, n>> /\ n \in 0 .. PER - 1
      BY <1>0, <2>2, <2>4 DEF IndirectPath
    <3>2. IsPath(<<Naddr - 3, n>>)
      BY <3>1, <2>3, PathsOfNumbers
    <3> QED BY <3>1, <3>2, <2>1, <2>3
  <2>5. CASE n >= PER /\ n - PER < PER * PER
    <3>1. IndirectPath(n) = <<Naddr - 2, (n - PER) \div PER, (n - PER) % PER>>
      BY <1>0, <2>2, <2>5 DEF IndirectPath
    <3>2. IsPath(<<Naddr - 2, (n - PER) \div PER, (n - PER) % PER>>)
      BY <2>2, <2>3, <2>5, PathsOfNumbers
    <3> QED BY <3>1, <3>2, <2>1, <2>3
  <2>6. CASE n >= PER /\ n - PER >= PER * PER
    <3>1. IndirectPath(n) = <<Naddr - 1, m \div (PER * PER), (m \div PER) % PER, m % PER>>
      BY <1>0, <2>2, <2>6 DEF IndirectPath
    <3>2. IsPath(<<Naddr - 1, m \div (PER * PER), (m \div PER) % PER, m % PER>>)
      BY <2>2, <2>3, <2>6, PathsOfNumbers
    <3> QED BY <3>1, <3>2, <2>1, <2>3
  <2> QED BY <1>0, <2>2, <2>4, <2>5, <2>6
<1>4. CASE ~(V6 /\ ilarg) /\ ~(~V6 /\ bn >= Naddr - 3)
  <2>1. Path(bn) = <<bn>>
    BY <1>4 DEF Path
  <2>2. bn \in 0 .. Naddr - 1 /\ Levels(bn) = 0
    BY <1>0, <1>4 DEF Reachable, Levels, Sized
  <2>3. IsPath(<<bn>>)
    BY <2>2, PathsOfNumbers
  <2> QED BY <2>1, <2>2, <2>3
<1> QED BY <1>2, <1>3, <1>4

LEMMA SameNumber ==
  ASSUME NEW x \in Nat, NEW y \in Nat, NEW c \in Nat \ {0},
         x \div c = y \div c, x % c = y % c
  PROVE  x = y
<1>1. x = c * (x \div c) + (x % c) /\ y = c * (y \div c) + (y % c)
  BY Divided
<1> QED BY <1>1

LEMMA LargePathsDiffer ==
  ASSUME Sized, V6, ilarg, NEW x \in Nat, NEW y \in Nat, ~TooBig(x), ~TooBig(y),
         LargePath(x) = LargePath(y)
  PROVE  x = y
<1> DEFINE q == x \div PER
           r == x % PER
           q2 == y \div PER
           r2 == y % PER
<1>1. q \in Nat /\ r \in Nat /\ q2 \in Nat /\ r2 \in Nat /\ Naddr \in Nat /\ PER \in Nat \ {0}
  <2>1. PER \in Nat \ {0} /\ Naddr \in Nat
    BY SizesFacts
  <2>2. q \in Nat /\ r \in 0 .. PER - 1 /\ q2 \in Nat /\ r2 \in 0 .. PER - 1
    BY <2>1, Divided
  <2> HIDE DEF q, r, q2, r2
  <2> QED BY <2>1, <2>2
<1>2. /\ LargePath(x) = IF q < Naddr - 1 THEN <<q, r>> ELSE <<Naddr - 1, q - (Naddr - 1), r>>
      /\ LargePath(y) = IF q2 < Naddr - 1 THEN <<q2, r2>> ELSE <<Naddr - 1, q2 - (Naddr - 1), r2>>
  BY DEF LargePath
<1> HIDE DEF q, r, q2, r2
<1>3. \A a, b, c, d, e : <<a, b>> # <<c, d, e>>
  <2> TAKE a, b, c, d, e
  <2>1. Len(<<a, b>>) = 2 /\ Len(<<c, d, e>>) = 3
    OBVIOUS
  <2> QED BY <2>1
<1>4. q = q2 /\ r = r2
  <2>1. CASE q < Naddr - 1 /\ q2 < Naddr - 1
    <3>1. <<q, r>> = <<q2, r2>>
      BY <1>2, <2>1
    <3> QED BY <3>1
  <2>2. CASE ~(q < Naddr - 1) /\ ~(q2 < Naddr - 1)
    <3>1. <<Naddr - 1, q - (Naddr - 1), r>> = <<Naddr - 1, q2 - (Naddr - 1), r2>>
      BY <1>2, <2>2
    <3>2. \A a, b, c, d, e, f : <<a, b, c>> = <<d, e, f>> => b = e /\ c = f
      OBVIOUS
    <3>3. q - (Naddr - 1) = q2 - (Naddr - 1) /\ r = r2
      BY <3>1, <3>2
    <3> QED BY <3>3, <1>1
  <2>3. CASE q < Naddr - 1 /\ ~(q2 < Naddr - 1)
    BY <1>2, <1>3, <2>3
  <2>4. CASE ~(q < Naddr - 1) /\ q2 < Naddr - 1
    <3>1. <<q2, r2>> = <<Naddr - 1, q - (Naddr - 1), r>>
      BY <1>2, <2>4
    <3> QED BY <1>3, <3>1
  <2> QED BY <2>1, <2>2, <2>3, <2>4
<1> QED BY <1>1, <1>4, SameNumber DEF q, r, q2, r2

LEMMA IndirectPathsDiffer ==
  ASSUME NEW x \in Nat, NEW y \in Nat, Naddr \in Nat, PER \in Nat \ {0},
         IndirectPath(x) = IndirectPath(y)
  PROVE  x = y
<1> DEFINE Kind(n) == IF n < PER THEN 1 ELSE IF n - PER < PER * PER THEN 2 ELSE 3
           m(n) == n - PER - PER * PER
<1>0. PER * PER \in Nat \ {0}
  OBVIOUS
<1>1. ASSUME NEW n \in Nat
      PROVE  /\ Kind(n) = 1 => IndirectPath(n) = <<Naddr - 3, n>>
             /\ Kind(n) = 2 => /\ n - PER \in Nat
                              /\ IndirectPath(n) = <<Naddr - 2, (n - PER) \div PER, (n - PER) % PER>>
             /\ Kind(n) = 3 => /\ m(n) \in Nat
                              /\ IndirectPath(n) = <<Naddr - 1, m(n) \div (PER * PER),
                                                    (m(n) \div PER) % PER, m(n) % PER>>
  BY <1>0 DEF IndirectPath
<1>2. /\ Kind(x) \in {1, 2, 3} /\ Kind(y) \in {1, 2, 3}
      /\ \A n \in Nat : Kind(n) \in {1, 2, 3} => Len(IndirectPath(n)) = Kind(n) + 1
  <2>1. Kind(x) \in {1, 2, 3} /\ Kind(y) \in {1, 2, 3}
    OBVIOUS
  <2>2. ASSUME NEW n \in Nat, Kind(n) \in {1, 2, 3} PROVE Len(IndirectPath(n)) = Kind(n) + 1
    <3> HIDE DEF Kind, m
    <3>1. \A a, b, c, d : Len(<<a, b>>) = 2 /\ Len(<<a, b, c>>) = 3 /\ Len(<<a, b, c, d>>) = 4
      OBVIOUS
    <3>2. CASE Kind(n) = 1
      BY <1>1, <3>1, <3>2
    <3>3. CASE Kind(n) = 2
      BY <1>1, <3>1, <3>3
    <3>4. CASE Kind(n) = 3
      BY <1>1, <3>1, <3>4
    <3> QED BY <2>2, <3>2, <3>3, <3>4
  <2> QED BY <2>1, <2>2
<1>3. Kind(x) = Kind(y)
  <2> HIDE DEF Kind
  <2> QED BY <1>2
<1>4. CASE Kind(x) = 1
  <2>1. <<Naddr - 3, x>> = <<Naddr - 3, y>>
    <3> HIDE DEF Kind
    <3> QED BY <1>1, <1>3, <1>4
  <2> QED BY <2>1
<1>5. CASE Kind(x) = 2
  <2>1. /\ <<Naddr - 2, (x - PER) \div PER, (x - PER) % PER>>
            = <<Naddr - 2, (y - PER) \div PER, (y - PER) % PER>>
        /\ x - PER \in Nat /\ y - PER \in Nat
    <3> HIDE DEF Kind
    <3> QED BY <1>1, <1>3, <1>5
  <2>2. x - PER = y - PER
    BY <2>1, SameNumber
  <2> QED BY <2>2
<1>6. CASE Kind(x) = 3
  <2>1. /\ <<Naddr - 1, m(x) \div (PER * PER), (m(x) \div PER) % PER, m(x) % PER>>
            = <<Naddr - 1, m(y) \div (PER * PER), (m(y) \div PER) % PER, m(y) % PER>>
        /\ m(x) \in Nat /\ m(y) \in Nat
    <3> HIDE DEF Kind, m
    <3> QED BY <1>1, <1>3, <1>6
  <2>2. /\ m(x) \div (PER * PER) = (m(x) \div PER) \div PER
        /\ m(y) \div (PER * PER) = (m(y) \div PER) \div PER
    <3> HIDE DEF m
    <3> QED BY <2>1, TwoDigits
  <2>3. m(x) \div PER \in Nat /\ m(y) \div PER \in Nat
    <3> HIDE DEF m
    <3> QED BY <2>1, Divided
  <2>4. m(x) = m(y)
    <3> HIDE DEF m
    <3>1. m(x) \div PER = m(y) \div PER
      BY <2>1, <2>2, <2>3, SameNumber
    <3> QED BY <3>1, <2>1, SameNumber
  <2> QED BY <2>4, <1>0
<1> QED BY <1>2, <1>4, <1>5, <1>6

LEMMA PathsDiffer ==
  Sized => \A x, y \in Nat : Reachable(x) /\ Reachable(y) /\ Path(x) = Path(y) => x = y
<1> SUFFICES ASSUME Sized, NEW x \in Nat, NEW y \in Nat, Reachable(x), Reachable(y),
                    Path(x) = Path(y)
             PROVE  x = y
  OBVIOUS
<1>0. PER \in Nat \ {0} /\ Naddr \in Nat /\ (~V6 => Naddr > 3)
  BY SizesFacts
<1>1. CASE V6 /\ ilarg
  <2>1. LargePath(x) = LargePath(y)
    BY <1>1 DEF Path
  <2> QED BY <2>1, <1>1, LargePathsDiffer DEF Reachable
<1>2. CASE V6 /\ ~ilarg
  <2>1. <<x>> = <<y>>
    BY <1>2 DEF Path
  <2> QED BY <2>1
<1>3. CASE ~V6
  <2> DEFINE Deep(n) == n >= Naddr - 3
  <2>1. ASSUME NEW n \in Nat
        PROVE  IF Deep(n) THEN Path(n) = IndirectPath(n - (Naddr - 3)) /\ n - (Naddr - 3) \in Nat
               ELSE Path(n) = <<n>>
    BY <1>0, <1>3 DEF Path
  <2>2. ASSUME NEW n \in Nat PROVE Len(IndirectPath(n)) \in 2 .. 4
    BY DEF IndirectPath
  <2>3. \A n : Len(<<n>>) = 1
    OBVIOUS
  <2>4. CASE Deep(x) /\ Deep(y)
    <3>1. x - (Naddr - 3) = y - (Naddr - 3)
      BY <1>0, <2>1, <2>4, IndirectPathsDiffer
    <3> QED BY <3>1, <1>0
  <2>5. CASE ~Deep(x) /\ ~Deep(y)
    <3>1. <<x>> = <<y>>
      BY <2>1, <2>5
    <3> QED BY <3>1
  <2>6. CASE Deep(x) /\ ~Deep(y)
    BY <2>1, <2>2, <2>3, <2>6
  <2>7. CASE ~Deep(x) /\ Deep(y)
    BY <2>1, <2>2, <2>3, <2>7
  <2> QED BY <2>4, <2>5, <2>6, <2>7
<1> QED BY <1>1, <1>2, <1>3

-----------------------------------------------------------------------------
(* What itrunc of 2.11BSD cuts off.                                        *)

LEMMA LastiblockIs ==
  ASSUME NEW last
  PROVE  /\ Lastiblock(last, 0) = last - (Naddr - 3) - 0
         /\ Lastiblock(last, 1) = last - (Naddr - 3) - PER
         /\ Lastiblock(last, 2) = last - (Naddr - 3) - (PER + PER * PER)
BY DEF Lastiblock

LEMMA EdgeIs ==
  ASSUME NEW n
  PROVE  /\ Edge(n, 0) = <<n>>
         /\ Edge(n, 1) = <<n \div PER, n % PER>>
         /\ Edge(n, 2) = <<n \div (PER * PER), (n % (PER * PER)) \div PER, (n % (PER * PER)) % PER>>
BY DEF Edge

LEMMA ReachedIs ==
  ASSUME Sized, ~V6, NEW last \in Int
  PROVE  /\ Reached(Naddr - 1, last)
         /\ Reached(Naddr - 2, last) <=> Lastiblock(last, 2) < 0
         /\ Reached(Naddr - 3, last) <=> Lastiblock(last, 1) < 0
<1>0. Naddr \in Nat /\ Naddr > 3 /\ PER \in Nat
  BY SizesFacts
<1>1. /\ Lastiblock(last, 1) \in Int /\ Lastiblock(last, 2) \in Int
      /\ Lastiblock(last, 1) < 0 => Lastiblock(last, 2) < 0
  <2>1. PER * PER \in Nat
    BY <1>0
  <2> QED BY <1>0, <2>1, LastiblockIs
<1>2. Reached(Naddr - 1, last)
  BY <1>0 DEF Reached
<1>3. Reached(Naddr - 2, last) <=> Lastiblock(last, 2) < 0
  <2>1. (Naddr - 2) + 1 .. Naddr - 1 = {Naddr - 1} /\ (Naddr - 1) - (Naddr - 3) = 2 /\ Naddr - 1 >= Naddr - 3
    BY <1>0
  <2> QED BY <2>1 DEF Reached
<1>4. Reached(Naddr - 3, last) <=> Lastiblock(last, 1) < 0
  <2>1. /\ (Naddr - 3) + 1 .. Naddr - 1 = {Naddr - 2, Naddr - 1}
        /\ (Naddr - 1) - (Naddr - 3) = 2 /\ (Naddr - 2) - (Naddr - 3) = 1
        /\ Naddr - 1 >= Naddr - 3 /\ Naddr - 2 >= Naddr - 3
    BY <1>0
  <2>2. Reached(Naddr - 3, last) <=> Lastiblock(last, 1) < 0 /\ Lastiblock(last, 2) < 0
    BY <2>1 DEF Reached
  <2> QED BY <2>2, <1>1
<1> QED BY <1>2, <1>3, <1>4

LEMMA AfterOne ==
  ASSUME NEW a, NEW e
  PROVE  ~After(<<a>>, e)
<1>1. 2 .. 1 = {} /\ Len(<<a>>) = 1
  OBVIOUS
<1> QED BY <1>1 DEF After

LEMMA AfterTwo ==
  ASSUME NEW a, NEW b \in Int, NEW e
  PROVE  After(<<a, b>>, e) <=> b > e[1]
<1>1. 2 .. 1 = {} /\ 2 .. 2 = {2} /\ Len(<<a, b>>) = 2 /\ 2 - 1 = 1
  OBVIOUS
<1> QED BY <1>1 DEF After

LEMMA AfterThree ==
  ASSUME NEW a, NEW b \in Int, NEW c \in Int, NEW e
  PROVE  After(<<a, b, c>>, e) <=> b > e[1] \/ (b = e[1] /\ c > e[2])
<1> DEFINE p == <<a, b, c>>
           Parts(k) == p[k] > e[k - 1] /\ \A m \in 2 .. k - 1 : p[m] = e[m - 1]
<1>1. 2 .. Len(p) = {2, 3} /\ p[2] = b /\ p[3] = c
  OBVIOUS
<1>2. Parts(2) <=> b > e[1]
  <2>1. 2 .. 2 - 1 = {} /\ 2 - 1 = 1
    OBVIOUS
  <2> QED BY <1>1, <2>1
<1>3. Parts(3) <=> b = e[1] /\ c > e[2]
  <2>1. 2 .. 3 - 1 = {2} /\ 2 - 1 = 1 /\ 3 - 1 = 2
    OBVIOUS
  <2> QED BY <1>1, <2>1
<1>4. After(p, e) <=> \E k \in 2 .. Len(p) : Parts(k)
  BY DEF After
<1> HIDE DEF p, Parts
<1>5. After(p, e) <=> Parts(2) \/ Parts(3)
  BY <1>1, <1>4
<1>6. After(p, e) <=> b > e[1] \/ (b = e[1] /\ c > e[2])
  BY <1>2, <1>3, <1>5
<1> QED BY <1>6 DEF p

LEMMA AfterFour ==
  ASSUME NEW a, NEW b \in Int, NEW c \in Int, NEW d \in Int, NEW e
  PROVE  After(<<a, b, c, d>>, e) <=> \/ b > e[1]
                                      \/ b = e[1] /\ c > e[2]
                                      \/ b = e[1] /\ c = e[2] /\ d > e[3]
<1> DEFINE p == <<a, b, c, d>>
           Parts(k) == p[k] > e[k - 1] /\ \A m \in 2 .. k - 1 : p[m] = e[m - 1]
<1>1. 2 .. Len(p) = {2, 3, 4} /\ p[2] = b /\ p[3] = c /\ p[4] = d
  OBVIOUS
<1>2. Parts(2) <=> b > e[1]
  <2>1. 2 .. 2 - 1 = {} /\ 2 - 1 = 1
    OBVIOUS
  <2> QED BY <1>1, <2>1
<1>3. Parts(3) <=> b = e[1] /\ c > e[2]
  <2>1. 2 .. 3 - 1 = {2} /\ 2 - 1 = 1 /\ 3 - 1 = 2
    OBVIOUS
  <2> QED BY <1>1, <2>1
<1>4. Parts(4) <=> b = e[1] /\ c = e[2] /\ d > e[3]
  <2>1. 2 .. 4 - 1 = {2, 3} /\ 2 - 1 = 1 /\ 3 - 1 = 2 /\ 4 - 1 = 3
    OBVIOUS
  <2> QED BY <1>1, <2>1
<1>5. After(p, e) <=> \E k \in 2 .. Len(p) : Parts(k)
  BY DEF After
<1> HIDE DEF p, Parts
<1>6. After(p, e) <=> Parts(2) \/ Parts(3) \/ Parts(4)
  BY <1>1, <1>5
<1>7. After(p, e) <=> \/ b > e[1]
                      \/ b = e[1] /\ c > e[2]
                      \/ b = e[1] /\ c = e[2] /\ d > e[3]
  BY <1>2, <1>3, <1>4, <1>6
<1> QED BY <1>7 DEF p

LEMMA CutAddresses ==
  ASSUME Sized, ~V6, NEW last \in Int, NEW i \in 0 .. Naddr - 1
  PROVE  CutOff(<<i>>, last) <=>
           IF i < Naddr - 3 THEN i > last ELSE Lastiblock(last, i - (Naddr - 3)) < 0
<1>0. Naddr \in Nat /\ Naddr > 3 /\ PER \in Nat /\ PER * PER \in Nat
  BY SizesFacts
<1>1. CASE i < Naddr - 3
  <2>1. <<i>>[1] = i /\ i - (Naddr - 3) < 0
    BY <1>0, <1>1
  <2> QED BY <2>1, <1>1 DEF CutOff
<1>2. CASE ~(i < Naddr - 3)
  <2> DEFINE level == i - (Naddr - 3)
             n == Lastiblock(last, level)
  <2>1. <<i>>[1] = i /\ ~(level < 0)
    BY <1>0, <1>2
  <2>2. ~After(<<i>>, Edge(n, level))
    BY AfterOne
  <2>3. CutOff(<<i>>, last) <=> Reached(i, last) /\ n < 0
    <3> HIDE DEF level
    <3>1. level = <<i>>[1] - (Naddr - 3)
      BY <2>1 DEF level
    <3> QED BY <2>1, <2>2, <3>1 DEF CutOff
  <2>4. n < 0 => Reached(i, last)
    <3>1. i = Naddr - 3 \/ i = Naddr - 2 \/ i = Naddr - 1
      BY <1>0, <1>2
    <3>2. /\ Lastiblock(last, 0) < 0 => Lastiblock(last, 1) < 0
          /\ Lastiblock(last, 1) < 0 => Lastiblock(last, 2) < 0
      BY <1>0, LastiblockIs
    <3>3. CASE i = Naddr - 3
      <4>1. level = 0
        BY <3>3, <1>0
      <4> HIDE DEF level
      <4> QED BY <4>1, <3>2, <3>3, ReachedIs
    <3>4. CASE i = Naddr - 2
      <4>1. level = 1
        BY <3>4, <1>0
      <4> HIDE DEF level
      <4> QED BY <4>1, <3>2, <3>4, ReachedIs
    <3>5. CASE i = Naddr - 1
      BY <3>5, ReachedIs
    <3> QED BY <3>1, <3>3, <3>4, <3>5
  <2> QED BY <2>3, <2>4, <1>2
<1> QED BY <1>1, <1>2

(* What lies under a place that is cut off is cut off too. *)
LEMMA CutClosed ==
  ASSUME NEW last, NEW p \in Seq(Nat), Len(p) > 1, CutOff(Parent(p), last)
  PROVE  CutOff(p, last)
<1>1. /\ Len(Parent(p)) = Len(p) - 1 /\ Len(p) \in Nat
      /\ \A k \in 1 .. Len(p) - 1 : Parent(p)[k] = p[k]
  BY ParentIs, LenProperties
<1>2. Parent(p)[1] = p[1]
  BY <1>1
<1>3. ASSUME NEW e, After(Parent(p), e) PROVE After(p, e)
  <2>1. PICK k \in 2 .. Len(p) - 1 :
             /\ Parent(p)[k] > e[k - 1]
             /\ \A m \in 2 .. k - 1 : Parent(p)[m] = e[m - 1]
    BY <1>1, <1>3 DEF After
  <2>2. p[k] > e[k - 1] /\ k \in 2 .. Len(p)
    BY <2>1, <1>1
  <2>3. ASSUME NEW m \in 2 .. k - 1 PROVE p[m] = e[m - 1]
    <3>1. m \in 1 .. Len(p) - 1 /\ Parent(p)[m] = e[m - 1]
      BY <2>1, <1>1
    <3> QED BY <3>1, <1>1
  <2> QED BY <2>2, <2>3 DEF After
<1> QED BY <1>2, <1>3 DEF CutOff

(* Of the blocks of the file, those after the last are cut off. *)
LEMMA CutNumbers ==
  ASSUME Sized, ~V6, NEW bn \in Nat, ~TooBig(bn), NEW last \in Int, last >= -1
  PROVE  CutOff(Path(bn), last) <=> bn > last
<1>0. /\ Naddr \in Nat /\ Naddr > 3 /\ PER \in Nat \ {0} /\ PER * PER \in Nat \ {0}
  BY SizesFacts
<1>1. CASE bn < Naddr - 3
  <2>1. Path(bn) = <<bn>> /\ bn \in 0 .. Naddr - 1
    BY <1>0, <1>1 DEF Path
  <2> QED BY <2>1, <1>1, CutAddresses
<1>2. CASE bn >= Naddr - 3
  <2> DEFINE n == bn - (Naddr - 3)
             m == n - PER - PER * PER
             L0 == Lastiblock(last, 0)
             L1 == Lastiblock(last, 1)
             L2 == Lastiblock(last, 2)
             SQ == PER * PER
  <2>1. Path(bn) = IndirectPath(n)
    BY <1>2 DEF Path
  <2>2. /\ n \in Nat
        /\ n >= PER => n - PER \in Nat
        /\ n >= PER /\ n - PER < PER * PER =>
              (n - PER) \div PER \in 0 .. PER - 1 /\ (n - PER) % PER \in 0 .. PER - 1
        /\ n >= PER /\ n - PER >= PER * PER =>
              /\ m \in Nat
              /\ m \div (PER * PER) \in 0 .. PER - 1 /\ (m \div PER) % PER \in 0 .. PER - 1
              /\ m % PER \in 0 .. PER - 1
    BY <1>2, IndirectPathIs
  <2>3. /\ L0 = last - (Naddr - 3) /\ L1 = L0 - PER /\ L2 = L1 - SQ
        /\ L0 \in Int /\ L1 \in Int /\ L2 \in Int /\ SQ \in Nat
    BY <1>0, LastiblockIs
  <2>4. bn > last <=> n > L0
    BY <1>0, <2>3
  <2>5. /\ (Naddr - 3) - (Naddr - 3) = 0 /\ (Naddr - 2) - (Naddr - 3) = 1
        /\ (Naddr - 1) - (Naddr - 3) = 2
    BY <1>0
  <2> HIDE DEF n
  <2>6. CASE n < PER
    <3>1. IndirectPath(n) = <<Naddr - 3, n>>
      BY <1>0, <2>2, <2>6 DEF IndirectPath
    <3>2. <<Naddr - 3, n>>[1] = Naddr - 3
      OBVIOUS
    <3>3. CutOff(<<Naddr - 3, n>>, last) <=> L1 < 0 /\ (L0 < 0 \/ After(<<Naddr - 3, n>>, Edge(L0, 0)))
      <4> HIDE DEF L0, L1
      <4> QED BY <3>2, <2>5, ReachedIs DEF CutOff, L0, L1
    <3>4. After(<<Naddr - 3, n>>, Edge(L0, 0)) <=> n > L0
      <4> HIDE DEF L0
      <4>1. Edge(L0, 0)[1] = L0
        BY EdgeIs
      <4>2. Edge(L0, 0) = <<L0>> /\ n \in Int
        BY EdgeIs, <2>2
      <4> QED BY <4>1, <4>2, AfterTwo
    <3> HIDE DEF L0, L1, L2, SQ
    <3> QED BY <1>0, <2>1, <2>2, <2>3, <2>4, <2>6, <3>1, <3>3, <3>4
  <2>7. CASE n >= PER /\ n - PER < PER * PER
    <3> DEFINE k == n - PER
               p == <<Naddr - 2, k \div PER, k % PER>>
    <3>1. IndirectPath(n) = p /\ p[1] = Naddr - 2
      BY <1>0, <2>2, <2>7 DEF IndirectPath
    <3>2. k \in Nat /\ k < SQ /\ k \div PER \in 0 .. PER - 1 /\ k % PER \in 0 .. PER - 1
      BY <2>2, <2>7
    <3>3. CutOff(p, last) <=> L2 < 0 /\ (L1 < 0 \/ After(p, Edge(L1, 1)))
      <4> HIDE DEF L1, L2, p, k
      <4> QED BY <3>1, <2>5, ReachedIs DEF CutOff, L1, L2
    <3>4. ASSUME L1 >= 0 PROVE After(p, Edge(L1, 1)) <=> k > L1
      <4> HIDE DEF L1, k
      <4>1. Edge(L1, 1)[1] = L1 \div PER /\ Edge(L1, 1)[2] = L1 % PER
        BY EdgeIs
      <4>2. L1 \in Nat
        BY <2>3, <3>4
      <4>3. k \div PER \in Int /\ k % PER \in Int
        BY <3>2, <1>0
      <4>4. After(p, Edge(L1, 1)) <=> \/ k \div PER > L1 \div PER
                                      \/ k \div PER = L1 \div PER /\ k % PER > L1 % PER
        BY <4>1, <4>3, AfterThree
      <4> QED BY <4>4, <4>2, <3>2, <1>0, QuotientOrder
    <3>5. k > L1 <=> n > L0
      BY <2>2, <2>3, <1>0
    <3> HIDE DEF L0, L1, L2, SQ, k, p
    <3> QED BY <1>0, <2>1, <2>3, <2>4, <3>1, <3>2, <3>3, <3>4, <3>5
  <2>8. CASE n >= PER /\ n - PER >= PER * PER
    <3> DEFINE p == <<Naddr - 1, m \div (PER * PER), (m \div PER) % PER, m % PER>>
    <3>1. IndirectPath(n) = p /\ p[1] = Naddr - 1
      BY <1>0, <2>2, <2>8 DEF IndirectPath
    <3>2. /\ m \in Nat /\ m \div (PER * PER) \in Int /\ (m \div PER) % PER \in Int
          /\ m % PER \in Int
      BY <2>2, <2>8, <1>0
    <3>3. CutOff(p, last) <=> L2 < 0 \/ After(p, Edge(L2, 2))
      <4> HIDE DEF L2, p, m
      <4> QED BY <3>1, <2>5, ReachedIs DEF CutOff, L2
    <3>4. ASSUME L2 >= 0 PROVE After(p, Edge(L2, 2)) <=> m > L2
      <4> HIDE DEF L2, m
      <4> DEFINE R == L2 % (PER * PER)
                 S == m % (PER * PER)
      <4>1. /\ Edge(L2, 2)[1] = L2 \div (PER * PER)
            /\ Edge(L2, 2)[2] = R \div PER /\ Edge(L2, 2)[3] = R % PER
        BY EdgeIs
      <4>2. L2 \in Nat
        BY <2>3, <3>4
      <4>3. R \in Nat /\ S \in Nat
        BY <4>2, <3>2, <1>0, Divided
      <4>4. (m \div PER) % PER = S \div PER /\ m % PER = S % PER
        BY <3>2, <1>0, TwoDigits
      <4>5. After(p, Edge(L2, 2)) <=>
              \/ m \div (PER * PER) > L2 \div (PER * PER)
              \/ m \div (PER * PER) = L2 \div (PER * PER) /\ S \div PER > R \div PER
              \/ /\ m \div (PER * PER) = L2 \div (PER * PER) /\ S \div PER = R \div PER
                 /\ S % PER > R % PER
        <5> HIDE DEF R, S
        <5> QED BY <4>1, <4>4, <3>2, AfterFour
      <4>6. S > R <=> S \div PER > R \div PER \/ (S \div PER = R \div PER /\ S % PER > R % PER)
        <5> HIDE DEF R, S
        <5> QED BY <4>3, <1>0, QuotientOrder
      <4>7. m > L2 <=> \/ m \div (PER * PER) > L2 \div (PER * PER)
                       \/ m \div (PER * PER) = L2 \div (PER * PER) /\ S > R
        BY <4>2, <3>2, <1>0, QuotientOrder
      <4> HIDE DEF R, S
      <4> QED BY <4>5, <4>6, <4>7
    <3>5. m > L2 <=> n > L0
      BY <2>2, <2>3, <1>0
    <3> HIDE DEF L0, L1, L2, SQ, m, p
    <3> QED BY <2>1, <2>3, <2>4, <3>1, <3>2, <3>3, <3>4, <3>5
  <2> QED BY <1>0, <2>2, <2>6, <2>7, <2>8
<1> QED BY <1>0, <1>1, <1>2

-----------------------------------------------------------------------------
(* The inductive invariant.                                                *)

(* What each block holds, if the buffer a call has cleared were written    *)
Now == IF call.fresh THEN [content EXCEPT ![call.bp] = call.buf] ELSE content

Holds(p) == Leads(i_addr, Now, p)

Owned == Blocks \ avail

Typed ==
  /\ Sized /\ (ilarg => V6)
  /\ i_addr \in [0 .. Naddr - 1 -> Blocks \union {0}]
  /\ content \in [Blocks \union Others -> Entries]
  /\ avail \subseteq Blocks
  /\ seen \in [Asked -> Blocks \union {0}]
  /\ forgot \in BOOLEAN

(* Each block of the file stands in its map once. *)
InTree == IsTree(Paths, i_addr, Now, Owned)

(* A call has come down the path of its block number, with the buffer of   *)
(* the indirect block it is in.                                            *)
InProgress == [bn : Nat, write : BOOLEAN, level : 1 .. 4, bp : Blocks \union {0},
               buf : Entries, fresh : BOOLEAN]

Way == Path(call.bn)

OnItsWay ==
  call # Idle =>
    /\ call \in InProgress
    /\ ~TooBig(call.bn) /\ (V6 => call.write)
    /\ call.fresh => V6 /\ call.level > 1 /\ call.buf = NoEntries
    /\ Outgrown => call.level = 1
    /\ ~Outgrown => call.level <= Len(Way)
    /\ call.level > 1 => /\ call.bp # 0 /\ call.bp = Holds(SubSeq(Way, 1, call.level - 1))
                         /\ call.buf = Now[call.bp]

(* bmap would answer what it answered last. *)
Answers ==
  \A l \in Asked : seen[l] = IF Reachable(Bn(l)) THEN Holds(Path(Bn(l))) ELSE 0

Good == Typed /\ InTree /\ OnItsWay /\ Answers

MapInv == forgot \/ Good

LEMMA PathsUnfold ==
  \A p : p \in Paths <=> \E i \in 0 .. Naddr - 1 : \E k \in 0 .. Levels(i) :
                           \E t \in [1 .. k -> 0 .. PER - 1] : p = <<i>> \o t
<1> TAKE p
<1>1. ASSUME p \in Paths
      PROVE  \E i \in 0 .. Naddr - 1 : \E k \in 0 .. Levels(i) :
               \E t \in [1 .. k -> 0 .. PER - 1] : p = <<i>> \o t
  <2>1. PICK i \in 0 .. Naddr - 1 :
             p \in {<<i>> \o t : t \in UNION {[1 .. k -> 0 .. PER - 1] : k \in 0 .. Levels(i)}}
    BY <1>1 DEF Paths
  <2> QED BY <2>1
<1>2. ASSUME NEW i \in 0 .. Naddr - 1, NEW k \in 0 .. Levels(i),
             NEW t \in [1 .. k -> 0 .. PER - 1], p = <<i>> \o t
      PROVE  p \in Paths
  <2>1. t \in UNION {[1 .. n -> 0 .. PER - 1] : n \in 0 .. Levels(i)}
    OBVIOUS
  <2>2. p \in {<<i>> \o s : s \in UNION {[1 .. n -> 0 .. PER - 1] : n \in 0 .. Levels(i)}}
    BY <2>1, <1>2
  <2> DEFINE Of(a) == {<<a>> \o s : s \in UNION {[1 .. n -> 0 .. PER - 1] : n \in 0 .. Levels(a)}}
  <2>3. p \in Of(i) /\ i \in 0 .. Naddr - 1
    BY <2>2, <1>2
  <2>4. Paths = UNION {Of(a) : a \in 0 .. Naddr - 1}
    BY DEF Paths
  <2> HIDE DEF Of
  <2> QED BY <2>3, <2>4
<1> QED BY <1>1, <1>2

LEMMA SameKernel ==
  ASSUME UNCHANGED <<kernel, ilarg>>
  PROVE  /\ Paths' = Paths /\ Naddr' = Naddr /\ (V6' <=> V6) /\ (Sized' <=> Sized)
         /\ \A l : Bn(l)' = Bn(l)
         /\ \A bn : /\ (TooBig(bn)' <=> TooBig(bn)) /\ (Reachable(bn)' <=> Reachable(bn))
                    /\ Path(bn)' = Path(bn)
         /\ (TooBig(call.bn)' <=> TooBig(call'.bn))
         /\ Way' = Path(call'.bn)
<1>1. Naddr' = Naddr /\ (V6' <=> V6) /\ (Sized' <=> Sized)
  BY DEF Naddr, V6, Sized
<1>2. \A i : Levels(i)' = Levels(i)
  BY <1>1 DEF Levels
<1>3. Paths' = Paths
  <2>1. (\A p : p \in Paths <=> \E i \in 0 .. Naddr - 1 : \E k \in 0 .. Levels(i) :
                                  \E t \in [1 .. k -> 0 .. PER - 1] : p = <<i>> \o t)'
    BY PathsUnfold, PTL
  <2>2. \A p : p \in Paths' <=> p \in Paths
    BY <1>1, <1>2, <2>1, PathsUnfold
  <2> QED BY <2>2
<1>4. \A l : Bn(l)' = Bn(l)
  BY <1>1 DEF Bn
<1>5. \A bn : (TooBig(bn)' <=> TooBig(bn))
  BY <1>1 DEF TooBig
<1>6. \A bn : (Reachable(bn)' <=> Reachable(bn))
  BY <1>1, <1>5 DEF Reachable
<1>7. \A bn : LargePath(bn)' = LargePath(bn) /\ IndirectPath(bn)' = IndirectPath(bn)
  BY <1>1 DEF LargePath, IndirectPath
<1>8. \A bn : Path(bn)' = Path(bn)
  BY <1>1, <1>7 DEF Path
<1>9. (TooBig(call.bn)' <=> TooBig(call'.bn))
  BY <1>1 DEF Bn, TooBig
<1>10. Way' = Path(call'.bn)
  <2>1. /\ LargePath(call.bn)' = LargePath(call'.bn)
        /\ IndirectPath(call.bn - (Naddr - 3))' = IndirectPath(call'.bn - (Naddr - 3))
    BY <1>1 DEF LargePath, IndirectPath
  <2> QED BY <2>1, <1>1 DEF Way, Path
<1> QED BY <1>1, <1>3, <1>4, <1>5, <1>6, <1>8, <1>9, <1>10

LEMMA SameMap ==
  ASSUME Good, UNCHANGED <<kernel, i_addr, ilarg, avail, seen>>, Now' = Now
  PROVE  InTree' /\ Answers' /\ \A p : Holds(p)' = Holds(p)
<1>1. \A p : Holds(p)' = Holds(p)
  BY DEF Holds
<1>2. InTree'
  BY SameKernel DEF Good, InTree, Owned
<1>3. Answers'
  BY <1>1, SameKernel DEF Good, Answers
<1> QED BY <1>1, <1>2, <1>3

LEMMA BnFacts ==
  ASSUME Sized, NEW l \in Asked
  PROVE  Bn(l) \in Nat /\ (~V6 => Bn(l) = l)
<1>1. l \in Nat /\ BnRange \in Nat \ {0}
  BY FileMapAssumption DEF Asked
<1>2. l % BnRange \in Nat
  BY <1>1
<1> QED BY <1>1, <1>2 DEF Bn

LEMMA Prefix ==
  ASSUME Sized, NEW p \in Paths, NEW k \in 1 .. Len(p)
  PROVE  /\ SubSeq(p, 1, k) \in Paths /\ Len(SubSeq(p, 1, k)) = k
         /\ \A m \in 1 .. k : SubSeq(p, 1, k)[m] = p[m]
         /\ k > 1 => Parent(SubSeq(p, 1, k)) = SubSeq(p, 1, k - 1)
         /\ SubSeq(p, 1, Len(p)) = p
<1>1. IsPath(p) /\ p \in Seq(Nat) /\ Len(p) \in Nat
  BY PathsAre, LenProperties DEF IsPath
<1>2. \A n \in 1 .. Len(p) : /\ SubSeq(p, 1, n) \in Seq(Nat) /\ Len(SubSeq(p, 1, n)) = n
                             /\ \A m \in 1 .. n : SubSeq(p, 1, n)[m] = p[m]
  <2> SUFFICES ASSUME NEW n \in 1 .. Len(p)
               PROVE  /\ SubSeq(p, 1, n) \in Seq(Nat) /\ Len(SubSeq(p, 1, n)) = n
                      /\ \A m \in 1 .. n : SubSeq(p, 1, n)[m] = p[m]
    OBVIOUS
  <2>1. \A m \in 1 .. n : p[m] \in Nat
    BY <1>1, ElementOfSeq
  <2>2. /\ SubSeq(p, 1, n) \in Seq(Nat)
        /\ Len(SubSeq(p, 1, n)) = IF 1 <= n THEN n - 1 + 1 ELSE 0
        /\ \A m \in 1 .. n - 1 + 1 : SubSeq(p, 1, n)[m] = p[1 + m - 1]
    BY <2>1, <1>1, SubSeqProperties
  <2> QED BY <2>2, <1>1
<1>3. SubSeq(p, 1, k) \in Paths
  <2>1. IsPath(SubSeq(p, 1, k))
    <3>1. /\ SubSeq(p, 1, k) \in Seq(Nat) /\ Len(SubSeq(p, 1, k)) = k
          /\ \A m \in 1 .. k : SubSeq(p, 1, k)[m] = p[m]
      BY <1>2
    <3>2. /\ p[1] \in 0 .. Naddr - 1 /\ Len(p) <= 1 + Levels(p[1])
          /\ \A m \in 2 .. Len(p) : p[m] \in 0 .. PER - 1
      BY <1>1 DEF IsPath
    <3>3. Levels(p[1]) \in Nat
      <4>1. PICK j \in 0 .. Naddr - 1 : j = p[1]
        BY <3>2
      <4>2. Levels(j) \in Nat
        BY SizesFacts
      <4> QED BY <4>1, <4>2
    <3>4. k <= 1 + Levels(p[1])
      BY <3>2, <3>3, <1>1
    <3>5. \A m \in 2 .. k : m \in 2 .. Len(p) /\ m \in 1 .. k
      BY <1>1
    <3>6. PICK s : s = SubSeq(p, 1, k)
      OBVIOUS
    <3>7. s \in Seq(Nat) /\ Len(s) = k /\ s[1] = p[1]
      BY <3>1, <3>6
    <3>8. \A m \in 2 .. k : s[m] \in 0 .. PER - 1
      BY <3>1, <3>2, <3>5, <3>6
    <3>9. IsPath(s)
      BY <3>2, <3>4, <3>7, <3>8 DEF IsPath
    <3> QED BY <3>6, <3>9
  <2> QED BY <2>1, PathsAre
<1>4. ASSUME k > 1 PROVE Parent(SubSeq(p, 1, k)) = SubSeq(p, 1, k - 1)
  <2> DEFINE s == SubSeq(p, 1, k)
             t == SubSeq(p, 1, k - 1)
  <2>1. k - 1 \in 1 .. Len(p) /\ k \in Nat
    BY <1>1, <1>4
  <2>2. /\ s \in Seq(Nat) /\ Len(s) = k /\ \A m \in 1 .. k : s[m] = p[m]
        /\ t \in Seq(Nat) /\ Len(t) = k - 1 /\ \A m \in 1 .. k - 1 : t[m] = p[m]
    BY <1>2, <2>1
  <2> HIDE DEF s, t
  <2>3. /\ Parent(s) \in Seq(Nat) /\ Len(Parent(s)) = k - 1
        /\ \A m \in 1 .. k - 1 : Parent(s)[m] = s[m]
    BY <1>4, <2>2, ParentIs
  <2>4. ASSUME NEW m \in 1 .. k - 1 PROVE Parent(s)[m] = t[m]
    <3>1. m \in 1 .. k
      BY <2>1
    <3> QED BY <3>1, <2>2, <2>3
  <2>5. Parent(s) = t
    BY <2>2, <2>3, <2>4, SeqEqual
  <2> QED BY <2>5 DEF s, t
<1>5. SubSeq(p, 1, Len(p)) = p
  BY <1>1, SubSeqFull
<1> QED BY <1>2, <1>3, <1>4, <1>5

-----------------------------------------------------------------------------
(* bmap.                                                                   *)

LEMMA NowIs ==
  ASSUME ~call.fresh
  PROVE  Now = content
BY DEF Now

LEMMA IdleNow ==
  ASSUME call' = Idle
  PROVE  Now' = content' /\ OnItsWay'
BY DEF Now, Idle, OnItsWay

(* What a call that has found its way so far has come to. *)
LEMMA HereIs ==
  ASSUME Good, Here
  PROVE  LET q == SubSeq(Way, 1, call.level) IN
         /\ call # Idle /\ call \in InProgress /\ Reachable(call.bn) /\ call.level \in 1 .. Len(Way)
         /\ Way \in Paths /\ Len(Way) = 1 + Levels(Way[1]) /\ Len(Way) \in 1 .. 4
         /\ q \in Paths /\ Len(q) = call.level /\ q[call.level] = Way[call.level] /\ q[1] = Way[1]
         /\ call.level > 1 => Parent(q) = SubSeq(Way, 1, call.level - 1)
         /\ Last => q = Way
         /\ Holds(q) = Nb /\ Nb \in Owned \union {0}
<1> DEFINE q == SubSeq(Way, 1, call.level)
<1>0. Sized /\ InTree /\ ~Outgrown /\ call # Idle
  BY DEF Good, Typed, Here, Idle
<1>1. /\ call \in InProgress /\ ~TooBig(call.bn) /\ call.level <= Len(Way)
      /\ call.level > 1 => /\ call.bp # 0 /\ call.bp = Holds(SubSeq(Way, 1, call.level - 1))
                           /\ call.buf = Now[call.bp]
  BY <1>0 DEF Good, OnItsWay
<1>2. call.bn \in Nat /\ call.level \in 1 .. 4 /\ Reachable(call.bn)
  BY <1>0, <1>1 DEF InProgress, Reachable, Outgrown
<1>3. Way \in Paths /\ Len(Way) = 1 + Levels(Way[1])
  BY <1>0, <1>2, PathOfBlock DEF Way
<1>4. Way \in Seq(Nat) /\ Len(Way) \in 1 .. 4
  BY <1>0, <1>3, PathsRooted DEF Rooted
<1>5. call.level \in 1 .. Len(Way) /\ 1 \in 1 .. call.level /\ call.level \in 1 .. call.level
  BY <1>1, <1>2, <1>4
<1>6. /\ q \in Paths /\ Len(q) = call.level /\ \A m \in 1 .. call.level : q[m] = Way[m]
      /\ call.level > 1 => Parent(q) = SubSeq(Way, 1, call.level - 1)
      /\ SubSeq(Way, 1, Len(Way)) = Way
  BY <1>0, <1>3, <1>5, Prefix
<1> HIDE DEF q
<1>7. Holds(q) = Nb
  <2>1. CASE call.level = 1
    <3>1. Holds(q) = i_addr[q[1]]
      BY <1>6, <2>1, LeadsOne DEF Holds
    <3> QED BY <3>1, <1>6, <1>5, <2>1 DEF Nb, Way
  <2>2. CASE call.level # 1
    <3>1. call.level > 1 /\ call.level \in 2 .. 4 /\ q \in Seq(Nat)
      BY <1>0, <1>2, <1>6, <2>2, PathsRooted DEF Rooted
    <3>2. Holds(Parent(q)) = call.bp /\ call.bp # 0 /\ call.buf = Now[call.bp]
      BY <1>1, <1>6, <3>1
    <3>3. Holds(q) = IF Holds(Parent(q)) = 0 THEN 0 ELSE Now[Holds(Parent(q))][q[Len(q)]]
      BY <3>1, <1>6, LeadsOn DEF Holds
    <3>4. Holds(q) = call.buf[Way[call.level]]
      BY <3>2, <3>3, <1>5, <1>6
    <3> QED BY <3>4, <2>2 DEF Nb, Way
  <2> QED BY <2>1, <2>2
<1>8. Nb \in Owned \union {0}
  BY <1>0, <1>6, <1>7 DEF InTree, IsTree, Holds
<1>9. Last => q = Way
  BY <1>6 DEF Last, Way, q
<1> QED BY <1>0, <1>1, <1>2, <1>3, <1>4, <1>5, <1>6, <1>7, <1>8, <1>9 DEF q

LEMMA AskStep ==
  ASSUME Good, NEW l \in Asked, NEW write \in BOOLEAN, Ask(l, write)
  PROVE  Good'
<1>1. /\ call = Idle /\ ~TooBig(Bn(l)) /\ (V6 => write)
      /\ call' = [Idle EXCEPT !.bn = Bn(l), !.write = write, !.level = 1]
      /\ UNCHANGED <<kernel, i_addr, ilarg, content, avail, seen, forgot>>
  BY DEF Ask
<1>2. call' = [bn |-> Bn(l), write |-> write, level |-> 1, bp |-> 0,
               buf |-> NoEntries, fresh |-> FALSE]
  BY <1>1 DEF Idle
<1>3. Now' = Now
  BY <1>1, <1>2 DEF Now, Idle
<1>4. InTree' /\ Answers' /\ Typed'
  BY <1>1, <1>3, SameMap, SameKernel DEF Good, Typed
<1>5. Sized /\ Bn(l) \in Nat
  BY BnFacts DEF Good, Typed
<1>6. NoEntries \in Entries
  BY DEF NoEntries, Entries
<1>7. call' \in InProgress
  BY <1>2, <1>5, <1>6 DEF InProgress
<1>8. Outgrown' <=> V6 /\ ~ilarg /\ Bn(l) >= Naddr
  BY <1>1, <1>2, SameKernel DEF Outgrown
<1>9. ASSUME ~Outgrown' PROVE call'.level <= Len(Way')
  <2>1. Reachable(Bn(l))
    BY <1>1, <1>8, <1>9 DEF Reachable
  <2>2. Path(Bn(l)) \in Paths
    BY <2>1, <1>5, PathOfBlock
  <2>3. Len(Path(Bn(l))) >= 1
    BY <2>2, <1>5, PathsAre DEF IsPath
  <2>4. Way' = Path(Bn(l))
    BY <1>1, <1>2, SameKernel DEF Way
  <2> QED BY <2>3, <2>4, <1>2
<1>10. OnItsWay'
  <2>1. /\ ~TooBig(call.bn)' /\ (V6' => call'.write)
        /\ call'.level = 1 /\ ~call'.fresh
    <3>1. call'.bn = Bn(l) /\ call'.write = write /\ call'.level = 1 /\ call'.fresh = FALSE
      BY <1>2
    <3>2. /\ (TooBig(call.bn)' <=> TooBig(call'.bn)) /\ (V6' <=> V6)
      BY <1>1, SameKernel
    <3> QED BY <3>1, <3>2, <1>1
  <2> QED BY <2>1, <1>7, <1>9 DEF OnItsWay
<1> QED BY <1>4, <1>10 DEF Good

(* bmap answers what it found. *)
LEMMA FreshHasNone ==
  ASSUME Good, Here, Nb # 0
  PROVE  ~call.fresh
<1> SUFFICES ASSUME call.fresh PROVE FALSE
  OBVIOUS
<1>1. call # Idle /\ call.level \in 1 .. Len(Way) /\ Way \in Paths /\ Len(Way) \in 1 .. 4
  BY HereIs
<1>2. call.level > 1 /\ call.buf = NoEntries
  BY <1>1 DEF Good, OnItsWay
<1>3. Way[call.level] \in 0 .. PER - 1
  <2>1. IsPath(Way) /\ call.level \in 2 .. Len(Way)
    BY <1>1, <1>2, PathsAre DEF Good, Typed
  <2> QED BY <2>1 DEF IsPath
<1>4. Nb = NoEntries[Way[call.level]]
  BY <1>2 DEF Nb, Way
<1> QED BY <1>3, <1>4 DEF NoEntries

LEMMA FoundStep ==
  ASSUME Good, Found
  PROVE  Good'
<1>1. Here /\ Last /\ Nb # 0 /\ call' = Idle
      /\ seen' = [l \in Asked |-> IF Bn(l) = call.bn THEN Nb ELSE seen[l]]
  BY DEF Found, Answer
<1>2. UNCHANGED <<kernel, i_addr, ilarg, content, avail, forgot>>
  BY DEF Found
<1>3. Now' = Now /\ OnItsWay'
  BY <1>1, <1>2, FreshHasNone, NowIs, IdleNow
<1>4. \A l \in Asked : Bn(l) = call.bn => seen[l] = Nb
  <2>1. call # Idle /\ call \in InProgress /\ Reachable(call.bn) /\ Holds(Way) = Nb
    BY <1>1, HereIs
  <2> QED BY <2>1 DEF Good, Answers, Way
<1>5. seen' = seen
  BY <1>1, <1>4 DEF Good, Typed
<1>6. InTree' /\ Answers'
  BY <1>2, <1>3, <1>5, SameMap
<1>7. Typed'
  BY <1>2, <1>5, SameKernel DEF Good, Typed
<1> QED BY <1>3, <1>6, <1>7 DEF Good

LEMMA HoleStep ==
  ASSUME Good, Hole
  PROVE  Good'
<1>1. Here /\ ~call.write /\ call' = Idle /\ seen' = seen
  BY DEF Hole, Answer
<1>2. UNCHANGED <<kernel, i_addr, ilarg, content, avail, forgot>>
  BY DEF Hole
<1>3. ~call.fresh
  <2>1. call # Idle
    BY <1>1, HereIs
  <2> QED BY <2>1, <1>1 DEF Good, OnItsWay
<1>4. Now' = Now /\ OnItsWay'
  BY <1>1, <1>2, <1>3, NowIs, IdleNow
<1>5. InTree' /\ Answers' /\ Typed'
  BY <1>1, <1>2, <1>4, SameMap, SameKernel DEF Good, Typed
<1> QED BY <1>4, <1>5 DEF Good

LEMMA DownStep ==
  ASSUME Good, Down
  PROVE  Good'
<1>1. /\ Here /\ ~Last /\ Nb # 0
      /\ call' = [call EXCEPT !.level = @ + 1, !.bp = Nb, !.buf = content[Nb], !.fresh = FALSE]
      /\ UNCHANGED <<kernel, i_addr, ilarg, content, avail, seen, forgot>>
  BY DEF Down
<1> DEFINE q == SubSeq(Way, 1, call.level)
<1>2. /\ call # Idle /\ call \in InProgress /\ call.level \in 1 .. Len(Way) /\ Len(Way) \in 1 .. 4
      /\ Holds(q) = Nb /\ Nb \in Owned \union {0}
  BY <1>1, HereIs
<1>3. call' = [bn |-> call.bn, write |-> call.write, level |-> call.level + 1,
               bp |-> Nb, buf |-> content[Nb], fresh |-> FALSE]
  BY <1>1, <1>2 DEF InProgress
<1>4. Now = content /\ Now' = content
  BY <1>1, <1>3, FreshHasNone, NowIs DEF Now
<1>5. InTree' /\ Answers' /\ Typed' /\ \A p : Holds(p)' = Holds(p)
  BY <1>1, <1>4, SameMap, SameKernel DEF Good, Typed
<1>6. call.level + 1 \in 1 .. 4 /\ call.level + 1 <= Len(Way) /\ (call.level + 1) - 1 = call.level
  <2>1. call.level # Len(Way)
    BY <1>1 DEF Last, Way
  <2>2. \A n, m \in Nat : n \in 1 .. m /\ n # m /\ m \in 1 .. 4 =>
          n + 1 \in 1 .. 4 /\ n + 1 <= m /\ (n + 1) - 1 = n
    OBVIOUS
  <2>3. call.level \in Nat /\ Len(Way) \in Nat
    BY <1>2
  <2> QED BY <1>2, <2>1, <2>2, <2>3
<1>7. call' \in InProgress
  <2>1. Nb \in Blocks /\ content[Nb] \in Entries
    BY <1>1, <1>2 DEF Good, Typed, Owned
  <2> QED BY <2>1, <1>2, <1>3, <1>6 DEF InProgress
<1>8. Way' = Way /\ ~Outgrown'
  BY <1>1, <1>3, SameKernel DEF Way, Here, Outgrown
<1>9. OnItsWay'
  <2>1. /\ ~TooBig(call.bn)' /\ (V6' => call'.write)
    BY <1>1, <1>2, <1>3, SameKernel DEF Good, OnItsWay
  <2>2. /\ call'.bp # 0 /\ call'.bp = Holds(SubSeq(Way, 1, call.level - 1))'
        /\ call'.buf = Now'[call'.bp]
    <3>1. SubSeq(Way', 1, call'.level - 1) = q
      BY <1>3, <1>6, <1>8
    <3>2. Holds(SubSeq(Way, 1, call.level - 1))' = Nb
      BY <3>1, <1>2, <1>1, <1>4 DEF Holds
    <3> QED BY <3>2, <1>1, <1>3, <1>4
  <2>3. call'.level <= Len(Way') /\ ~call'.fresh
    BY <1>3, <1>6, <1>8
  <2> QED BY <2>1, <2>2, <2>3, <1>7, <1>8 DEF OnItsWay
<1> QED BY <1>5, <1>9 DEF Good

(* Enter puts the block at the place the call has come to. *)
LEMMA EnterStep ==
  ASSUME Good, NEW b \in avail, Enter(b)
  PROVE  Good'
<1> DEFINE q == SubSeq(Way, 1, call.level)
           j == Way[call.level]
           entered == IF call.level = 1 THEN content
                      ELSE [content EXCEPT ![call.bp] = [call.buf EXCEPT ![j] = b]]
<1>1. /\ Here /\ Nb = 0 /\ call.write
      /\ i_addr' = IF call.level = 1 THEN [i_addr EXCEPT ![j] = b] ELSE i_addr
      /\ \E e \in IF Last THEN Junk ELSE {IF V6 THEN content[b] ELSE NoEntries} :
            content' = [entered EXCEPT ![b] = e]
      /\ Last => Answer(b)
      /\ ~Last => /\ call' = [call EXCEPT !.level = @ + 1, !.bp = b, !.buf = NoEntries, !.fresh = V6]
                 /\ UNCHANGED seen
      /\ avail' = avail \ {b}
      /\ UNCHANGED <<kernel, ilarg, forgot>>
  BY DEF Enter, Way
<1>2. PICK e \in IF Last THEN Junk ELSE {IF V6 THEN content[b] ELSE NoEntries} :
           content' = [entered EXCEPT ![b] = e]
  BY <1>1
<1>3. /\ Typed /\ Sized /\ InTree /\ OnItsWay /\ Answers
      /\ Blocks \intersect Others = {} /\ 0 \notin Blocks /\ Junk \subseteq Entries
      /\ NoEntries \in Entries
  BY FileMapAssumption DEF Good, Typed, NoEntries, Entries
<1>4. b \in Blocks /\ b \notin Owned /\ b # 0 /\ 0 \notin Owned /\ Owned \subseteq Blocks
      /\ Owned' = Owned \union {b}
  BY <1>1, <1>3 DEF Typed, Owned
<1>5. /\ call # Idle /\ call \in InProgress /\ Reachable(call.bn) /\ call.level \in 1 .. Len(Way)
      /\ Way \in Paths /\ Len(Way) = 1 + Levels(Way[1]) /\ Len(Way) \in 1 .. 4
      /\ q \in Paths /\ Len(q) = call.level /\ q[call.level] = j /\ q[1] = Way[1]
      /\ call.level > 1 => Parent(q) = SubSeq(Way, 1, call.level - 1)
      /\ Last => q = Way
      /\ Holds(q) = 0
  BY <1>1, HereIs
<1>6. Rooted(Paths) /\ q \in Seq(Nat) /\ Way \in Seq(Nat)
  BY <1>3, <1>5, PathsRooted DEF Rooted
<1>7. \A p \in Paths : Holds(p) \in Owned \union {0}
  BY <1>3 DEF InTree, IsTree, Holds
<1>8. /\ call.level = 1 => ~call.fresh
      /\ call.level > 1 => /\ call.bp # 0 /\ call.bp = Holds(Parent(q)) /\ call.buf = Now[call.bp]
                           /\ call.bp \in Owned /\ j \in 0 .. PER - 1
      /\ call.level \in Nat /\ (call.level = 1 \/ call.level > 1)
  <2>1. call.level \in 1 .. 4
    BY <1>5 DEF InProgress
  <2>2. call.level > 1 => /\ call.bp # 0 /\ call.bp = Holds(Parent(q)) /\ call.buf = Now[call.bp]
    BY <1>3, <1>5 DEF OnItsWay
  <2>3. call.level > 1 => Parent(q) \in Paths /\ j \in 0 .. PER - 1
    BY <1>5, <1>6 DEF Rooted
  <2>4. call.level > 1 => call.bp \in Owned
    BY <2>2, <2>3, <1>7
  <2>5. call.fresh => call.level > 1
    BY <1>3, <1>5 DEF OnItsWay
  <2> QED BY <2>1, <2>2, <2>3, <2>4, <2>5
<1>9. e \in Entries
  <2>1. content[b] \in Entries
    BY <1>3, <1>4 DEF Typed
  <2> QED BY <1>2, <1>3, <2>1
<1>10. /\ DOMAIN content = Blocks \union Others
       /\ call.level = 1 => entered = content
       /\ call.level > 1 => entered = [content EXCEPT ![call.bp] = [call.buf EXCEPT ![j] = b]]
       /\ call.level > 1 => call.buf \in Entries /\ [call.buf EXCEPT ![j] = b] \in Entries
  <2>1. call.buf \in Entries
    BY <1>5 DEF InProgress
  <2>2. [call.buf EXCEPT ![j] = b] \in Entries
    BY <2>1, <1>4 DEF Entries
  <2> QED BY <1>3, <1>8, <2>1, <2>2 DEF Typed
<1> HIDE DEF entered, q, j
<1>11. entered \in [Blocks \union Others -> Entries]
  BY <1>3, <1>8, <1>10 DEF Typed
<1>12. content' \in [Blocks \union Others -> Entries]
  BY <1>2, <1>4, <1>9, <1>11
<1>13. /\ \A x \in Owned : x # call.bp \/ call.level = 1 => content'[x] = content[x]
       /\ call.level > 1 => content'[call.bp] = [call.buf EXCEPT ![j] = b]
       /\ content'[b] = e
  BY <1>2, <1>4, <1>8, <1>10, <1>11
<1>14. \A x \in Owned : x # call.bp \/ call.level = 1 => Now[x] = content[x]
  BY <1>3, <1>4, <1>8 DEF Now, Typed
<1>15. /\ Last => /\ call' = Idle
                 /\ seen' = [l \in Asked |-> IF Bn(l) = call.bn THEN b ELSE seen[l]]
       /\ ~Last => call' = [bn |-> call.bn, write |-> call.write,
                            level |-> call.level + 1, bp |-> b, buf |-> NoEntries, fresh |-> V6]
  BY <1>1, <1>4, <1>5 DEF Answer, InProgress
<1>16. /\ \A x \in Owned : Now'[x] = content'[x]
       /\ ~Last => Now'[b] = NoEntries
  <2>1. CASE Last
    BY <1>15, <2>1, IdleNow
  <2>2. CASE ~Last /\ V6
    <3>1. call'.fresh /\ call'.bp = b /\ call'.buf = NoEntries
      <4>1. V6 = TRUE
        BY <2>2 DEF V6
      <4>2. call' = [bn |-> call.bn, write |-> call.write,
                     level |-> call.level + 1, bp |-> b, buf |-> NoEntries, fresh |-> TRUE]
        BY <1>15, <2>2, <4>1
      <4> QED BY <4>2
    <3>2. Now' = [content' EXCEPT ![call'.bp] = call'.buf]
      BY <3>1, <2>2 DEF Now
    <3>3. Now' = [content' EXCEPT ![b] = NoEntries]
      BY <3>1, <3>2
    <3> QED BY <3>3, <1>4, <1>12
  <2>3. CASE ~Last /\ ~V6
    <3>1. Now' = content' /\ e = NoEntries
      BY <1>2, <1>15, <2>3 DEF Now
    <3> QED BY <3>1, <1>13
  <2> QED BY <2>1, <2>2, <2>3
<1>17. EntersAt(Paths, i_addr, Now, q, b, i_addr', Now')
  <2>1. {Leads(i_addr, Now, p) : p \in Paths} \ {0} \subseteq Owned
    BY <1>7 DEF Holds
  <2>2. CASE call.level = 1
    <3>1. \A x \in Owned : Now'[x] = Now[x]
      BY <1>13, <1>14, <1>16, <2>2
    <3>2. ASSUME NEW p \in Paths, Len(p) = 1 PROVE i_addr'[p[1]] = IF p = q THEN b ELSE i_addr[p[1]]
      <4>1. p[1] \in 0 .. Naddr - 1 /\ p \in Seq(Nat)
        BY <1>3, PathsAre DEF IsPath
      <4>2. p = q <=> p[1] = j
        BY <3>2, <4>1, <1>5, <1>6, <2>2, SameAddress
      <4>3. i_addr' = [i_addr EXCEPT ![j] = b] /\ DOMAIN i_addr = 0 .. Naddr - 1
        BY <1>1, <1>3, <2>2 DEF Typed, j
      <4> QED BY <4>1, <4>2, <4>3
    <3> QED BY <3>1, <3>2, <2>1, <2>2, <1>5 DEF EntersAt
  <2>3. CASE call.level > 1
    <3>1. call.bp = Leads(i_addr, Now, Parent(q)) /\ call.bp # 0 /\ i_addr' = i_addr /\ Len(q) # 1
      BY <1>1, <1>5, <1>8, <2>3 DEF Holds
    <3>2. ASSUME NEW k \in 0 .. PER - 1
          PROVE  Now'[call.bp][k] = IF k = q[Len(q)] THEN b ELSE Now[call.bp][k]
      <4>1. Now'[call.bp] = [call.buf EXCEPT ![j] = b] /\ call.buf = Now[call.bp]
        BY <1>8, <1>13, <1>16, <2>3
      <4>2. q[Len(q)] = j /\ k \in DOMAIN call.buf
        BY <1>5, <1>10, <2>3 DEF Entries
      <4> QED BY <4>1, <4>2
    <3>3. \A y \in Owned \ {call.bp} : Now'[y] = Now[y]
      BY <1>13, <1>14, <1>16
    <3>4. \A y \in {Leads(i_addr, Now, p) : p \in Paths} \ {0, call.bp} : Now'[y] = Now[y]
      BY <3>3, <2>1
    <3> QED BY <3>1, <3>2, <3>4 DEF EntersAt
  <2> QED BY <2>2, <2>3, <1>8
<1>18. ASSUME NEW p \in Paths, Len(p) > 1, Parent(p) = q PROVE Now'[b][p[Len(p)]] = 0
  <2>1. p \in Seq(Nat) /\ IsPath(p) /\ p[Len(p)] \in 0 .. PER - 1 /\ Len(p) \in Nat
    BY <1>3, <1>6, <1>18, PathsAre DEF Rooted
  <2>2. Len(q) = Len(p) - 1 /\ q[1] = p[1]
    BY <2>1, <1>18, ParentIs
  <2>3. CASE Last
    <3>1. Len(q) = 1 + Levels(q[1]) /\ Len(p) <= 1 + Levels(p[1])
      BY <1>5, <2>1, <2>3 DEF IsPath
    <3> QED BY <3>1, <2>1, <2>2
  <2>4. CASE ~Last
    BY <1>16, <2>1, <2>4 DEF NoEntries
  <2> QED BY <2>3, <2>4
<1>19. /\ \A p \in Paths : Leads(i_addr', Now', p) = IF p = q THEN b ELSE Holds(p)
       /\ IsTree(Paths, i_addr', Now', Owned \union {b})
  <2>1. IsTree(Paths, i_addr, Now, Owned) /\ Leads(i_addr, Now, q) = 0
    BY <1>3, <1>5 DEF InTree, Holds
  <2>2. 0 \notin Owned /\ b \notin Owned /\ b # 0 /\ q \in Paths /\ Rooted(Paths)
    BY <1>4, <1>5, <1>6
  <2>3. \A p \in Paths : Len(p) > 1 /\ Parent(p) = q => Now'[b][p[Len(p)]] = 0
    BY <1>18
  <2> DEFINE addr2 == i_addr'
             now2 == Now'
  <2>4. /\ EntersAt(Paths, i_addr, Now, q, b, addr2, now2)
        /\ \A p \in Paths : Len(p) > 1 /\ Parent(p) = q => now2[b][p[Len(p)]] = 0
    BY <1>17, <2>3
  <2> HIDE DEF addr2, now2
  <2>5. /\ \A p \in Paths : Leads(addr2, now2, p) = IF p = q THEN b ELSE Leads(i_addr, Now, p)
        /\ IsTree(Paths, addr2, now2, Owned \union {b})
    BY <2>1, <2>2, <2>4, Grafted
  <2> QED BY <2>5 DEF addr2, now2, Holds
<1>20. Paths' = Paths /\ InTree'
  <2>1. Paths' = Paths
    BY <1>1, SameKernel
  <2> QED BY <2>1, <1>4, <1>19 DEF InTree
<1>21. Typed'
  <2>1. i_addr' \in [0 .. Naddr' - 1 -> Blocks \union {0}]
    BY <1>1, <1>3, <1>4, SameKernel DEF Typed
  <2>2. seen' \in [Asked -> Blocks \union {0}]
    <3>1. CASE Last
      BY <3>1, <1>3, <1>4, <1>15 DEF Typed
    <3>2. CASE ~Last
      BY <3>2, <1>1, <1>3 DEF Typed
    <3> QED BY <3>1, <3>2
  <2> QED BY <2>1, <2>2, <1>1, <1>3, <1>12, SameKernel DEF Typed
<1>22. OnItsWay'
  <2>1. CASE Last
    BY <1>15, <2>1, IdleNow
  <2>2. CASE ~Last
    <3>1. /\ call'.bn = call.bn /\ call'.write = call.write
          /\ call'.level = call.level + 1 /\ call'.bp = b /\ call'.buf = NoEntries
          /\ call'.fresh = V6
      BY <1>15, <2>2
    <3>2. call.level + 1 \in 1 .. 4 /\ call.level + 1 <= Len(Way) /\ (call.level + 1) - 1 = call.level
          /\ call.level + 1 > 1
      <4>1. call.level # Len(Way)
        BY <2>2 DEF Last, Way
      <4>2. \A n, m \in Nat : n \in 1 .. m /\ n # m /\ m \in 1 .. 4 =>
              n + 1 \in 1 .. 4 /\ n + 1 <= m /\ (n + 1) - 1 = n /\ n + 1 > 1
        OBVIOUS
      <4>3. call.level \in Nat /\ Len(Way) \in Nat
        BY <1>5
      <4> QED BY <1>5, <4>1, <4>2, <4>3
    <3>3. call' \in InProgress
      <4>1. V6 \in BOOLEAN
        BY DEF V6
      <4> QED BY <4>1, <1>3, <1>4, <1>5, <1>15, <2>2, <3>2 DEF InProgress
    <3>4. Way' = Way /\ ~Outgrown'
      BY <1>1, <3>1, SameKernel DEF Way, Here, Outgrown
    <3>5. ~TooBig(call.bn)' /\ (V6' => call'.write)
      BY <1>1, <1>3, <1>5, <3>1, SameKernel DEF OnItsWay
    <3>6. Holds(SubSeq(Way, 1, call.level - 1))' = b
      <4>1. SubSeq(Way', 1, call'.level - 1) = q
        BY <3>1, <3>2, <3>4 DEF q
      <4> QED BY <4>1, <1>5, <1>19 DEF Holds
    <3>7. Now'[b] = NoEntries
      BY <1>16, <2>2
    <3>8. call'.fresh => V6' /\ call'.level > 1 /\ call'.buf = NoEntries
      BY <1>1, <3>1, <3>2, SameKernel
    <3> QED BY <1>4, <3>1, <3>2, <3>3, <3>4, <3>5, <3>6, <3>7, <3>8 DEF OnItsWay
  <2> QED BY <2>1, <2>2
<1>23. Answers'
  <2> SUFFICES ASSUME NEW m \in Asked
               PROVE  seen'[m] = IF Reachable(Bn(m))' THEN Holds(Path(Bn(m)))' ELSE 0
    BY DEF Answers
  <2>1. /\ (Reachable(Bn(m))' <=> Reachable(Bn(m)))
        /\ Holds(Path(Bn(m)))' = Leads(i_addr', Now', Path(Bn(m)))
    <3>1. Bn(m)' = Bn(m) /\ \A n : (Reachable(n)' <=> Reachable(n)) /\ Path(n)' = Path(n)
      BY <1>1, SameKernel
    <3>2. (Reachable(Bn(m))' <=> Reachable(Bn(m))) /\ Path(Bn(m))' = Path(Bn(m))
      BY <1>1, SameKernel DEF Reachable, TooBig, Path, LargePath, IndirectPath, Bn
    <3> QED BY <3>2 DEF Holds
  <2>2. Bn(m) \in Nat
    BY <1>3, BnFacts
  <2>3. call.bn \in Nat
    BY <1>5 DEF InProgress
  <2>4. seen[m] = IF Reachable(Bn(m)) THEN Holds(Path(Bn(m))) ELSE 0
    BY <1>3 DEF Answers
  <2>5. ASSUME Reachable(Bn(m))
        PROVE  /\ Path(Bn(m)) \in Paths
               /\ Path(Bn(m)) = q <=> Last /\ Bn(m) = call.bn
    <3>1. Path(Bn(m)) \in Paths /\ Len(Path(Bn(m))) = 1 + Levels(Path(Bn(m))[1])
      BY <1>3, <2>2, <2>5, PathOfBlock
    <3>2. CASE Last
      <4>1. q = Path(call.bn)
        BY <1>5, <3>2 DEF Way
      <4>2. Path(Bn(m)) = Path(call.bn) => Bn(m) = call.bn
        BY <1>3, <1>5, <2>2, <2>3, <2>5, PathsDiffer
      <4> QED BY <3>1, <3>2, <4>1, <4>2, <2>2, <2>3
    <3>3. CASE ~Last
      <4>1. Len(q) # 1 + Levels(q[1])
        BY <1>5, <3>3 DEF Last, Way
      <4> QED BY <3>1, <3>3, <4>1
    <3> QED BY <3>2, <3>3
  <2>6. seen' = IF Last THEN [l \in Asked |-> IF Bn(l) = call.bn THEN b ELSE seen[l]] ELSE seen
    BY <1>1, <1>15
  <2>7. seen \in [Asked -> Blocks \union {0}]
    BY <1>3 DEF Typed
  <2>8. CASE Reachable(Bn(m))
    <3>1. Holds(Path(Bn(m)))' = IF Last /\ Bn(m) = call.bn THEN b ELSE Holds(Path(Bn(m)))
      BY <1>19, <2>1, <2>5, <2>8
    <3> QED BY <3>1, <2>1, <2>3, <2>4, <2>6, <2>7, <2>8
  <2>9. CASE ~Reachable(Bn(m))
    <3>1. Bn(m) # call.bn
      BY <1>5, <2>3, <2>9
    <3> QED BY <3>1, <2>1, <2>4, <2>6, <2>7, <2>9
  <2> QED BY <2>8, <2>9
<1> QED BY <1>20, <1>21, <1>22, <1>23 DEF Good

(* What an idle state answers: each block for one block number. *)
LEMMA AnsweredOnce ==
  ASSUME Good, NEW l \in Asked, NEW m \in Asked, seen[l] # 0, seen[m] = seen[l]
  PROVE  Bn(m) = Bn(l)
<1>1. Sized /\ InTree /\ Bn(l) \in Nat /\ Bn(m) \in Nat
  BY BnFacts DEF Good, Typed
<1>2. /\ Reachable(Bn(l)) /\ seen[l] = Holds(Path(Bn(l)))
      /\ Reachable(Bn(m)) /\ seen[m] = Holds(Path(Bn(m)))
  BY DEF Good, Answers
<1>3. Path(Bn(l)) \in Paths /\ Path(Bn(m)) \in Paths
  BY <1>1, <1>2, PathOfBlock
<1>4. Path(Bn(m)) = Path(Bn(l))
  BY <1>1, <1>2, <1>3 DEF InTree, IsTree, Holds
<1> QED BY <1>1, <1>2, <1>4, PathsDiffer

(* Between calls, the map is where bmap would find what it answered. *)
LEMMA GoodMaps == Good => MappedStays
<1> SUFFICES ASSUME Good, call = Idle, NEW l \in Asked
             PROVE  /\ ~TooBig(Bn(l)) => Mapped(l) = seen[l]
                    /\ seen[l] # 0 => \A m \in Asked : seen[m] = seen[l] => Bn(m) = Bn(l)
  BY DEF MappedStays
<1>1. Now = content
  BY NowIs DEF Idle
<1>2. \A p : Holds(p) = At(p)
  BY <1>1 DEF Holds, At
<1>3. ASSUME ~TooBig(Bn(l)) PROVE Mapped(l) = seen[l]
  BY <1>2, <1>3 DEF Good, Answers, Reachable, Mapped
<1> QED BY <1>3, AnsweredOnce

LEMMA GoodAccounts ==
  ASSUME Good, call = Idle
  PROVE  /\ {x[2] : x \in Kept} = Blocks \ avail
         /\ \A x, y \in Kept : x[2] = y[2] => x = y
<1>1. Now = content /\ 0 \notin Owned
  BY NowIs, FileMapAssumption DEF Idle, Owned
<1>2. IsTree(Paths, i_addr, content, Owned)
  BY <1>1 DEF Good, InTree
<1>3. /\ \A p \in Paths : At(p) \in Owned \union {0}
      /\ \A p, q \in Paths : At(p) # 0 /\ At(p) = At(q) => p = q
      /\ \A b \in Owned : \E p \in Paths : At(p) = b
  BY <1>2 DEF IsTree, At
<1>4. \A x \in Kept : \E p \in Paths : At(p) # 0 /\ x = <<p, At(p)>>
  BY DEF Kept
<1>5. \A p \in Paths : At(p) # 0 => <<p, At(p)>> \in Kept
  BY DEF Kept
<1>6. {x[2] : x \in Kept} = Owned
  <2>1. ASSUME NEW x \in Kept PROVE x[2] \in Owned
    <3>1. PICK p \in Paths : At(p) # 0 /\ x = <<p, At(p)>>
      BY <1>4
    <3> QED BY <3>1, <1>3
  <2>2. ASSUME NEW b \in Owned PROVE \E x \in Kept : x[2] = b
    <3>1. PICK p \in Paths : At(p) = b
      BY <1>3
    <3>2. <<p, At(p)>> \in Kept /\ <<p, At(p)>>[2] = b
      BY <3>1, <1>1, <1>5
    <3> QED BY <3>2
  <2> QED BY <2>1, <2>2
<1>7. ASSUME NEW x \in Kept, NEW y \in Kept, x[2] = y[2] PROVE x = y
  <2>1. PICK p \in Paths : At(p) # 0 /\ x = <<p, At(p)>>
    BY <1>4
  <2>2. PICK q \in Paths : At(q) # 0 /\ y = <<q, At(q)>>
    BY <1>4
  <2>3. At(p) = At(q)
    BY <1>7, <2>1, <2>2
  <2> QED BY <2>1, <2>2, <2>3, <1>3
<1> QED BY <1>6, <1>7 DEF Owned

(* When the volume is full, the call releases its buffer: written, or      *)
(* forgotten, and then the block reads as what it held before.             *)
LEMMA NoSpaceStep ==
  ASSUME Good, NoSpace
  PROVE  (forgot' \/ Good') /\ MappedStays'
<1>1. /\ Brelse /\ call' = Idle /\ seen' = seen
      /\ UNCHANGED <<kernel, i_addr, ilarg, avail>>
  BY DEF NoSpace, Answer
<1>2. Sized /\ Typed /\ InTree /\ OnItsWay /\ Answers
  BY DEF Good, Typed
<1>3. call # Idle
  <2>1. CASE Outgrown
    <3>1. Naddr \in Nat \ {0}
      BY <1>2, SizesFacts
    <3> QED BY <2>1, <3>1 DEF Outgrown, Idle
  <2>2. CASE Here
    BY <2>2, HereIs
  <2> QED BY <2>1, <2>2 DEF NoSpace
<1>4. call \in InProgress /\ (call.fresh => call.buf = NoEntries)
  BY <1>2, <1>3 DEF OnItsWay
<1>5. content \in [Blocks \union Others -> Entries] /\ call.buf \in Entries /\ call.fresh \in BOOLEAN
  BY <1>2, <1>4 DEF Typed, InProgress
<1>6. CASE content' = Now
  <2>1. content' \in [Blocks \union Others -> Entries]
    BY <1>5, <1>6 DEF Now
  <2>2. forgot' \in BOOLEAN
    BY <1>1, <1>2 DEF Brelse, Typed
  <2>3. Now' = Now /\ OnItsWay'
    BY <1>1, <1>6, IdleNow
  <2>4. InTree' /\ Answers'
    BY <1>1, <2>3, SameMap
  <2>5. Typed'
    BY <1>1, <1>2, <2>1, <2>2, SameKernel DEF Typed
  <2>6. Good'
    BY <2>3, <2>4, <2>5 DEF Good
  <2>7. (Good => MappedStays)'
    BY GoodMaps, PTL
  <2> QED BY <2>6, <2>7
<1>7. CASE content' # Now
  <2>1. call.fresh /\ content' = content /\ content[call.bp] # call.buf
    <3>1. call.fresh => Now = [content EXCEPT ![call.bp] = call.buf]
      BY DEF Now
    <3>2. ~call.fresh => Now = content
      BY DEF Now
    <3>3. content[call.bp] = call.buf => [content EXCEPT ![call.bp] = call.buf] = content
      BY <1>5
    <3> QED BY <1>1, <1>7, <3>1, <3>2, <3>3 DEF Brelse
  <2>2. forgot'
    <3>1. forgot' = (forgot \/ (call.fresh /\ content[call.bp] # call.buf))
      BY <1>1, <1>7, <2>1 DEF Brelse, Now
    <3> QED BY <2>1, <3>1
  <2>3. /\ Now = [content EXCEPT ![call.bp] = call.buf]
        /\ call.buf = NoEntries
    BY <2>1, <1>4 DEF Now
  <2>4. \A p \in Paths : Holds(p) \in Owned \union {0}
    BY <1>2 DEF InTree, IsTree, Holds
  <2>5. call.bp \in Blocks \union Others
    <3>1. call.bp \in Blocks \union {0} /\ call.bp # 0
      BY <1>2, <1>3, <1>4, <2>1 DEF OnItsWay, InProgress
    <3> QED BY <3>1
  <2>6. \A j \in 0 .. PER - 1 : Now[call.bp][j] = 0
    BY <1>5, <2>3, <2>5 DEF NoEntries
  <2>7. \A p \in Paths : Leads(i_addr, Now, p) \notin {0, call.bp} =>
          content[Leads(i_addr, Now, p)] = Now[Leads(i_addr, Now, p)]
    BY <1>5, <2>3, <2>4 DEF Holds, Owned
  <2>8. \A p \in Paths : Leads(i_addr, Now, p) # 0 =>
          Leads(i_addr, content, p) = Leads(i_addr, Now, p)
    <3>1. Rooted(Paths)
      BY <1>2, PathsRooted
    <3> DEFINE x == call.bp
               now == Now
    <3>2. ReadsAt(Paths, i_addr, now, content, x)
      BY <2>6, <2>7 DEF ReadsAt
    <3> HIDE DEF x, now
    <3>3. \A p \in Paths : Leads(i_addr, now, p) # 0 =>
            Leads(i_addr, content, p) = Leads(i_addr, now, p)
      BY <3>1, <3>2, Unmoved
    <3> QED BY <3>3 DEF now
  <2>9. ASSUME NEW l \in Asked, seen[l] # 0
        PROVE  /\ ~(V6 /\ ~ilarg /\ Bn(l) >= Naddr)
               /\ Leads(i_addr, content, Path(Bn(l))) = seen[l]
    <3>1. Reachable(Bn(l)) /\ seen[l] = Holds(Path(Bn(l)))
      BY <1>2, <2>9 DEF Answers
    <3>2. Path(Bn(l)) \in Paths
      BY <1>2, <3>1, BnFacts, PathOfBlock
    <3> QED BY <2>8, <2>9, <3>1, <3>2 DEF Holds, Reachable
  <2>10. ASSUME NEW l \in Asked
         PROVE  /\ Bn(l)' = Bn(l)
                /\ Mapped(l)' = IF V6 /\ ~ilarg /\ Bn(l) >= Naddr THEN 0
                                ELSE Leads(i_addr, content, Path(Bn(l)))
    <3>1. Bn(l)' = Bn(l) /\ (V6' <=> V6) /\ Naddr' = Naddr
      BY <1>1, SameKernel
    <3>2. Path(Bn(l))' = Path(Bn(l))
      BY <1>1, <3>1 DEF Path, LargePath, IndirectPath
    <3> QED BY <1>1, <2>1, <3>1, <3>2 DEF Mapped, At
  <2>11. MappedStays'
    <3> SUFFICES ASSUME NEW l \in Asked
                 PROVE  /\ seen'[l] # 0 => Mapped(l)' = seen'[l]
                        /\ seen'[l] # 0 => \A m \in Asked : seen'[m] = seen'[l] => Bn(m)' = Bn(l)'
      BY <2>2 DEF MappedStays
    <3>1. seen[l] # 0 => Mapped(l)' = seen[l]
      BY <2>9, <2>10
    <3>2. seen[l] # 0 => \A m \in Asked : seen[m] = seen[l] => Bn(m) = Bn(l)
      BY AnsweredOnce
    <3> QED BY <1>1, <2>10, <3>1, <3>2
  <2> QED BY <2>2, <2>11
<1> QED BY <1>6, <1>7

-----------------------------------------------------------------------------
(* An empty map, and itrunc.                                               *)

LEMMA LeadsNowhere ==
  ASSUME NEW addr, NEW cont, NEW p, addr[p[1]] = 0
  PROVE  Leads(addr, cont, p) = 0
BY DEF Leads, Followed

LEMMA EmptyMap ==
  Typed /\ i_addr = [i \in 0 .. Naddr - 1 |-> 0] /\ avail = Blocks /\ seen = [l \in Asked |-> 0]
    => InTree /\ Answers
<1> SUFFICES ASSUME Typed, i_addr = [i \in 0 .. Naddr - 1 |-> 0], avail = Blocks,
                    seen = [l \in Asked |-> 0]
             PROVE  InTree /\ Answers
  OBVIOUS
<1>1. Sized /\ Owned = {}
  BY DEF Typed, Owned
<1>2. \A p \in Paths : Holds(p) = 0
  <2> SUFFICES ASSUME NEW p \in Paths PROVE Holds(p) = 0
    OBVIOUS
  <2>1. p[1] \in 0 .. Naddr - 1
    BY <1>1, PathsAre DEF IsPath
  <2> QED BY <2>1, LeadsNowhere DEF Holds
<1>3. InTree
  BY <1>1, <1>2 DEF InTree, IsTree, Holds
<1>4. Answers
  BY <1>1, <1>2, BnFacts, PathOfBlock DEF Answers
<1> QED BY <1>3, <1>4

LEMMA KernelStays ==
  ASSUME UNCHANGED kernel
  PROVE  /\ Naddr' = Naddr /\ (V6' <=> V6)
         /\ \A l : Bn(l)' = Bn(l)
         /\ \A bn : TooBig(bn)' <=> TooBig(bn)
         /\ \A bn : LargePath(bn)' = LargePath(bn)
<1>1. Naddr' = Naddr /\ (V6' <=> V6)
  BY DEF Naddr, V6
<1>2. \A l : Bn(l)' = Bn(l)
  BY <1>1 DEF Bn
<1>3. \A bn : TooBig(bn)' <=> TooBig(bn)
  BY <1>1 DEF TooBig
<1>4. \A bn : LargePath(bn)' = LargePath(bn)
  BY <1>1 DEF LargePath
<1> QED BY <1>1, <1>2, <1>3, <1>4

LEMMA InitGood == Init => Good
<1> SUFFICES ASSUME Init PROVE Good
  OBVIOUS
<1>1. NoEntries \in Entries /\ Naddr \in Nat
  BY FileMapAssumption DEF NoEntries, Entries, Init, Naddr
<1>2. Typed
  BY <1>1 DEF Init, Typed, Sized
<1>3. InTree /\ Answers
  BY <1>2, EmptyMap DEF Init
<1> QED BY <1>2, <1>3 DEF Init, Good, OnItsWay

(* V6 and V7: every block of the file is freed, and nothing else.          *)
LEMMA ItruncStep ==
  ASSUME Good, Itrunc
  PROVE  Good'
<1>1. /\ call = Idle /\ call' = Idle
      /\ avail' = avail \union Freed
      /\ i_addr' = [i \in 0 .. Naddr - 1 |-> 0]
      /\ ilarg' = FALSE
      /\ seen' = [l \in Asked |-> 0]
      /\ UNCHANGED <<kernel, content, forgot>>
  BY DEF Itrunc
<1>2. Typed /\ InTree /\ Now = content /\ 0 \notin Owned
  BY <1>1, NowIs, FileMapAssumption DEF Good, Idle, Owned
<1>3. Freed = Owned
  <2>1. /\ \A p \in Paths : At(p) \in Owned \union {0}
        /\ \A b \in Owned : \E p \in Paths : At(p) = b
    BY <1>2 DEF InTree, IsTree, At
  <2> QED BY <2>1, <1>2 DEF Freed
<1>4. avail' = Blocks /\ Naddr' = Naddr
  BY <1>1, <1>2, <1>3, KernelStays DEF Owned, Typed
<1>5. Typed'
  BY <1>1, <1>2, <1>4 DEF Typed, Sized
<1>6. (Typed /\ i_addr = [i \in 0 .. Naddr - 1 |-> 0] /\ avail = Blocks /\ seen = [l \in Asked |-> 0]
         => InTree /\ Answers)'
  BY EmptyMap, PTL
<1>7. InTree' /\ Answers'
  BY <1>1, <1>4, <1>5, <1>6
<1> QED BY <1>1, <1>5, <1>7, IdleNow DEF Good

(* 2.11BSD: the places after the last block are cleared, and their blocks  *)
(* freed.                                                                  *)
LEMMA Itrunc211Step ==
  ASSUME Good, NEW last \in -1 .. MaxL, Itrunc211(last)
  PROVE  Good'
<1>1. /\ call = Idle /\ call' = Idle /\ kernel = "211"
      /\ content' = ContentCut(last)
      /\ avail' = avail \union FreedAfter(last)
      /\ i_addr' = [i \in 0 .. Naddr - 1 |->
                      IF i < Naddr - 3
                      THEN IF i > last THEN 0 ELSE i_addr[i]
                      ELSE IF Lastiblock(last, i - (Naddr - 3)) < 0 THEN 0 ELSE i_addr[i]]
      /\ seen' = [l \in Asked |-> IF l > last THEN 0 ELSE seen[l]]
      /\ UNCHANGED <<kernel, ilarg, forgot>>
  BY DEF Itrunc211
<1>2. /\ Typed /\ Sized /\ InTree /\ Answers /\ ~V6 /\ Now = content /\ 0 \notin Owned
      /\ last \in Int /\ last >= -1 /\ PER \in Nat \ {0} /\ Naddr \in Nat
  BY <1>1, NowIs, SizesFacts, FileMapAssumption DEF Good, Typed, Idle, Owned, V6
<1>3. /\ Rooted(Paths) /\ IsTree(Paths, i_addr, content, Owned)
      /\ \A p \in Paths : At(p) \in Owned \union {0}
      /\ \A p, q \in Paths : At(p) # 0 /\ At(p) = At(q) => p = q
  BY <1>2, PathsRooted DEF InTree, IsTree, At
<1>4. Cut(last) \subseteq Paths
  BY DEF Cut
<1>5. ASSUME NEW p \in Paths, Len(p) > 1, Parent(p) \in Cut(last) PROVE p \in Cut(last)
  BY <1>3, <1>5, CutClosed DEF Cut, Rooted
<1>6. ASSUME NEW p \in Paths, Len(p) = 1
      PROVE  i_addr'[p[1]] = IF p \in Cut(last) THEN 0 ELSE i_addr[p[1]]
  <2>1. p \in Seq(Nat) /\ p[1] \in 0 .. Naddr - 1
    BY <1>2, PathsAre DEF IsPath
  <2>2. p = <<p[1]>>
    BY <1>6, <2>1
  <2>3. CutOff(p, last) <=> IF p[1] < Naddr - 3 THEN p[1] > last
                            ELSE Lastiblock(last, p[1] - (Naddr - 3)) < 0
    BY <1>2, <2>1, <2>2, CutAddresses
  <2> QED BY <1>1, <2>1, <2>3 DEF Cut
<1>7. ASSUME NEW p \in Paths, Len(p) > 1, At(Parent(p)) # 0
      PROVE  content'[At(Parent(p))][p[Len(p)]] =
               IF p \in Cut(last) THEN 0 ELSE content[At(Parent(p))][p[Len(p)]]
  <2> DEFINE x == At(Parent(p))
             j == p[Len(p)]
  <2>1. p \in Seq(Nat) /\ Parent(p) \in Paths /\ j \in 0 .. PER - 1
    BY <1>3, <1>7 DEF Rooted
  <2>2. x \in Owned /\ x \in DOMAIN content
    BY <1>2, <1>3, <1>7, <2>1 DEF Typed, Owned
  <2>3. Cleared(last) = {<<At(Parent(q)), q[Len(q)]>> : q \in {r \in Cut(last) : Len(r) > 1}}
    BY DEF Cleared, Parent
  <2>4. ASSUME p \in Cut(last) PROVE <<x, j>> \in Cleared(last)
    BY <1>7, <2>3, <2>4
  <2>5. ASSUME <<x, j>> \in Cleared(last) PROVE p \in Cut(last)
    <3>1. PICK q \in Cut(last) : Len(q) > 1 /\ <<x, j>> = <<At(Parent(q)), q[Len(q)]>>
      BY <2>3, <2>5
    <3>2. q \in Seq(Nat) /\ Parent(q) \in Paths /\ x = At(Parent(q)) /\ j = q[Len(q)]
      BY <1>3, <1>4, <3>1 DEF Rooted
    <3>3. Parent(q) = Parent(p)
      BY <1>3, <1>7, <2>1, <3>2
    <3>4. Len(q) = Len(p)
      <4>1. Len(Parent(p)) = Len(p) - 1 /\ Len(Parent(q)) = Len(q) - 1
        BY <1>7, <2>1, <3>1, <3>2, ParentIs
      <4>2. Len(p) \in Nat /\ Len(q) \in Nat
        BY <2>1, <3>2, LenProperties
      <4> QED BY <3>3, <4>1, <4>2
    <3>5. p = q
      BY <1>7, <2>1, <3>2, <3>3, <3>4, SamePath
    <3> QED BY <3>5
  <2>6. content'[x][j] = IF <<x, j>> \in Cleared(last) THEN 0 ELSE content[x][j]
    <3> HIDE DEF x, j
    <3> QED BY <1>1, <2>1, <2>2 DEF ContentCut
  <2> QED BY <2>4, <2>5, <2>6
<1>8. ClearsAt(Paths, i_addr, content, Cut(last), i_addr', content')
  BY <1>4, <1>5, <1>6, <1>7 DEF ClearsAt, At
<1>9. /\ \A p \in Paths : Leads(i_addr', content', p) = IF p \in Cut(last) THEN 0 ELSE At(p)
      /\ IsTree(Paths, i_addr', content', Owned \ {At(p) : p \in Cut(last)})
  <2> DEFINE addr2 == i_addr'
             cont2 == content'
             C == Cut(last)
  <2>1. ClearsAt(Paths, i_addr, content, C, addr2, cont2)
    BY <1>8
  <2> HIDE DEF addr2, cont2, C
  <2>2. /\ \A p \in Paths : Leads(addr2, cont2, p) = IF p \in C THEN 0 ELSE Leads(i_addr, content, p)
        /\ IsTree(Paths, addr2, cont2, Owned \ AllOf(i_addr, content, C))
    <3>1. 0 \notin Owned /\ Rooted(Paths) /\ IsTree(Paths, i_addr, content, Owned)
      BY <1>2, <1>3
    <3> QED BY <2>1, <3>1, Pruned
  <2>3. AllOf(i_addr, content, C) = {At(p) : p \in C}
    BY DEF AllOf, At
  <2> QED BY <2>2, <2>3 DEF addr2, cont2, C, At
<1>10. Now' = content' /\ OnItsWay'
  BY <1>1, IdleNow
<1>11. Paths' = Paths /\ Naddr' = Naddr
  BY <1>1, SameKernel
<1>12. FreedAfter(last) \subseteq Owned /\ Owned' = Owned \ {At(p) : p \in Cut(last)}
  <2>1. FreedAfter(last) \subseteq Owned
    BY <1>3, <1>4 DEF FreedAfter
  <2> QED BY <2>1, <1>1, <1>2 DEF FreedAfter, Owned
<1>13. InTree'
  BY <1>9, <1>10, <1>11, <1>12 DEF InTree
<1>14. Typed'
  <2>1. content' \in [Blocks \union Others -> Entries]
    <3>1. \A b \in Blocks \union Others : content[b] \in Entries
      BY <1>2 DEF Typed
    <3>2. \A b \in Blocks \union Others :
            [j \in 0 .. PER - 1 |-> IF <<b, j>> \in Cleared(last) THEN 0 ELSE content[b][j]] \in Entries
      BY <3>1 DEF Entries
    <3>3. DOMAIN content = Blocks \union Others
      BY <1>2 DEF Typed
    <3> QED BY <1>1, <3>2, <3>3 DEF ContentCut
  <2>2. i_addr' \in [0 .. Naddr' - 1 -> Blocks \union {0}]
    BY <1>1, <1>2, <1>11 DEF Typed
  <2>3. avail' \subseteq Blocks
    BY <1>1, <1>2, <1>12 DEF Typed, Owned
  <2>4. seen' \in [Asked -> Blocks \union {0}]
    BY <1>1, <1>2 DEF Typed
  <2> QED BY <2>1, <2>2, <2>3, <2>4, <1>1, <1>2, SameKernel DEF Typed
<1>15. Answers'
  <2> SUFFICES ASSUME NEW l \in Asked
               PROVE  seen'[l] = IF Reachable(Bn(l))' THEN Holds(Path(Bn(l)))' ELSE 0
    BY DEF Answers
  <2>1. (Reachable(Bn(l))' <=> Reachable(Bn(l))) /\ Path(Bn(l))' = Path(Bn(l))
    BY <1>1, SameKernel DEF Reachable, TooBig, Path, LargePath, IndirectPath, Bn
  <2>2. Bn(l) = l /\ l \in Nat
    BY <1>2, BnFacts
  <2>3. seen[l] = IF Reachable(l) THEN At(Path(l)) ELSE 0
    BY <1>2, <2>2 DEF Answers, Holds, At
  <2>4. CASE Reachable(l)
    <3>1. Path(l) \in Paths /\ (CutOff(Path(l), last) <=> l > last)
      BY <1>2, <2>2, <2>4, PathOfBlock, CutNumbers DEF Reachable
    <3>2. Leads(i_addr', content', Path(l)) = IF l > last THEN 0 ELSE At(Path(l))
      BY <1>9, <3>1 DEF Cut
    <3>3. Holds(Path(Bn(l)))' = Leads(i_addr', content', Path(l))
      BY <1>10, <2>1, <2>2 DEF Holds
    <3> QED BY <1>1, <2>1, <2>2, <2>3, <2>4, <3>2, <3>3
  <2>5. CASE ~Reachable(l)
    BY <1>1, <2>1, <2>2, <2>3, <2>5
  <2> QED BY <2>4, <2>5
<1> QED BY <1>10, <1>13, <1>14, <1>15 DEF Good

-----------------------------------------------------------------------------
LEMMA PathsAreNext == (Sized => \A p : p \in Paths <=> IsPath(p))'
BY PathsAre, PTL

(* V6: the addresses move to an indirect block.                            *)
LEMMA ConvertStep ==
  ASSUME Good, NEW b \in avail, Convert(b)
  PROVE  Good'
<1> DEFINE moved == [j \in 0 .. PER - 1 |-> IF j < Naddr THEN i_addr[j] ELSE 0]
<1>1. /\ Outgrown
      /\ content' = [content EXCEPT ![b] = moved]
      /\ i_addr' = [i \in 0 .. Naddr - 1 |-> IF i = 0 THEN b ELSE 0]
      /\ ilarg' = TRUE
      /\ avail' = avail \ {b}
      /\ UNCHANGED <<kernel, call, seen, forgot>>
  BY DEF Convert
<1>2. Typed /\ Sized /\ InTree /\ OnItsWay /\ Answers /\ V6 /\ ~ilarg
  BY <1>1 DEF Good, Typed, Outgrown
<1>3. /\ PER \in Nat \ {0} /\ Naddr \in 2 .. PER /\ Naddr \in Nat
      /\ 0 \notin Blocks /\ 0 \notin Owned /\ Owned \subseteq Blocks
      /\ b \in Blocks /\ b \notin Owned /\ b # 0 /\ Owned' = Owned \union {b}
  BY <1>1, <1>2, SizesFacts, FileMapAssumption DEF Typed, Owned
<1>4. call # Idle /\ call \in InProgress /\ call.level = 1 /\ ~call.fresh
  <2>1. call # Idle
    BY <1>1, <1>3 DEF Outgrown, Idle
  <2> QED BY <1>1, <1>2, <2>1 DEF OnItsWay
<1>5. Now = content /\ Now' = content'
  BY <1>1, <1>4, NowIs DEF Now
<1>6. Sized' /\ V6' /\ Naddr' = Naddr /\ \A l : Bn(l)' = Bn(l)
  BY <1>1, <1>2, KernelStays DEF Sized
<1>7. moved \in Entries /\ \A j \in 0 .. Naddr - 1 : moved[j] = i_addr[j]
  BY <1>2, <1>3 DEF Typed, Entries
<1>8. content' \in [Blocks \union Others -> Entries] /\ content'[b] = moved
  BY <1>1, <1>2, <1>3, <1>7 DEF Typed
<1>9. Typed'
  <2>1. i_addr' \in [0 .. Naddr' - 1 -> Blocks \union {0}]
    BY <1>1, <1>3, <1>6
  <2> QED BY <2>1, <1>1, <1>2, <1>6, <1>8 DEF Typed
<1>10. \A p : p \in Paths <=> \E i \in 0 .. Naddr - 1 : p = <<i>>
  <2>1. \A i : Levels(i) = 0
    BY <1>2 DEF Levels
  <2>2. ASSUME NEW p \in Paths PROVE \E i \in 0 .. Naddr - 1 : p = <<i>>
    <3>1. p \in Seq(Nat) /\ Len(p) = 1 /\ p[1] \in 0 .. Naddr - 1
      <4>1. /\ p \in Seq(Nat) /\ Len(p) >= 1 /\ Len(p) <= 1 + Levels(p[1])
            /\ p[1] \in 0 .. Naddr - 1
        BY <1>2, PathsAre DEF IsPath
      <4>2. Len(p) \in Nat /\ Levels(p[1]) = 0
        BY <2>1, <4>1, LenProperties
      <4>3. \A n, m \in Nat : n >= 1 /\ n <= 1 + m /\ m = 0 => n = 1
        OBVIOUS
      <4>4. Levels(p[1]) \in Nat
        BY <4>2
      <4> QED BY <4>1, <4>2, <4>3, <4>4
    <3>2. p = <<p[1]>>
      BY <3>1
    <3> QED BY <3>1, <3>2
  <2>3. ASSUME NEW i \in 0 .. Naddr - 1 PROVE <<i>> \in Paths
    BY <1>2, PathsOfNumbers, PathsAre
  <2> QED BY <2>2, <2>3
<1>11. /\ \A i \in 0 .. Naddr - 1 : <<i>> \in Paths /\ Holds(<<i>>) = i_addr[i]
       /\ \A i \in 0 .. Naddr - 1 : i_addr[i] \in Owned \union {0}
       /\ \A i, k \in 0 .. Naddr - 1 : i_addr[i] # 0 /\ i_addr[i] = i_addr[k] => i = k
       /\ \A x \in Owned : \E i \in 0 .. Naddr - 1 : i_addr[i] = x
  <2>1. \A i \in 0 .. Naddr - 1 : <<i>> \in Paths /\ Holds(<<i>>) = i_addr[i]
    <3> TAKE i \in 0 .. Naddr - 1
    <3>1. Len(<<i>>) = 1 /\ <<i>>[1] = i
      OBVIOUS
    <3> QED BY <3>1, <1>10, LeadsOne DEF Holds
  <2>2. /\ \A p \in Paths : Holds(p) \in Owned \union {0}
        /\ \A p, q \in Paths : Holds(p) # 0 /\ Holds(p) = Holds(q) => p = q
        /\ \A x \in Owned : \E p \in Paths : Holds(p) = x
    BY <1>2 DEF InTree, IsTree, Holds
  <2>3. ASSUME NEW i \in 0 .. Naddr - 1, NEW k \in 0 .. Naddr - 1,
               i_addr[i] # 0, i_addr[i] = i_addr[k]
        PROVE  i = k
    <3>1. <<i>> = <<k>>
      BY <2>1, <2>2, <2>3
    <3>2. <<i>>[1] = i /\ <<k>>[1] = k
      OBVIOUS
    <3> QED BY <3>1, <3>2
  <2>4. ASSUME NEW x \in Owned PROVE \E i \in 0 .. Naddr - 1 : i_addr[i] = x
    <3>1. PICK p \in Paths : Holds(p) = x
      BY <2>2
    <3>2. PICK i \in 0 .. Naddr - 1 : p = <<i>>
      BY <1>10
    <3> QED BY <3>1, <3>2, <2>1
  <2> QED BY <2>1, <2>2, <2>3, <2>4
<1>0. /\ (Sized => \A p : p \in Paths <=> IsPath(p))'
      /\ (Sized => \A bn \in Nat : Reachable(bn) =>
                     Path(bn) \in Paths /\ Len(Path(bn)) = 1 + Levels(Path(bn)[1]))'
  <2>1. (Sized => \A p : p \in Paths <=> IsPath(p))'
    BY PathsAreNext
  <2>2. (Sized => \A bn \in Nat : Reachable(bn) =>
                     Path(bn) \in Paths /\ Len(Path(bn)) = 1 + Levels(Path(bn)[1]))'
    BY PathOfBlock, PTL
  <2> QED BY <2>1, <2>2
<1>12. \A p : p \in Paths' => /\ p \in Seq(Nat) /\ p[1] \in 0 .. Naddr - 1
                              /\ Len(p) \in Nat /\ Len(p) >= 1
                              /\ p[1] = 0 => Len(p) <= 2
                              /\ Len(p) >= 2 => p[2] \in 0 .. PER - 1
  <2> SUFFICES ASSUME NEW p, p \in Paths'
               PROVE  /\ p \in Seq(Nat) /\ p[1] \in 0 .. Naddr - 1
                      /\ Len(p) \in Nat /\ Len(p) >= 1
                      /\ p[1] = 0 => Len(p) <= 2
                      /\ Len(p) >= 2 => p[2] \in 0 .. PER - 1
    OBVIOUS
  <2>2. /\ p \in Seq(Nat) /\ Len(p) >= 1
        /\ p[1] \in 0 .. Naddr - 1 /\ Len(p) <= 1 + Levels(p[1])'
        /\ \A k \in 2 .. Len(p) : p[k] \in 0 .. PER - 1
    BY <1>0, <1>6 DEF IsPath
  <2>3. p[1] = 0 => Levels(p[1])' = 1
    BY <1>1, <1>3, <1>6 DEF Levels
  <2>4. Len(p) \in Nat
    BY <2>2, LenProperties
  <2> QED BY <2>2, <2>3, <2>4
<1>13. <<0>> \in Paths' /\ \A j \in 0 .. PER - 1 : <<0, j>> \in Paths'
  <2>2. Levels(0)' = 1
    BY <1>1, <1>3, <1>6 DEF Levels
  <2>3. IsPath(<<0>>)'
    BY <1>3, <1>6, <2>2 DEF IsPath
  <2>4. \A j \in 0 .. PER - 1 : IsPath(<<0, j>>)'
    BY <1>3, <1>6, <2>2 DEF IsPath
  <2> QED BY <1>0, <1>6, <2>3, <2>4
<1> DEFINE Then(p) == Leads(i_addr', content', p)
<1> HIDE DEF moved
<1>14. ASSUME NEW p \in Paths'
       PROVE  /\ p[1] # 0 => Then(p) = 0
              /\ p[1] = 0 /\ Len(p) = 1 => Then(p) = b /\ p = <<0>>
              /\ p[1] = 0 /\ Len(p) # 1 => /\ Then(p) = moved[p[2]] /\ p = <<0, p[2]>>
                                           /\ p[2] \in 0 .. PER - 1
  <2>1. /\ p \in Seq(Nat) /\ p[1] \in 0 .. Naddr - 1
        /\ Len(p) \in Nat /\ Len(p) >= 1
        /\ p[1] = 0 => Len(p) <= 2
        /\ Len(p) >= 2 => p[2] \in 0 .. PER - 1
    BY <1>12
  <2>2. ASSUME p[1] # 0 PROVE Then(p) = 0
    BY <2>1, <2>2, <1>1, LeadsNowhere
  <2>3. ASSUME p[1] = 0, Len(p) = 1 PROVE Then(p) = b /\ p = <<0>>
    <3>1. Then(p) = b
      <4>1. i_addr'[p[1]] = b
        BY <2>1, <2>3, <1>1
      <4>2. Then(p) = i_addr'[p[1]]
        BY <2>3, LeadsOne
      <4> QED BY <4>1, <4>2
    <3>2. p = <<0>>
      BY <2>1, <2>3
    <3> QED BY <3>1, <3>2
  <2>4. ASSUME p[1] = 0, Len(p) # 1
        PROVE  Then(p) = moved[p[2]] /\ p = <<0, p[2]>> /\ p[2] \in 0 .. PER - 1
    <3>1. Len(p) = 2
      <4>1. \A n \in Nat : n >= 1 /\ n <= 2 /\ n # 1 => n = 2
        OBVIOUS
      <4> QED BY <2>1, <2>4, <4>1
    <3>2. i_addr'[p[1]] = b
      BY <2>1, <2>4, <1>1
    <3>3. Then(p) = content'[b][p[2]]
      BY <3>1, <3>2, <1>3 DEF Leads, Followed
    <3>4. p = <<0, p[2]>>
      BY <2>1, <2>4, <3>1
    <3> QED BY <2>1, <3>1, <3>3, <3>4, <1>8
  <2> HIDE DEF Then
  <2> QED BY <2>2, <2>3, <2>4
<1>15. \A j \in 0 .. PER - 1 : /\ j < Naddr => j \in 0 .. Naddr - 1 /\ moved[j] = i_addr[j]
                               /\ ~(j < Naddr) => moved[j] = 0
                               /\ moved[j] \in Owned \union {0}
  BY <1>3, <1>11 DEF moved
<1>16. \A j, k \in 0 .. PER - 1 : moved[j] # 0 /\ moved[j] = moved[k] => j = k
  BY <1>11, <1>15
<1>17. InTree'
  <2> HIDE DEF Then
  <2>1. \A p \in Paths' : Then(p) \in Owned' \union {0}
    BY <1>3, <1>14, <1>15
  <2>2. ASSUME NEW p \in Paths', NEW q \in Paths', Then(p) # 0, Then(p) = Then(q)
        PROVE  p = q
    <3>1. p[1] = 0 /\ q[1] = 0
      BY <2>2, <1>14
    <3>2. CASE Len(p) = 1 /\ Len(q) = 1
      BY <3>1, <3>2, <1>14
    <3>3. CASE Len(p) = 1 /\ Len(q) # 1
      BY <2>2, <3>1, <3>3, <1>3, <1>14, <1>15
    <3>4. CASE Len(p) # 1 /\ Len(q) = 1
      BY <2>2, <3>1, <3>4, <1>3, <1>14, <1>15
    <3>5. CASE Len(p) # 1 /\ Len(q) # 1
      <4>1. /\ p = <<0, p[2]>> /\ p[2] \in 0 .. PER - 1 /\ Then(p) = moved[p[2]]
            /\ q = <<0, q[2]>> /\ q[2] \in 0 .. PER - 1 /\ Then(q) = moved[q[2]]
        BY <3>1, <3>5, <1>14
      <4>2. p[2] = q[2]
        BY <2>2, <4>1, <1>16
      <4> QED BY <4>1, <4>2
    <3> QED BY <3>2, <3>3, <3>4, <3>5
  <2>3. ASSUME NEW x \in Owned' PROVE \E p \in Paths' : Then(p) = x
    <3>1. CASE x = b
      <4>1. Len(<<0>>) = 1 /\ <<0>>[1] = 0
        OBVIOUS
      <4> QED BY <3>1, <4>1, <1>13, <1>14
    <3>2. CASE x # b
      <4>1. x \in Owned
        BY <3>2, <1>3
      <4>2. PICK i \in 0 .. Naddr - 1 : i_addr[i] = x
        BY <4>1, <1>11
      <4>3. i \in 0 .. PER - 1 /\ i < Naddr
        BY <1>3
      <4>4. Len(<<0, i>>) # 1 /\ <<0, i>>[1] = 0 /\ <<0, i>>[2] = i
        OBVIOUS
      <4>5. <<0, i>> \in Paths' /\ Then(<<0, i>>) = moved[i] /\ moved[i] = x
        BY <4>2, <4>3, <4>4, <1>13, <1>14, <1>15
      <4> QED BY <4>5
    <3> QED BY <3>1, <3>2
  <2> QED BY <2>1, <2>2, <2>3, <1>5 DEF InTree, IsTree, Then
<1>18. \A bn \in Nat : ~TooBig(bn) =>
         /\ Reachable(bn)' /\ Path(bn)' \in Paths'
         /\ Then(Path(bn)') = IF bn < Naddr THEN i_addr[bn] ELSE 0
  <2> SUFFICES ASSUME NEW bn \in Nat, ~TooBig(bn)
               PROVE  /\ Reachable(bn)' /\ Path(bn)' \in Paths'
                      /\ Then(Path(bn)') = IF bn < Naddr THEN i_addr[bn] ELSE 0
    OBVIOUS
  <2>1. ~TooBig(bn)' /\ LargePath(bn)' = LargePath(bn)
    BY <1>1, KernelStays
  <2>2. Reachable(bn)' /\ Path(bn)' = LargePath(bn)
    BY <1>1, <1>6, <2>1 DEF Reachable, Path
  <2>4. LargePath(bn) \in Paths'
    BY <1>0, <1>6, <2>2
  <2> DEFINE h == bn \div PER
             r == bn % PER
  <2>5. h \in Nat /\ r \in 0 .. PER - 1 /\ bn = PER * h + r
    BY <1>3, Divided
  <2>6. CASE h = 0
    <3>1. LargePath(bn) = <<0, bn>> /\ bn \in 0 .. PER - 1
      <4>1. 0 < Naddr - 1 /\ PER * 0 = 0
        BY <1>3
      <4>2. bn = r
        BY <2>5, <2>6, <4>1
      <4> QED BY <2>5, <2>6, <4>1, <4>2 DEF LargePath
    <3>2. Len(<<0, bn>>) # 1 /\ <<0, bn>>[1] = 0 /\ <<0, bn>>[2] = bn
      OBVIOUS
    <3>3. Then(LargePath(bn)) = moved[bn]
      <4> HIDE DEF Then
      <4> QED BY <2>4, <3>1, <3>2, <1>14
    <3>4. moved[bn] = IF bn < Naddr THEN i_addr[bn] ELSE 0
      BY <3>1, <1>15
    <3> QED BY <2>2, <2>4, <3>3, <3>4
  <2>7. CASE h # 0
    <3>1. bn >= PER
      <4>1. PER * h >= PER
        BY <2>5, <2>7, <1>3
      <4> QED BY <4>1, <2>5, <1>3
    <3>2. LargePath(bn)[1] # 0
      <4> HIDE DEF h, r
      <4>1. h = bn \div PER /\ h \in Nat \ {0} /\ Naddr - 1 # 0
        BY <2>5, <2>7, <1>3 DEF h
      <4> QED BY <4>1 DEF LargePath
    <3>3. Then(LargePath(bn)) = 0
      BY <2>4, <3>2, <1>14
    <3> QED BY <2>2, <2>4, <3>1, <3>3, <1>3
  <2> QED BY <2>6, <2>7
<1>19. Answers'
  <2> SUFFICES ASSUME NEW l \in Asked
               PROVE  seen'[l] = IF Reachable(Bn(l))' THEN Holds(Path(Bn(l)))' ELSE 0
    BY DEF Answers
  <2>1. Bn(l) \in Nat
    BY <1>2, BnFacts
  <2>2. (Reachable(Bn(l))' <=> ~TooBig(Bn(l)))
    BY <1>1, <1>6, KernelStays DEF Reachable, TooBig, Bn
  <2>3. Path(Bn(l))' = LargePath(Bn(l)) /\ Path(Bn(l)) = <<Bn(l)>>
    BY <1>1, <1>2, <1>6 DEF Path, LargePath, Bn
  <2>4. seen[l] = IF ~TooBig(Bn(l)) /\ Bn(l) < Naddr THEN i_addr[Bn(l)] ELSE 0
    <3>1. seen[l] = IF Reachable(Bn(l)) THEN Holds(<<Bn(l)>>) ELSE 0
      BY <1>2, <2>3 DEF Answers
    <3>2. Reachable(Bn(l)) <=> ~TooBig(Bn(l)) /\ Bn(l) < Naddr
      BY <1>2, <1>3, <2>1 DEF Reachable
    <3>3. Bn(l) < Naddr => Holds(<<Bn(l)>>) = i_addr[Bn(l)]
      BY <1>3, <1>11, <2>1
    <3> QED BY <3>1, <3>2, <3>3
  <2>5. ~TooBig(Bn(l)) =>
          Then(LargePath(Bn(l))) = IF Bn(l) < Naddr THEN i_addr[Bn(l)] ELSE 0
    <3>1. \A bn : Path(bn)' = LargePath(bn)
      BY <1>1, <1>6, KernelStays DEF Path
    <3> HIDE DEF Then
    <3> QED BY <2>1, <3>1, <1>18
  <2>6. Holds(Path(Bn(l)))' = Then(LargePath(Bn(l)))
    BY <1>5, <2>3 DEF Holds
  <2> HIDE DEF Then
  <2> QED BY <1>1, <2>2, <2>4, <2>5, <2>6
<1>20. OnItsWay'
  <2>1. ~TooBig(call.bn) /\ call.write /\ call.bn \in Nat
    BY <1>2, <1>4 DEF OnItsWay, InProgress
  <2>2. ~TooBig(call.bn)' /\ ~Outgrown'
    BY <1>1, <1>6, <2>1, KernelStays DEF Bn, TooBig, Outgrown
  <2>3. Way' = LargePath(call.bn)
    BY <1>1, <1>6 DEF Way, Path, LargePath
  <2>4. Len(Way') >= 1
    BY <2>3, <1>6 DEF LargePath
  <2> QED BY <1>1, <1>4, <2>1, <2>2, <2>4 DEF OnItsWay
<1> QED BY <1>9, <1>17, <1>19, <1>20 DEF Good

-----------------------------------------------------------------------------
(* The invariant.                                                          *)

LEMMA GoodStep ==
  ASSUME Good, Next
  PROVE  (forgot' \/ Good') /\ (Good' \/ MappedStays')
<1>1. ASSUME NEW l \in Asked, NEW write \in BOOLEAN, Ask(l, write) PROVE Good'
  BY <1>1, AskStep
<1>2. CASE Found
  BY <1>2, FoundStep
<1>3. CASE Down
  BY <1>3, DownStep
<1>4. CASE Hole
  BY <1>4, HoleStep
<1>5. CASE NoSpace
  BY <1>5, NoSpaceStep
<1>6. ASSUME NEW b \in avail, Convert(b) PROVE Good'
  BY <1>6, ConvertStep
<1>7. ASSUME NEW b \in avail, Enter(b) PROVE Good'
  BY <1>7, EnterStep
<1>8. CASE Itrunc
  BY <1>8, ItruncStep
<1>9. ASSUME NEW last \in -1 .. MaxL, Itrunc211(last) PROVE Good'
  BY <1>9, Itrunc211Step
<1> QED BY <1>1, <1>2, <1>3, <1>4, <1>5, <1>6, <1>7, <1>8, <1>9 DEF Next

(* What has been forgotten stays so. *)
LEMMA StaysForgotten ==
  ASSUME forgot, [Next]_vars
  PROVE  forgot'
BY DEF Next, vars, Ask, Found, Down, Hole, NoSpace, Brelse, Convert, Enter, Itrunc, Itrunc211

LEMMA GoodStutter ==
  ASSUME Good, UNCHANGED vars
  PROVE  Good'
<1>1. UNCHANGED <<kernel, i_addr, ilarg, content, avail, call, seen, forgot>>
  BY DEF vars
<1>2. Now' = Now
  BY <1>1 DEF Now
<1>3. InTree' /\ Answers' /\ Typed'
  BY <1>1, <1>2, SameMap, SameKernel DEF Good, Typed
<1>4. OnItsWay'
  <2>1. /\ (TooBig(call.bn)' <=> TooBig(call.bn))
        /\ (V6' <=> V6) /\ Way' = Way
    BY <1>1, SameKernel DEF Way
  <2>2. Outgrown' <=> Outgrown
    BY <1>1, SameKernel DEF Outgrown
  <2>3. Holds(SubSeq(Way, 1, call.level - 1))' = Holds(SubSeq(Way, 1, call.level - 1))
    BY <1>1, <1>2, <2>1 DEF Holds
  <2> QED BY <1>1, <1>2, <2>1, <2>2, <2>3 DEF Good, OnItsWay
<1> QED BY <1>3, <1>4 DEF Good

LEMMA MapInvStep ==
  ASSUME MapInv, [Next]_vars
  PROVE  MapInv'
<1>1. CASE forgot
  BY <1>1, StaysForgotten DEF MapInv
<1>2. CASE Good /\ Next
  BY <1>2, GoodStep DEF MapInv
<1>3. CASE Good /\ UNCHANGED vars
  BY <1>3, GoodStutter DEF MapInv
<1> QED BY <1>1, <1>2, <1>3 DEF MapInv

(* Between calls of bmap and itrunc, whatever calls ran before, wherever   *)
(* each of them met a full volume and whatever the file was cut to, the    *)
(* blocks that are not free are those of the file's map, each in one place *)
(* of it: no block is lost and none is freed twice, as long as no cleared  *)
(* indirect block has been forgotten.                                      *)
THEOREM NoBlockIsLost == Spec => []BlocksAccounted
<1>1. Init => MapInv
  BY InitGood DEF MapInv
<1>2. MapInv /\ [Next]_vars => MapInv'
  BY MapInvStep
<1>3. MapInv => BlocksAccounted
  BY GoodAccounts DEF MapInv, BlocksAccounted
<1> QED BY <1>1, <1>2, <1>3, PTL DEF Spec

(* Between calls, each logical block of the file is where bmap last        *)
(* answered it was, and no other logical block shares it: through growth,  *)
(* V6's conversion to a large file, failures for want of space, and        *)
(* 2.11BSD's cuts.  It holds also just after a cleared indirect block has  *)
(* been forgotten, for what was mapped before; the hypothesis says that    *)
(* nothing is followed beyond that state.                                  *)
THEOREM FileStays == Spec /\ [][~forgot]_vars => []MappedStays
<1>1. Init => MapInv /\ MappedStays
  BY InitGood, GoodMaps DEF MapInv
<1>2. (Good => MappedStays)'
  BY GoodMaps, PTL
<1>3. MapInv /\ MappedStays /\ [Next]_vars /\ [~forgot]_vars => (MapInv /\ MappedStays)'
  <2> SUFFICES ASSUME MapInv, MappedStays, [Next]_vars, [~forgot]_vars
               PROVE  MapInv' /\ MappedStays'
    OBVIOUS
  <2>1. MapInv'
    BY MapInvStep
  <2>2. CASE UNCHANGED vars
    <3>1. UNCHANGED <<kernel, i_addr, ilarg, content, call, seen, forgot>>
      BY <2>2 DEF vars
    <3>2. /\ \A l : Mapped(l)' = Mapped(l) /\ Bn(l)' = Bn(l)
          /\ \A bn : TooBig(bn)' <=> TooBig(bn)
      BY <3>1, SameKernel DEF Mapped, At
    <3>3. MappedStays'
      <4> SUFFICES ASSUME call' = Idle, NEW l \in Asked
                   PROVE  /\ ~TooBig(Bn(l))' /\ (seen'[l] # 0 \/ ~forgot') => Mapped(l)' = seen'[l]
                          /\ seen'[l] # 0 => \A m \in Asked : seen'[m] = seen'[l] => Bn(m)' = Bn(l)'
        BY DEF MappedStays
      <4>1. /\ ~TooBig(Bn(l)) /\ (seen[l] # 0 \/ ~forgot) => Mapped(l) = seen[l]
            /\ seen[l] # 0 => \A m \in Asked : seen[m] = seen[l] => Bn(m) = Bn(l)
        BY <3>1 DEF MappedStays
      <4>2. TooBig(Bn(l))' <=> TooBig(Bn(l))
        BY <3>1, SameKernel DEF TooBig, Bn
      <4> QED BY <3>1, <3>2, <4>1, <4>2
    <3> QED BY <2>1, <3>3
  <2>3. CASE Next /\ Good
    BY <2>1, <2>3, <1>2, GoodStep
  <2>4. Next \/ UNCHANGED vars
    OBVIOUS
  <2>5. ~forgot \/ UNCHANGED vars
    OBVIOUS
  <2> QED BY <2>1, <2>2, <2>3, <2>4, <2>5 DEF MapInv
<1> QED BY <1>1, <1>3, PTL DEF Spec
=============================================================================
