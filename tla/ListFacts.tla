----------------------------- MODULE ListFacts -----------------------------
(***************************************************************************)
(* Facts about lists whose elements are all different: what adding and     *)
(* unlinking one of them leaves.  The lists of available buffers and of    *)
(* free inode slots are such lists.                                        *)
(***************************************************************************)
EXTENDS SequencesExt, SequenceTheorems, WellFoundedInduction, TLAPS

OnList(s, x) == \E k \in 1 .. Len(s) : s[k] = x

Distinct(s) == \A k, l \in 1 .. Len(s) : s[k] = s[l] => k = l

(* Unlinking an element that is on the list once leaves the others.        *)
LEMMA RemoveOne ==
  ASSUME NEW S, NEW s \in Seq(S), NEW k \in 1 .. Len(s), Distinct(s)
  PROVE  /\ RemoveFirst(s, s[k]) \in Seq(S)
         /\ Len(RemoveFirst(s, s[k])) = Len(s) - 1
         /\ \A l \in 1 .. Len(s) - 1 :
              RemoveFirst(s, s[k])[l] = IF l < k THEN s[l] ELSE s[l + 1]
<1> DEFINE a == SubSeq(s, 1, k - 1)
           b == SubSeq(s, k + 1, Len(s))
<1>0. Len(s) \in Nat
  BY LenProperties
<1>1. RemoveFirst(s, s[k]) = a \o b
  <2> DEFINE I == {l \in 1 .. Len(s) : s[l] = s[k]}
  <2>1. I = {k}
    BY DEF Distinct
  <2>2. SelectInSeq(s, LAMBDA v : v = s[k]) = k
    BY <2>1 DEF SelectInSeq, Min
  <2> QED BY <2>2 DEF RemoveFirst, RemoveAt
<1>2. /\ a \in Seq(S) /\ Len(a) = k - 1
      /\ \A l \in 1 .. k - 1 : a[l] = s[l]
  BY SubSeqProperties
<1>3. /\ b \in Seq(S) /\ Len(b) = Len(s) - k
      /\ \A l \in 1 .. Len(s) - k : b[l] = s[l + k]
  BY SubSeqProperties
<1> HIDE DEF a, b
<1>4. /\ a \o b \in Seq(S) /\ Len(a \o b) = Len(s) - 1
      /\ \A l \in 1 .. Len(s) - 1 : (a \o b)[l] = IF l < k THEN s[l] ELSE s[l + 1]
  <2>1. /\ a \o b \in Seq(S) /\ Len(a \o b) = Len(s) - 1
        /\ \A l \in 1 .. Len(a) + Len(b) :
             (a \o b)[l] = IF l <= Len(a) THEN a[l] ELSE b[l - Len(a)]
    <3>1. a \in Seq(S) /\ b \in Seq(S) /\ Len(a) + Len(b) = Len(s) - 1
      BY <1>0, <1>2, <1>3
    <3> QED BY <3>1, ConcatProperties
  <2>2. ASSUME NEW l \in 1 .. Len(s) - 1
        PROVE  (a \o b)[l] = IF l < k THEN s[l] ELSE s[l + 1]
    <3>1. CASE l < k
      BY <3>1, <2>1, <1>2, <1>3
    <3>2. CASE l >= k
      <4>1. l - (k - 1) \in 1 .. Len(s) - k /\ (l - (k - 1)) + k = l + 1
        BY <3>2
      <4>2. (a \o b)[l] = b[l - (k - 1)]
        BY <3>2, <2>1, <1>2, <1>3
      <4> QED BY <4>1, <4>2, <3>2, <1>3
    <3>3. l < k \/ l >= k
      BY <1>0
    <3> QED BY <3>1, <3>2, <3>3
  <2> QED BY <2>1, <2>2
<1> QED BY <1>1, <1>4

LEMMA Removes ==
  ASSUME NEW S, NEW s \in Seq(S), Distinct(s), NEW x
  PROVE  /\ RemoveFirst(s, x) \in Seq(S) /\ Distinct(RemoveFirst(s, x))
         /\ \A y : OnList(RemoveFirst(s, x), y) <=> OnList(s, y) /\ y # x
<1>1. CASE ~OnList(s, x)
  <2>1. RemoveFirst(s, x) = s
    BY <1>1 DEF RemoveFirst, OnList
  <2> QED BY <2>1, <1>1
<1>2. CASE OnList(s, x)
  <2> PICK k \in 1 .. Len(s) : s[k] = x
    BY <1>2 DEF OnList
  <2> DEFINE r == RemoveFirst(s, x)
  <2>1. /\ r \in Seq(S) /\ Len(r) = Len(s) - 1
        /\ \A l \in 1 .. Len(s) - 1 : r[l] = IF l < k THEN s[l] ELSE s[l + 1]
    BY RemoveOne
  <2> HIDE DEF r
  <2>2. Distinct(r)
    BY <2>1 DEF Distinct
  <2>3. ASSUME NEW y PROVE OnList(r, y) <=> OnList(s, y) /\ y # x
    <3>1. ASSUME NEW l \in 1 .. Len(s), s[l] = y, y # x PROVE OnList(r, y)
      <4>1. CASE l < k
        BY <4>1, <3>1, <2>1 DEF OnList
      <4>2. CASE l > k
        <5>1. l - 1 \in 1 .. Len(r) /\ r[l - 1] = y
          BY <4>2, <3>1, <2>1
        <5> QED BY <5>1 DEF OnList
      <4> QED BY <4>1, <4>2, <3>1
    <3>2. ASSUME NEW l \in 1 .. Len(r), r[l] = y PROVE OnList(s, y) /\ y # x
      BY <3>2, <2>1 DEF OnList, Distinct
    <3> QED BY <3>1, <3>2 DEF OnList
  <2> QED BY <2>1, <2>2, <2>3 DEF r
<1> QED BY <1>1, <1>2

LEMMA Appends ==
  ASSUME NEW S, NEW s \in Seq(S), Distinct(s), NEW x \in S, ~OnList(s, x)
  PROVE  /\ Append(s, x) \in Seq(S) /\ Distinct(Append(s, x))
         /\ \A y : OnList(Append(s, x), y) <=> OnList(s, y) \/ y = x
BY AppendProperties DEF Distinct, OnList

LEMMA Prepends ==
  ASSUME NEW S, NEW s \in Seq(S), Distinct(s), NEW x \in S, ~OnList(s, x)
  PROVE  /\ <<x>> \o s \in Seq(S) /\ Distinct(<<x>> \o s)
         /\ \A y : OnList(<<x>> \o s, y) <=> OnList(s, y) \/ y = x
<1> DEFINE r == <<x>> \o s
<1>1. /\ r \in Seq(S) /\ Len(r) = Len(s) + 1
      /\ \A l \in 1 .. Len(s) + 1 : r[l] = IF l = 1 THEN x ELSE s[l - 1]
  BY ConcatProperties
<1> HIDE DEF r
<1>2. Distinct(r)
  BY <1>1 DEF Distinct, OnList
<1>3. ASSUME NEW y PROVE OnList(r, y) <=> OnList(s, y) \/ y = x
  <2>1. OnList(r, x)
    BY <1>1 DEF OnList
  <2>2. ASSUME NEW l \in 1 .. Len(s), s[l] = y PROVE OnList(r, y)
    <3>1. l + 1 \in 1 .. Len(r) /\ r[l + 1] = y
      BY <1>1, <2>2
    <3> QED BY <3>1 DEF OnList
  <2>3. ASSUME NEW l \in 1 .. Len(r), r[l] = y PROVE OnList(s, y) \/ y = x
    BY <1>1, <2>3 DEF OnList
  <2> QED BY <2>1, <2>2, <2>3 DEF OnList
<1> QED BY <1>1, <1>2, <1>3 DEF r

(* One list after another. *)
LEMMA JoinedOn ==
  ASSUME NEW S, NEW s \in Seq(S), NEW t \in Seq(S), NEW x
  PROVE  OnList(s \o t, x) <=> OnList(s, x) \/ OnList(t, x)
<1> DEFINE r == s \o t
<1>1. /\ Len(s) \in Nat /\ Len(t) \in Nat /\ Len(r) = Len(s) + Len(t)
      /\ \A k \in 1 .. Len(s) + Len(t) : r[k] = IF k <= Len(s) THEN s[k] ELSE t[k - Len(s)]
  BY LenProperties, ConcatProperties
<1> HIDE DEF r
<1>2. ASSUME NEW k \in 1 .. Len(r), r[k] = x PROVE OnList(s, x) \/ OnList(t, x)
  <2>1. CASE k <= Len(s)
    BY <2>1, <1>1, <1>2 DEF OnList
  <2>2. CASE ~(k <= Len(s))
    <3>1. k - Len(s) \in 1 .. Len(t) /\ t[k - Len(s)] = x
      BY <2>2, <1>1, <1>2
    <3> QED BY <3>1 DEF OnList
  <2> QED BY <2>1, <2>2
<1>3. ASSUME NEW k \in 1 .. Len(s), s[k] = x PROVE OnList(r, x)
  <2>1. k \in 1 .. Len(r) /\ r[k] = x
    BY <1>1, <1>3
  <2> QED BY <2>1 DEF OnList
<1>4. ASSUME NEW k \in 1 .. Len(t), t[k] = x PROVE OnList(r, x)
  <2>1. k + Len(s) \in 1 .. Len(r) /\ r[k + Len(s)] = x
    BY <1>1, <1>4
  <2> QED BY <2>1 DEF OnList
<1> QED BY <1>2, <1>3, <1>4 DEF OnList, r

LEMMA JoinedDistinct ==
  ASSUME NEW S, NEW s \in Seq(S), NEW t \in Seq(S), Distinct(s), Distinct(t),
         \A x \in S : ~(OnList(s, x) /\ OnList(t, x))
  PROVE  Distinct(s \o t)
<1> DEFINE r == s \o t
<1>1. /\ Len(s) \in Nat /\ Len(t) \in Nat /\ Len(r) = Len(s) + Len(t)
      /\ \A k \in 1 .. Len(s) + Len(t) : r[k] = IF k <= Len(s) THEN s[k] ELSE t[k - Len(s)]
  BY LenProperties, ConcatProperties
<1>2. ASSUME NEW k \in 1 .. Len(s), NEW l \in 1 .. Len(t) PROVE s[k] # t[l]
  BY <1>2 DEF OnList
<1> HIDE DEF r
<1>3. ASSUME NEW k \in 1 .. Len(r), NEW l \in 1 .. Len(r), r[k] = r[l] PROVE k = l
  <2>1. CASE k <= Len(s) /\ l <= Len(s)
    BY <2>1, <1>1, <1>3 DEF Distinct
  <2>2. CASE k <= Len(s) /\ ~(l <= Len(s))
    BY <2>2, <1>1, <1>2, <1>3
  <2>3. CASE ~(k <= Len(s)) /\ l <= Len(s)
    BY <2>3, <1>1, <1>2, <1>3
  <2>4. CASE ~(k <= Len(s)) /\ ~(l <= Len(s))
    <3>1. k - Len(s) \in 1 .. Len(t) /\ l - Len(s) \in 1 .. Len(t)
          /\ t[k - Len(s)] = t[l - Len(s)]
      BY <2>4, <1>1, <1>3
    <3> QED BY <3>1, <1>1 DEF Distinct
  <2> QED BY <2>1, <2>2, <2>3, <2>4
<1> QED BY <1>3 DEF Distinct, r

(* The least of a set of numbers: what a search from the front finds, and  *)
(* the way to argue by induction here.                                     *)
LEMMA LeastNatural ==
  ASSUME NEW T, T \subseteq Nat, T # {}
  PROVE  \E m \in T : \A k \in T : m <= k
<1> DEFINE R == OpToRel(<, Nat)
<1>1. IsWellFoundedOn(R, Nat)
  BY NatLessThanWellFounded
<1>2. \A k, m \in Nat : <<k, m>> \in R <=> k < m
  BY DEF OpToRel
<1> HIDE DEF R
<1>3. PICK m \in T : \A k \in T : ~(<<k, m>> \in R)
  BY <1>1, WFMin
<1>4. ASSUME NEW k \in T PROVE m <= k
  <2>1. k \in Nat /\ m \in Nat /\ ~(<<k, m>> \in R)
    BY <1>3
  <2>2. ~(k < m)
    BY <2>1, <1>2
  <2> QED BY <2>1, <2>2
<1> QED BY <1>4
=============================================================================
