-------------------------- MODULE NamespaceProofs ---------------------------
(***************************************************************************)
(* Proofs about the names of a V6, V7 or 2.9BSD volume, for any number of  *)
(* inodes and names and paths of any length.                               *)
(***************************************************************************)
EXTENDS Namespace, ListFacts, FiniteSetTheorems

(* A volume, as the system calls take it and leave it. *)
IsVolume(v) ==
  /\ DOMAIN v = {"kind", "nlink", "entry", "blocks"}
  /\ v.kind \in [Inos -> {"free", "file", "dir"}]
  /\ v.nlink \in [Inos -> Int]
  /\ v.entry \in [Inos -> [Components -> Inos \union {0}]]
  /\ v.blocks \in [Inos -> Int]

-----------------------------------------------------------------------------
(* namei: the walk along a path.                                           *)

IsWalk(v, p, at) ==
  at = [k \in 0 .. Len(p) |-> IF k = 0 THEN ROOT ELSE Step(v, at[k - 1], p[k])]

LEMMA WalkExists ==
  ASSUME NEW v, NEW p, Len(p) \in Nat
  PROVE  \E at : IsWalk(v, p, at)
<1> DEFINE Upto(n, at) ==
      at = [k \in 0 .. n |-> IF k = 0 THEN ROOT ELSE Step(v, at[k - 1], p[k])]
           None == {n \in Nat : ~\E at : Upto(n, at)}
<1>1. SUFFICES None = {}
  BY DEF IsWalk
<1>2. SUFFICES ASSUME None # {} PROVE FALSE
  OBVIOUS
<1>3. PICK n \in None : \A k \in None : n <= k
  <2>1. None \subseteq Nat
    OBVIOUS
  <2> HIDE DEF None
  <2> QED BY <1>2, <2>1, LeastNatural
<1>4. n \in Nat /\ ~\E at : Upto(n, at)
  BY <1>3
<1>5. CASE n = 0
  <2> DEFINE at == [k \in 0 .. 0 |-> ROOT]
  <2>1. at = [k \in 0 .. 0 |-> IF k = 0 THEN ROOT ELSE Step(v, at[k - 1], p[k])]
    OBVIOUS
  <2>2. Upto(0, at)
    BY <2>1
  <2> QED BY <1>4, <1>5, <2>2
<1>6. CASE n > 0
  <2>1. n - 1 \in Nat /\ ~(n <= n - 1)
    BY <1>4, <1>6
  <2>0. n - 1 \notin None
    <3> HIDE DEF None
    <3> QED BY <2>1, <1>3
  <2>2. PICK at : Upto(n - 1, at)
    BY <2>1, <2>0
  <2> DEFINE to == [k \in 0 .. n |-> IF k = n THEN Step(v, at[n - 1], p[n]) ELSE at[k]]
  <2>3. \A k \in 0 .. n - 1 : to[k] = at[k]
    BY <1>4
  <2>4. \A k \in 0 .. n : to[k] = IF k = 0 THEN ROOT ELSE Step(v, to[k - 1], p[k])
    <3>1. ASSUME NEW k \in 0 .. n - 1
          PROVE  at[k] = IF k = 0 THEN ROOT ELSE Step(v, at[k - 1], p[k])
      BY <2>2
    <3>2. ASSUME NEW k \in 0 .. n - 1
          PROVE  to[k] = IF k = 0 THEN ROOT ELSE Step(v, to[k - 1], p[k])
      <4>1. CASE k = 0
        BY <4>1, <3>1, <2>3
      <4>2. CASE k # 0
        <5>1. k - 1 \in 0 .. n - 1
          BY <4>2, <1>4
        <5> QED BY <5>1, <4>2, <3>1, <2>3
      <4> QED BY <4>1, <4>2
    <3>3. n - 1 \in 0 .. n - 1 /\ n # 0
      BY <1>4, <1>6
    <3>4. to[n] = Step(v, to[n - 1], p[n])
      BY <3>3, <2>3, <1>4
    <3>5. \A k \in 0 .. n : k \in 0 .. n - 1 \/ k = n
      BY <1>4
    <3> HIDE DEF to
    <3> QED BY <3>2, <3>3, <3>4, <3>5
  <2>5. to = [k \in 0 .. n |-> IF k = 0 THEN ROOT ELSE Step(v, to[k - 1], p[k])]
    <3>1. to = [k \in 0 .. n |-> to[k]]
      OBVIOUS
    <3> HIDE DEF to
    <3> QED BY <3>1, <2>4
  <2>6. Upto(n, to)
    BY <2>5
  <2> QED BY <1>4, <2>6
<1> QED BY <1>4, <1>5, <1>6

(* There is one walk, and namei comes to its end. *)
Walks(v, p, n, at) ==
  at[0] = ROOT /\ \A k \in 1 .. n : at[k] = Step(v, at[k - 1], p[k])

LEMMA NameiWalks ==
  ASSUME NEW v, NEW p, Len(p) \in Nat
  PROVE  \E at : Namei(v, p) = at[Len(p)] /\ Walks(v, p, Len(p), at)
<1> DEFINE w == CHOOSE at : IsWalk(v, p, at)
<1>1. IsWalk(v, p, w)
  BY WalkExists
<1>2. Namei(v, p) = w[Len(p)]
  BY DEF Namei, IsWalk
<1> HIDE DEF w
<1> QED BY <1>1, <1>2 DEF IsWalk, Walks

(* Two walks agree for as long as their steps do. *)
SameSteps(v, p, w, q, n, at) ==
  \A k \in 1 .. n : Step(v, at[k - 1], p[k]) = Step(w, at[k - 1], q[k])

LEMMA SameWalk ==
  ASSUME NEW v, NEW w, NEW p, NEW q, NEW n \in Nat, NEW at, NEW bt,
         Walks(v, p, n, at), Walks(w, q, n, bt), SameSteps(v, p, w, q, n, at)
  PROVE  at[n] = bt[n]
<1> DEFINE Apart == {k \in 0 .. n : at[k] # bt[k]}
<1>1. SUFFICES Apart = {}
  OBVIOUS
<1>2. SUFFICES ASSUME Apart # {} PROVE FALSE
  OBVIOUS
<1>3. Apart \subseteq Nat /\ Apart \subseteq 0 .. n /\ \A k \in 0 .. n : k \notin Apart => at[k] = bt[k]
  OBVIOUS
<1>4. \A k \in Apart : at[k] # bt[k]
  OBVIOUS
<1> HIDE DEF Apart
<1>5. PICK m \in Apart : \A k \in Apart : m <= k
  BY <1>2, <1>3, LeastNatural
<1>6. m \in 1 .. n /\ m - 1 \in 0 .. n /\ ~(m <= m - 1)
  BY <1>3, <1>4, <1>5 DEF Walks
<1>7. at[m - 1] = bt[m - 1]
  BY <1>3, <1>5, <1>6
<1> QED BY <1>4, <1>5, <1>6, <1>7 DEF Walks, SameSteps

LEMMA DirnameType ==
  ASSUME NEW S, NEW p \in Seq(S), p # <<>>
  PROVE  /\ Dirname(p) \in Seq(S) /\ Len(Dirname(p)) = Len(p) - 1 /\ Len(p) - 1 \in Nat
         /\ \A k \in 1 .. Len(p) - 1 : Dirname(p)[k] = p[k]
         /\ Last(p) \in S
<1>1. Len(p) \in Nat /\ Len(p) # 0
  BY LenProperties, EmptySeq
<1>2. Dirname(p) = SubSeq(p, 1, Len(p) - 1)
  BY DEF Dirname, Front
<1>3. \A k \in 1 .. Len(p) - 1 : p[k] \in S
  BY <1>1, ElementOfSeq
<1>4. SubSeq(p, 1, Len(p) - 1) \in Seq(S)
  BY <1>1, <1>3, SubSeqProperties
<1>5. Len(SubSeq(p, 1, Len(p) - 1)) = Len(p) - 1
  <2>1. PICK n \in Nat : n = Len(p) - 1
    BY <1>1
  <2>2. \A k \in 1 .. n : p[k] \in S
    BY <1>3, <2>1
  <2>3. Len(SubSeq(p, 1, n)) = IF 1 <= n THEN n - 1 + 1 ELSE 0
    BY <2>2, SubSeqProperties
  <2> QED BY <2>1, <2>3
<1>6. \A k \in 1 .. Len(p) - 1 : SubSeq(p, 1, Len(p) - 1)[k] = p[k]
  <2>1. \A k \in 1 .. (Len(p) - 1) - 1 + 1 : SubSeq(p, 1, Len(p) - 1)[k] = p[1 + k - 1]
    BY <1>1, <1>3, SubSeqProperties
  <2>2. (Len(p) - 1) - 1 + 1 = Len(p) - 1 /\ \A k \in 1 .. Len(p) - 1 : 1 + k - 1 = k
    BY <1>1
  <2> QED BY <2>1, <2>2
<1>7. Last(p) \in S
  BY <1>1, ElementOfSeq DEF Last
<1> QED BY <1>1, <1>2, <1>4, <1>5, <1>6, <1>7

(* namei goes by the directory that holds the name, *)
LEMMA NameiStep ==
  ASSUME NEW v, NEW S, NEW p \in Seq(S)
  PROVE  /\ p = <<>> => Namei(v, p) = ROOT
         /\ p # <<>> => Namei(v, p) = Step(v, Namei(v, Dirname(p)), Last(p))
<1>0. Len(p) \in Nat
  BY LenProperties
<1>1. CASE p = <<>>
  BY <1>1, <1>0, EmptySeq, NameiWalks DEF Walks
<1>2. CASE p # <<>>
  <2> DEFINE n == Len(p) - 1
             q == Dirname(p)
  <2>1. n \in Nat /\ q \in Seq(S) /\ Len(q) = n /\ \A k \in 1 .. n : q[k] = p[k]
    BY <1>2, DirnameType
  <2>2. PICK at : Namei(v, p) = at[n + 1] /\ Walks(v, p, n + 1, at)
    <3>1. Len(p) = n + 1
      BY <1>0
    <3> HIDE DEF n
    <3> QED BY <3>1, <1>0, NameiWalks
  <2>3. PICK bt : Namei(v, q) = bt[n] /\ Walks(v, q, n, bt)
    BY <2>1, NameiWalks
  <2> HIDE DEF q
  <2>4. at[n] = bt[n]
    <3>1. Walks(v, p, n, at)
      BY <2>1, <2>2 DEF Walks
    <3>2. SameSteps(v, p, v, q, n, at)
      BY <2>1 DEF SameSteps
    <3> QED BY <3>1, <3>2, <2>1, <2>2, <2>3, SameWalk
  <2>5. at[n + 1] = Step(v, at[n], p[n + 1])
    <3>1. n + 1 \in 1 .. n + 1 /\ (n + 1) - 1 = n
      BY <2>1
    <3> QED BY <3>1, <2>2 DEF Walks
  <2>6. p[n + 1] = Last(p)
    BY <1>0 DEF Last
  <2> QED BY <1>2, <2>2, <2>3, <2>4, <2>5, <2>6 DEF q
<1> QED BY <1>1, <1>2

LEMMA StepType ==
  ASSUME NEW v, IsVolume(v), NEW d \in Inos \union {0}, NEW n \in Components
  PROVE  /\ Step(v, d, n) \in Inos \union {0}
         /\ Step(v, d, n) # 0 =>
              d \in Inos /\ v.kind[d] = "dir" /\ v.entry[d][n] = Step(v, d, n)
BY DEF Step, IsVolume

LEMMA WalkType ==
  ASSUME NEW v, IsVolume(v), NEW p \in Seq(Components), NEW at, Walks(v, p, Len(p), at)
  PROVE  \A k \in 0 .. Len(p) : at[k] \in Inos \union {0}
<1>0. Len(p) \in Nat /\ \A k \in 1 .. Len(p) : p[k] \in Components
  BY LenProperties, ElementOfSeq
<1> DEFINE Wrong == {k \in 0 .. Len(p) : at[k] \notin Inos \union {0}}
<1>1. SUFFICES ASSUME Wrong # {} PROVE FALSE
  OBVIOUS
<1>2. /\ Wrong \subseteq Nat /\ Wrong \subseteq 0 .. Len(p)
      /\ \A k \in 0 .. Len(p) : k \notin Wrong => at[k] \in Inos \union {0}
      /\ \A k \in Wrong : at[k] \notin Inos \union {0}
  OBVIOUS
<1> HIDE DEF Wrong
<1>3. PICK m \in Wrong : \A k \in Wrong : m <= k
  BY <1>0, <1>1, <1>2, LeastNatural
<1>4. m \in 1 .. Len(p) /\ m - 1 \in 0 .. Len(p) /\ ~(m <= m - 1)
  BY <1>0, <1>2, <1>3, NamespaceAssumption DEF Walks
<1>5. at[m - 1] \in Inos \union {0}
  BY <1>2, <1>3, <1>4
<1>6. at[m] = Step(v, at[m - 1], p[m]) /\ p[m] \in Components
  BY <1>0, <1>4 DEF Walks
<1> QED BY <1>2, <1>3, <1>5, <1>6, StepType

LEMMA NameiType ==
  ASSUME NEW v, IsVolume(v), NEW p \in Seq(Components)
  PROVE  Namei(v, p) \in Inos \union {0}
<1>1. Len(p) \in Nat
  BY LenProperties
<1>2. PICK at : Namei(v, p) = at[Len(p)] /\ Walks(v, p, Len(p), at)
  BY <1>1, NameiWalks
<1> QED BY <1>1, <1>2, WalkType

(* namei goes the same way in two volumes that agree on the names of the path. *)
LEMMA NameiFrame ==
  ASSUME NEW v, IsVolume(v), NEW w, NEW S, S \subseteq Components, NEW p \in Seq(S),
         \A n \in S, d \in Inos \union {0} : Step(v, d, n) = Step(w, d, n)
  PROVE  Namei(v, p) = Namei(w, p)
<1>0. Len(p) \in Nat /\ \A k \in 1 .. Len(p) : p[k] \in S
  BY LenProperties, ElementOfSeq
<1>1. PICK at : Namei(v, p) = at[Len(p)] /\ Walks(v, p, Len(p), at)
  BY <1>0, NameiWalks
<1>2. PICK bt : Namei(w, p) = bt[Len(p)] /\ Walks(w, p, Len(p), bt)
  BY <1>0, NameiWalks
<1>3. p \in Seq(Components)
  BY SeqMonotonic
<1>4. \A k \in 0 .. Len(p) : at[k] \in Inos \union {0}
  BY <1>1, <1>3, WalkType
<1>5. SameSteps(v, p, w, p, Len(p), at)
  <2>1. \A k \in 1 .. Len(p) : k - 1 \in 0 .. Len(p)
    BY <1>0
  <2> QED BY <2>1, <1>0, <1>4 DEF SameSteps
<1> QED BY <1>0, <1>1, <1>2, <1>5, SameWalk

(* What a path names, a directory has an entry for; and the directory of a *)
(* name to be made or removed is one.                                      *)
LEMMA NamedByEntry ==
  ASSUME NEW v, IsVolume(v), NEW p \in Seq(Components), p # <<>>
  PROVE  /\ Pdir(v, p) \in Inos \union {0}
         /\ Pdir(v, p) # 0 => v.kind[Pdir(v, p)] = "dir"
         /\ Last(p) \in Components
         /\ Namei(v, p) = IF Pdir(v, p) = 0 THEN 0 ELSE v.entry[Pdir(v, p)][Last(p)]
<1>1. Dirname(p) \in Seq(Components) /\ Last(p) \in Components
  BY DirnameType
<1>2. Namei(v, Dirname(p)) \in Inos \union {0}
  BY <1>1, NameiType
<1>3. Namei(v, p) = Step(v, Namei(v, Dirname(p)), Last(p))
  BY NameiStep
<1> QED BY <1>1, <1>2, <1>3 DEF Pdir, Step

-----------------------------------------------------------------------------
(* The entries for an inode, counted.                                      *)

EntryMaps == [Inos -> [Components -> Inos \union {0}]]

Ents(e, i) == {x \in Inos \X Components : e[x[1]][x[2]] = i}

Count(e, i) == Cardinality(Ents(e, i))

Bit(b) == IF b THEN 1 ELSE 0

Written(e, d, n, x) == [e EXCEPT ![d][n] = x]

LEMMA WrittenAt ==
  ASSUME NEW e \in EntryMaps, NEW d \in Inos, NEW n \in Components, NEW x
  PROVE  \A c \in Inos, m \in Components :
           Written(e, d, n, x)[c][m] = IF c = d /\ m = n THEN x ELSE e[c][m]
BY DEF EntryMaps, Written

LEMMA EntsFinite ==
  ASSUME NEW e, NEW i
  PROVE  IsFiniteSet(Ents(e, i)) /\ Count(e, i) \in Nat
<1>1. IsFiniteSet(Inos \X Components)
  <2>1. IsFiniteSet({".", ".."})
    <3>1. IsFiniteSet({"."})
      BY FS_Singleton
    <3>2. IsFiniteSet({"."} \union {".."}) /\ {"."} \union {".."} = {".", ".."}
      BY <3>1, FS_AddElement
    <3> QED BY <3>2
  <2>2. IsFiniteSet(Components)
    BY <2>1, FS_Union, NamespaceAssumption DEF Components
  <2> QED BY <2>2, FS_Product, NamespaceAssumption
<1>2. IsFiniteSet(Ents(e, i))
  BY <1>1, FS_Subset DEF Ents
<1> QED BY <1>2, FS_CardinalityType DEF Count

LEMMA EntryCounts ==
  ASSUME NEW e, NEW d \in Inos, NEW n \in Components
  PROVE  Count(e, e[d][n]) # 0
<1>1. <<d, n>> \in Ents(e, e[d][n])
  BY DEF Ents
<1> QED BY <1>1, EntsFinite, FS_EmptySet DEF Count

(* An entry written anew counts for what it names, and no more for what it *)
(* named.                                                                  *)
LEMMA EntryWritten ==
  ASSUME NEW e \in EntryMaps, NEW d \in Inos, NEW n \in Components, NEW x,
         e[d][n] # x, NEW i
  PROVE  Count(Written(e, d, n, x), i)
           = Count(e, i) + Bit(i = x) - Bit(i = e[d][n])
<1> DEFINE f == Written(e, d, n, x)
<1>1. \A c \in Inos, m \in Components :
        f[c][m] = IF c = d /\ m = n THEN x ELSE e[c][m]
  BY DEF EntryMaps, Written
<1> HIDE DEF f
<1>2. CASE i = x
  <2>1. Ents(f, i) = Ents(e, i) \union {<<d, n>>} /\ <<d, n>> \notin Ents(e, i)
    BY <1>1, <1>2 DEF Ents
  <2>2. Count(f, i) = Count(e, i) + 1
    BY <2>1, EntsFinite, FS_AddElement DEF Count
  <2> QED BY <2>2, <1>2, EntsFinite DEF Bit, f
<1>3. CASE i = e[d][n]
  <2>1. Ents(f, i) = Ents(e, i) \ {<<d, n>>} /\ <<d, n>> \in Ents(e, i)
    BY <1>1, <1>3 DEF Ents
  <2>2. Count(f, i) = Count(e, i) - 1
    BY <2>1, EntsFinite, FS_RemoveElement DEF Count
  <2> QED BY <2>2, <1>3, EntsFinite DEF Bit, f
<1>4. CASE i # x /\ i # e[d][n]
  <2>1. Ents(f, i) = Ents(e, i)
    BY <1>1, <1>4 DEF Ents
  <2> QED BY <2>1, <1>4, EntsFinite DEF Count, Bit, f
<1> QED BY <1>2, <1>3, <1>4

(* The entries of a directory that goes are gone. *)
LEMMA EntriesGone ==
  ASSUME NEW e \in EntryMaps, NEW d \in Inos, NEW i \in Inos
  PROVE  Count([e EXCEPT ![d] = NoEntries], i) <= Count(e, i)
<1> DEFINE f == [e EXCEPT ![d] = NoEntries]
<1>1. \A c \in Inos, m \in Components : f[c][m] = IF c = d THEN 0 ELSE e[c][m]
  BY DEF EntryMaps, NoEntries
<1> HIDE DEF f
<1>2. Ents(f, i) \subseteq Ents(e, i)
  BY <1>1, NamespaceAssumption DEF Ents
<1> QED BY <1>2, EntsFinite, FS_Subset DEF Count, f

-----------------------------------------------------------------------------
(* The system calls.                                                       *)

(* The links of every inode but x cover its entries, and x is one short.   *)
Covered(v, x) ==
  \A i \in Inos : /\ v.kind[i] = "free" => Count(v.entry, i) = 0
                  /\ Count(v.entry, i) <= v.nlink[i] + Bit(i = x)

Sound(v) == IsVolume(v) /\ v.kind[ROOT] = "dir" /\ Covered(v, 0)

LEMMA SoundAt ==
  ASSUME NEW v, Sound(v), NEW i \in Inos
  PROVE  /\ v.kind[i] = "free" => Count(v.entry, i) = 0
         /\ Count(v.entry, i) <= v.nlink[i]
<1>1. v.nlink[i] \in Int /\ Bit(i = 0) = 0
  BY NamespaceAssumption DEF Sound, IsVolume, Bit
<1> QED BY <1>1 DEF Sound, Covered

(* iput leaves an inode alone that has an entry. *)
LEMMA IputKeeps ==
  ASSUME NEW v, Sound(v), NEW i \in Inos, i # ROOT => Count(v.entry, i) # 0
  PROVE  Iput(v, i) = v
<1>1. v.nlink[i] \in Int /\ Count(v.entry, i) \in Nat /\ Count(v.entry, i) <= v.nlink[i]
  BY SoundAt, EntsFinite DEF Sound, IsVolume
<1> QED BY <1>1 DEF Iput

LEMMA IputSound ==
  ASSUME NEW v, Sound(v), NEW i \in Inos
  PROVE  Sound(Iput(v, i))
<1>1. CASE v.nlink[i] <= 0 /\ i # ROOT
  <2> DEFINE w == [v EXCEPT !.kind[i] = "free", !.entry[i] = NoEntries, !.blocks[i] = 0]
  <2>1. Iput(v, i) = w
    BY <1>1 DEF Iput
  <2>2. /\ w.kind = [v.kind EXCEPT ![i] = "free"] /\ w.nlink = v.nlink
        /\ w.entry = [v.entry EXCEPT ![i] = NoEntries]
    BY DEF Sound, IsVolume
  <2>3. IsVolume(w)
    <3>1. NoEntries \in [Components -> Inos \union {0}]
      BY DEF NoEntries
    <3> QED BY <3>1 DEF Sound, IsVolume
  <2> HIDE DEF w
  <2>4. v.entry \in EntryMaps /\ v.kind \in [Inos -> {"free", "file", "dir"}]
        /\ v.nlink \in [Inos -> Int]
    BY DEF Sound, IsVolume, EntryMaps
  <2>5. ASSUME NEW j \in Inos
        PROVE  /\ w.kind[j] = "free" => Count(w.entry, j) = 0
               /\ Count(w.entry, j) <= w.nlink[j] + Bit(j = 0)
    <3>1. Count(w.entry, j) <= Count(v.entry, j)
      BY <2>2, <2>4, EntriesGone
    <3>2. /\ v.kind[j] = "free" => Count(v.entry, j) = 0
          /\ Count(v.entry, j) <= v.nlink[j]
      BY SoundAt
    <3>3. Count(w.entry, j) \in Nat /\ Count(v.entry, j) \in Nat /\ v.nlink[j] \in Int
      BY <2>4, EntsFinite
    <3>4. Count(w.entry, j) <= w.nlink[j] + Bit(j = 0)
      BY <3>1, <3>2, <3>3, <2>2, NamespaceAssumption DEF Bit
    <3>5. ASSUME w.kind[j] = "free", j = i PROVE Count(w.entry, j) = 0
      BY <3>5, <3>1, <3>2, <3>3, <1>1
    <3>6. ASSUME w.kind[j] = "free", j # i PROVE Count(w.entry, j) = 0
      BY <3>6, <3>1, <3>2, <3>3, <2>2, <2>4
    <3> QED BY <3>4, <3>5, <3>6
  <2>6. w.kind[ROOT] = "dir"
    BY <1>1, <2>2, <2>4, NamespaceAssumption DEF Sound
  <2> QED BY <2>1, <2>3, <2>5, <2>6 DEF Sound, Covered
<1>2. CASE ~(v.nlink[i] <= 0 /\ i # ROOT)
  BY <1>2 DEF Iput
<1> QED BY <1>1, <1>2

(* What a path names is in use. *)
LEMMA NamedInUse ==
  ASSUME NEW v, Sound(v), NEW p \in Seq(Components), Namei(v, p) # 0
  PROVE  /\ Namei(v, p) \in Inos /\ v.kind[Namei(v, p)] # "free"
         /\ Namei(v, p) # ROOT => Count(v.entry, Namei(v, p)) # 0
<1>1. Namei(v, p) \in Inos
  BY NameiType DEF Sound
<1>2. CASE p = <<>>
  BY <1>1, <1>2, NameiStep DEF Sound
<1>3. CASE p # <<>>
  <2>1. PICK d \in Inos, n \in Components : v.entry[d][n] = Namei(v, p)
    BY <1>3, NamedByEntry DEF Sound
  <2>2. Count(v.entry, Namei(v, p)) # 0
    BY <2>1, EntryCounts
  <2> QED BY <1>1, <2>2 DEF Sound, Covered
<1> QED BY <1>2, <1>3

LEMMA WdirFields ==
  ASSUME NEW v, IsVolume(v), NEW d \in Inos, NEW n \in Components, NEW i \in Inos,
         NEW grow \in BOOLEAN
  PROVE  /\ IsVolume(Wdir(v, d, n, i, grow))
         /\ Wdir(v, d, n, i, grow).kind = v.kind
         /\ Wdir(v, d, n, i, grow).nlink = v.nlink
         /\ Wdir(v, d, n, i, grow).entry =
              IF Fits(v, d) \/ grow THEN Written(v.entry, d, n, i) ELSE v.entry
<1>1. CASE Fits(v, d)
  <2>1. Wdir(v, d, n, i, grow) = [v EXCEPT !.entry[d][n] = i]
    BY <1>1 DEF Wdir
  <2> QED BY <2>1, <1>1 DEF IsVolume, Written
<1>2. CASE ~Fits(v, d) /\ grow
  <2>1. Wdir(v, d, n, i, grow) = [v EXCEPT !.entry[d][n] = i, !.blocks[d] = @ + 1]
    BY <1>2 DEF Wdir
  <2> QED BY <2>1, <1>2 DEF IsVolume, Written
<1>3. CASE ~Fits(v, d) /\ ~grow
  <2>1. Wdir(v, d, n, i, grow) = v
    BY <1>3 DEF Wdir
  <2> QED BY <2>1, <1>3
<1> QED BY <1>1, <1>2, <1>3

Void(v, i) == \A n \in Components : v.entry[i][n] = 0

(* i stays in use without the entry n of d, or has no entries to lose. *)
Leaves(v, d, n, i) ==
  \/ i = ROOT \/ Void(v, i)
  \/ \E c \in Inos, m \in Components : ~(c = d /\ m = n) /\ v.entry[c][m] = i

(* What unlink does *)
LEMMA UnlinkDoes ==
  ASSUME NEW v, Sound(v), NEW p \in Seq(Components), p # <<>>
  PROVE  LET r == Unlink(v, p)
             i == Namei(v, p)
             d == Pdir(v, p)
             n == Last(p)
         IN  /\ Sound(r.v)
             /\ i = 0 => ~r.ok /\ r.v = v
             /\ i # 0 => r.ok /\ i \in Inos /\ d \in Inos /\ v.entry[d][n] = i
             /\ i # 0 /\ Leaves(v, d, n, i) =>
                  /\ r.v.entry = Written(v.entry, d, n, 0)
                  /\ r.v.nlink = [v.nlink EXCEPT ![i] = v.nlink[i] - 1]
                  /\ \/ r.v.kind = v.kind
                     \/ Void(v, i) /\ r.v.kind = [v.kind EXCEPT ![i] = "free"]
<1> DEFINE r == Unlink(v, p)
           d == Pdir(v, p)
           n == Last(p)
           i == IF d = 0 THEN 0 ELSE v.entry[d][n]
           w == [v EXCEPT !.entry[d][n] = 0, !.nlink[i] = @ - 1]
<1>0. Namei(v, p) = i
  BY NamedByEntry DEF Sound
<1>1. CASE i = 0
  <2>1. r.v = v /\ ~r.ok
    BY <1>1 DEF Unlink, Failure
  <2> HIDE DEF r
  <2> QED BY <2>1, <1>0, <1>1 DEF r
<1>2. CASE i # 0
  <2>1. r.v = Iput(w, i) /\ r.ok
    BY <1>2 DEF Unlink, Success
  <2> HIDE DEF r
  <2>2. /\ d \in Inos /\ n \in Components /\ i = v.entry[d][n]
        /\ IsVolume(v) /\ v.entry \in EntryMaps
    BY <1>2, NamedByEntry DEF Sound, IsVolume, EntryMaps
  <2> HIDE DEF d, n
  <2>3. i \in Inos
    BY <1>2, <2>2 DEF EntryMaps
  <2> HIDE DEF i
  <2>4. /\ w.kind = v.kind /\ w.nlink = [v.nlink EXCEPT ![i] = @ - 1]
        /\ w.entry = Written(v.entry, d, n, 0) /\ IsVolume(w)
    BY <2>2, <2>3 DEF IsVolume, Written
  <2> HIDE DEF w
  <2>5. ASSUME NEW j \in Inos
        PROVE  /\ w.kind[j] = "free" => Count(w.entry, j) = 0
               /\ Count(w.entry, j) <= w.nlink[j] + Bit(j = 0)
    <3>1. Count(w.entry, j) = Count(v.entry, j) - Bit(j = i)
      <4>1. Count(w.entry, j) = Count(v.entry, j) + Bit(j = 0) - Bit(j = v.entry[d][n])
        <5>1. v.entry[d][n] # 0
          BY <1>2, <2>2
        <5>2. Count(Written(v.entry, d, n, 0), j)
                = Count(v.entry, j) + Bit(j = 0) - Bit(j = v.entry[d][n])
          BY <5>1, <2>2, EntryWritten
        <5> QED BY <5>2, <2>4
      <4> QED BY <4>1, <2>2, EntsFinite, NamespaceAssumption DEF Bit
    <3>2. /\ v.kind[j] = "free" => Count(v.entry, j) = 0
          /\ Count(v.entry, j) <= v.nlink[j]
      BY SoundAt
    <3>3. Count(v.entry, i) # 0
      BY <2>2, EntryCounts
    <3>4. Count(v.entry, j) \in Nat /\ v.nlink[j] \in Int
      BY <2>2, EntsFinite DEF IsVolume
    <3>5. w.nlink[j] = v.nlink[j] - Bit(j = i)
      BY <2>2, <2>4, <3>4 DEF Bit, IsVolume
    <3>6. w.kind[j] = "free" => Count(w.entry, j) = 0
      BY <3>1, <3>2, <3>3, <3>4, <2>4 DEF Bit
    <3>7. Count(w.entry, j) <= w.nlink[j] + Bit(j = 0)
      BY <3>1, <3>2, <3>4, <3>5, NamespaceAssumption DEF Bit
    <3> QED BY <3>6, <3>7
  <2>6. Sound(w)
    BY <2>4, <2>5 DEF Sound, Covered
  <2>7. Sound(r.v)
    BY <2>1, <2>3, <2>6, IputSound
  <2>8. CASE i = ROOT \/ \E c \in Inos, m \in Components :
               ~(c = d /\ m = n) /\ v.entry[c][m] = i
    <3>1. i # ROOT => Count(w.entry, i) # 0
      <4>1. SUFFICES ASSUME NEW c \in Inos, NEW m \in Components,
                            ~(c = d /\ m = n), v.entry[c][m] = i
                     PROVE  Count(w.entry, i) # 0
        BY <2>8
      <4>2. w.entry[c][m] = i
        BY <4>1, <2>2, <2>4, WrittenAt
      <4> QED BY <4>2, EntryCounts
    <3>2. r.v = w
      BY <2>1, <2>3, <2>6, <3>1, IputKeeps
    <3> QED BY <3>2, <1>0, <1>2, <2>1, <2>2, <2>3, <2>4, <2>6 DEF i, d, n, r
  <2>9. CASE Void(v, i)
    <3>1. Iput(w, i) = w \/ Iput(w, i) =
            [w EXCEPT !.kind[i] = "free", !.entry[i] = NoEntries, !.blocks[i] = 0]
      BY DEF Iput
    <3>2. /\ Iput(w, i).nlink = w.nlink
          /\ \/ Iput(w, i).entry = w.entry /\ Iput(w, i).kind = w.kind
             \/ /\ Iput(w, i).entry = [w.entry EXCEPT ![i] = NoEntries]
                /\ Iput(w, i).kind = [w.kind EXCEPT ![i] = "free"]
      BY <3>1, <2>4 DEF IsVolume
    <3>3. [w.entry EXCEPT ![i] = NoEntries] = w.entry
      <4>1. w.entry \in EntryMaps
        BY <2>4 DEF IsVolume, EntryMaps
      <4>2. \A m \in Components : w.entry[i][m] = 0
        BY <2>2, <2>3, <2>4, <2>9, WrittenAt DEF Void
      <4>3. w.entry[i] = [m \in Components |-> w.entry[i][m]]
        BY <4>1, <2>3 DEF EntryMaps
      <4>4. w.entry[i] = NoEntries
        BY <4>2, <4>3 DEF NoEntries
      <4> QED BY <4>1, <4>4, <2>3 DEF EntryMaps
    <3> QED BY <3>2, <3>3, <1>0, <1>2, <2>1, <2>2, <2>3, <2>4, <2>7, <2>9 DEF i, d, n, r
  <2>10. CASE ~Leaves(v, d, n, i)
    BY <2>10, <1>0, <1>2, <2>1, <2>2, <2>3, <2>7 DEF i, d, n, r
  <2> QED BY <2>8, <2>9, <2>10 DEF Leaves
<1> QED BY <1>1, <1>2

(* An entry that was written where there was none, for an inode whose links *)
(* are one more. *)
LEMMA LinkedSound ==
  ASSUME NEW v, Sound(v), NEW w, IsVolume(w), NEW d \in Inos, NEW n \in Components,
         NEW i \in Inos, v.entry[d][n] = 0, v.kind[i] # "free", w.kind = v.kind,
         w.entry = Written(v.entry, d, n, i),
         w.nlink = [v.nlink EXCEPT ![i] = v.nlink[i] + 1]
  PROVE  Sound(w)
<1>1. ASSUME NEW j \in Inos
      PROVE  /\ w.kind[j] = "free" => Count(w.entry, j) = 0
             /\ Count(w.entry, j) <= w.nlink[j] + Bit(j = 0)
  <2>1. v.nlink[j] \in Int /\ v.nlink \in [Inos -> Int] /\ v.entry \in EntryMaps
    BY DEF Sound, IsVolume, EntryMaps
  <2>2. Count(w.entry, j) = Count(v.entry, j) + Bit(j = i) - Bit(j = 0)
    <3>1. v.entry[d][n] # i
      BY NamespaceAssumption
    <3>2. Count(Written(v.entry, d, n, i), j)
            = Count(v.entry, j) + Bit(j = i) - Bit(j = v.entry[d][n])
      BY <3>1, <2>1, EntryWritten
    <3> QED BY <3>2
  <2>3. w.nlink[j] = v.nlink[j] + Bit(j = i) /\ Bit(j = 0) = 0
    BY <2>1, NamespaceAssumption DEF Bit
  <2>4. /\ v.kind[j] = "free" => Count(v.entry, j) = 0
        /\ Count(v.entry, j) <= v.nlink[j] /\ Count(v.entry, j) \in Nat
    BY SoundAt, EntsFinite
  <2>5. w.kind[j] = "free" => Count(w.entry, j) = 0
    BY <2>2, <2>3, <2>4 DEF Bit
  <2>6. Count(w.entry, j) <= w.nlink[j] + Bit(j = 0)
    BY <2>1, <2>2, <2>3, <2>4 DEF Bit
  <2> QED BY <2>5, <2>6
<1> QED BY <1>1 DEF Sound, Covered

(* Room to count one link more, of whatever inode *)
CanCount(v) == kernel # "v6" => \A i \in Inos : v.nlink[i] < MaxLink

(* What link does when it succeeds and when it does not; V6 may miscount. *)
AfterLink(v, r, i, d, n, miscounts) ==
  /\ Sound(r.v) /\ r.v.kind = v.kind
  /\ r.ok => /\ i \in Inos /\ d \in Inos /\ v.entry[d][n] = 0
             /\ r.v.entry = Written(v.entry, d, n, i)
             /\ r.v.nlink = [v.nlink EXCEPT ![i] = v.nlink[i] + 1]
  /\ ~r.ok => r.v.entry = v.entry /\ (~miscounts => r.v.nlink = v.nlink)

LEMMA LinkDoes ==
  ASSUME NEW v, Sound(v), NEW old \in Seq(Components),
         NEW new \in Seq(Components), new # <<>>, NEW grow \in BOOLEAN,
         CanCount(v)
  PROVE  AfterLink(v, Link(v, old, new, grow), Namei(v, old), Pdir(v, new), Last(new),
                   kernel = "v6" /\ ~grow)
<1> DEFINE i == Namei(v, old)
           d == Pdir(v, new)
           n == Last(new)
           written == Fits(v, d) \/ grow
           links == IF kernel = "v6" \/ written THEN Char(v.nlink[i] + 1) ELSE v.nlink[i]
           u == Wdir(v, d, n, i, grow)
           w == [u EXCEPT !.nlink[i] = links]
           r == Link(v, old, new, grow)
<1>1. CASE ~MayLink(v, i, d, n)
  <2>1. r.v = v /\ ~r.ok
    BY <1>1 DEF Link, Failure
  <2> HIDE DEF r
  <2> QED BY <2>1 DEF AfterLink, r
<1>2. CASE MayLink(v, i, d, n)
  <2>1. r.v = Iput(w, i) /\ r.ok = written
    BY <1>2 DEF Link
  <2> HIDE DEF r
  <2>2. i \in Inos /\ v.kind[i] # "free" /\ (i # ROOT => Count(v.entry, i) # 0)
    BY <1>2, NamedInUse DEF MayLink
  <2>3. d \in Inos /\ n \in Components /\ v.entry[d][n] = 0
    BY <1>2, NamedByEntry DEF MayLink, Sound
  <2>4. v.nlink[i] \in Int /\ v.nlink[i] < MaxLink
    BY <1>2, <2>2 DEF MayLink, Sound, IsVolume, CanCount
  <2>5. Char(v.nlink[i] + 1) = v.nlink[i] + 1
    BY <2>4, NamespaceAssumption DEF Char
  <2> HIDE DEF i, d, n
  <2>6. /\ IsVolume(u) /\ u.kind = v.kind /\ u.nlink = v.nlink
        /\ u.entry = IF Fits(v, d) \/ grow THEN Written(v.entry, d, n, i) ELSE v.entry
    <3>1. IsVolume(v)
      BY DEF Sound
    <3> QED BY <3>1, <2>2, <2>3, WdirFields
  <2> HIDE DEF u
  <2>7. links \in Int
    BY <2>4, <2>5
  <2>8. /\ IsVolume(w) /\ w.kind = v.kind /\ w.entry = u.entry
        /\ w.nlink = [v.nlink EXCEPT ![i] = links]
    <3> HIDE DEF links
    <3> QED BY <2>2, <2>6, <2>7 DEF IsVolume
  <2> HIDE DEF w
  <2>9. ASSUME written PROVE Sound(w)
    BY <2>2, <2>3, <2>5, <2>6, <2>8, <2>9, LinkedSound
  <2>10. ASSUME ~written PROVE Sound(w)
    <3>1. w.kind = v.kind /\ w.entry = v.entry /\ links >= v.nlink[i]
      BY <2>4, <2>5, <2>6, <2>8, <2>10
    <3> HIDE DEF links
    <3>2. ASSUME NEW j \in Inos
          PROVE  /\ w.kind[j] = "free" => Count(w.entry, j) = 0
                 /\ Count(w.entry, j) <= w.nlink[j] + Bit(j = 0)
      <4>1. v.nlink[j] \in Int /\ v.nlink \in [Inos -> Int] /\ Bit(j = 0) = 0
        BY NamespaceAssumption DEF Sound, IsVolume, Bit
      <4>2. w.nlink[j] \in Int /\ w.nlink[j] >= v.nlink[j]
        BY <4>1, <3>1, <2>2, <2>7, <2>8
      <4>3. /\ v.kind[j] = "free" => Count(v.entry, j) = 0
            /\ Count(v.entry, j) <= v.nlink[j] /\ Count(v.entry, j) \in Nat
        BY SoundAt, EntsFinite
      <4> QED BY <4>1, <4>2, <4>3, <3>1
    <3> QED BY <3>1, <3>2, <2>8 DEF Sound, Covered
  <2>11. Sound(w)
    BY <2>9, <2>10
  <2>12. i # ROOT => Count(w.entry, i) # 0
    <3>1. CASE written
      <4>1. w.entry[d][n] = i
        <5>1. v.entry \in EntryMaps
          BY DEF Sound, IsVolume, EntryMaps
        <5> QED BY <5>1, <3>1, <2>3, <2>6, <2>8, WrittenAt
      <4> QED BY <4>1, <2>3, EntryCounts
    <3>2. CASE ~written
      BY <3>2, <2>2, <2>6, <2>8
    <3> QED BY <3>1, <3>2
  <2>13. r.v = w
    BY <2>1, <2>2, <2>11, <2>12, IputKeeps
  <2>14. CASE written
    BY <2>1, <2>2, <2>3, <2>5, <2>6, <2>8, <2>11, <2>13, <2>14 DEF AfterLink, r, i, d, n
  <2>15. CASE ~written
    <3>1. kernel # "v6" \/ grow => w.nlink = v.nlink
      <4>1. v.nlink \in [Inos -> Int]
        BY DEF Sound, IsVolume
      <4>2. kernel # "v6" \/ grow => links = v.nlink[i]
        BY <2>15
      <4> HIDE DEF links
      <4> QED BY <4>1, <4>2, <2>2, <2>8
    <3> QED BY <3>1, <2>1, <2>6, <2>8, <2>11, <2>13, <2>15 DEF AfterLink, r, i, d, n
  <2> QED BY <2>14, <2>15
<1> QED BY <1>1, <1>2

(* What maknode does *)
AfterMaknode(v, r, k, i, d, n) ==
  /\ Sound(r.v)
  /\ r.ok => /\ i \in Inos /\ d \in Inos /\ v.kind[d] = "dir" /\ v.entry[d][n] = 0
             /\ r.v.entry = Written(v.entry, d, n, i)
             /\ r.v.kind = [v.kind EXCEPT ![i] = k]
             /\ r.v.nlink = [v.nlink EXCEPT ![i] = 1]
  /\ ~r.ok => r.v = v

LEMMA MaknodeDoes ==
  ASSUME NEW v, Sound(v), NEW p \in Seq(Components), p # <<>>, NEW k \in {"file", "dir"},
         NEW i \in Inos \union {0}, i # 0 => v.kind[i] = "free", NEW grow \in BOOLEAN
  PROVE  AfterMaknode(v, Maknode(v, p, k, i, grow), k, i, Pdir(v, p), Last(p))
<1> DEFINE r == Maknode(v, p, k, i, grow)
           d == Pdir(v, p)
           n == Last(p)
           u == Wdir(v, d, n, i, grow)
           w == [u EXCEPT !.kind[i] = k, !.nlink[i] = 1]
<1>1. CASE ~Accepts(v, d) \/ v.entry[d][n] # 0 \/ i = 0 \/ ~(Fits(v, d) \/ grow)
  <2>1. r.v = v /\ ~r.ok
    BY <1>1 DEF Maknode, Failure
  <2> HIDE DEF r
  <2> QED BY <2>1 DEF AfterMaknode, r
<1>2. CASE Accepts(v, d) /\ v.entry[d][n] = 0 /\ i # 0 /\ (Fits(v, d) \/ grow)
  <2>1. r.v = w /\ r.ok = TRUE
    BY <1>2 DEF Maknode, Success
  <2> HIDE DEF r
  <2>2. /\ d \in Inos /\ v.kind[d] = "dir" /\ n \in Components /\ i \in Inos
        /\ IsVolume(v)
    BY <1>2, NamedByEntry DEF Accepts, Sound
  <2> HIDE DEF d, n
  <2>3. /\ IsVolume(u) /\ u.kind = v.kind /\ u.nlink = v.nlink
        /\ u.entry = Written(v.entry, d, n, i)
    BY <1>2, <2>2, WdirFields
  <2> HIDE DEF u
  <2>4. /\ IsVolume(w) /\ w.kind = [v.kind EXCEPT ![i] = k]
        /\ w.nlink = [v.nlink EXCEPT ![i] = 1] /\ w.entry = u.entry
    <3>1. /\ w.kind = [u.kind EXCEPT ![i] = k] /\ w.nlink = [u.nlink EXCEPT ![i] = 1]
          /\ w.entry = u.entry /\ w.blocks = u.blocks /\ DOMAIN w = DOMAIN u
      BY <2>3 DEF IsVolume
    <3> HIDE DEF w
    <3> QED BY <3>1, <2>2, <2>3 DEF IsVolume
  <2> HIDE DEF w
  <2>5. ASSUME NEW j \in Inos
        PROVE  /\ w.kind[j] = "free" => Count(w.entry, j) = 0
               /\ Count(w.entry, j) <= w.nlink[j] + Bit(j = 0)
    <3>1. Count(w.entry, j) = Count(v.entry, j) + Bit(j = i) - Bit(j = 0)
      <4>1. v.entry \in EntryMaps /\ v.entry[d][n] # i
        BY <1>2, <2>2 DEF EntryMaps, IsVolume
      <4>2. Count(Written(v.entry, d, n, i), j)
              = Count(v.entry, j) + Bit(j = i) - Bit(j = v.entry[d][n])
        BY <4>1, <2>2, EntryWritten
      <4> QED BY <4>2, <1>2, <2>3, <2>4
    <3>2. /\ v.kind[j] = "free" => Count(v.entry, j) = 0
          /\ Count(v.entry, j) <= v.nlink[j] /\ Count(v.entry, j) \in Nat
          /\ v.nlink[j] \in Int /\ Bit(j = 0) = 0
      BY <2>2, SoundAt, EntsFinite, NamespaceAssumption DEF IsVolume, Bit
    <3>3. CASE j = i
      <4>1. w.kind[j] = k /\ w.nlink[j] = 1 /\ v.kind[j] = "free"
        BY <3>3, <1>2, <2>2, <2>4 DEF IsVolume
      <4>2. Count(w.entry, j) = 1
        BY <3>1, <3>2, <3>3, <4>1 DEF Bit
      <4> QED BY <3>2, <4>1, <4>2
    <3>4. CASE j # i
      <4>1. w.kind[j] = v.kind[j] /\ w.nlink[j] = v.nlink[j]
        BY <3>4, <2>2, <2>4 DEF IsVolume
      <4>2. Count(w.entry, j) = Count(v.entry, j)
        BY <3>1, <3>2, <3>4 DEF Bit
      <4> QED BY <3>2, <4>1, <4>2
    <3> QED BY <3>3, <3>4
  <2>6. w.kind[ROOT] = "dir"
    BY <1>2, <2>2, <2>4, NamespaceAssumption DEF Sound, IsVolume
  <2>7. Sound(w)
    BY <2>4, <2>5, <2>6 DEF Sound, Covered
  <2> QED BY <1>2, <2>1, <2>2, <2>3, <2>4, <2>7 DEF AfterMaknode, r, d, n
<1> QED BY <1>1, <1>2

-----------------------------------------------------------------------------
(* The calls.                                                              *)

LEMMA PathsAreNames ==
  ASSUME NEW p \in Paths
  PROVE  /\ p \in Seq(Names) /\ p \in Seq(Components) /\ p # <<>>
         /\ Dirname(p) \in Seq(Names) /\ Dirname(p) \in Seq(Components)
         /\ Dot(p) \in Seq(Components) /\ Dot(p) # <<>>
         /\ DotDot(p) \in Seq(Components) /\ DotDot(p) # <<>>
<1>1. PICK n \in 1 .. MaxDepth : p \in [1 .. n -> Names]
  BY DEF Paths
<1>2. n \in Nat /\ n # 0
  BY NamespaceAssumption
<1>3. p \in Seq(Names) /\ Len(p) = n
  BY <1>1, <1>2, IsASeq, LenProperties
<1>4. \A S : S \subseteq Components => \A q \in Seq(S) : q \in Seq(Components)
  BY SeqMonotonic
<1>5. p \in Seq(Components) /\ p # <<>>
  BY <1>2, <1>3, <1>4, EmptySeq DEF Components
<1>6. Dirname(p) \in Seq(Names)
  BY <1>3, <1>5, DirnameType
<1>7. Dirname(p) \in Seq(Components)
  BY <1>4, <1>6 DEF Components
<1>8. /\ Dot(p) \in Seq(Components) /\ Len(Dot(p)) = Len(p) + 1
      /\ DotDot(p) \in Seq(Components) /\ Len(DotDot(p)) = Len(p) + 1
  BY <1>5, AppendProperties DEF Dot, DotDot, Components
<1>9. Dot(p) # <<>> /\ DotDot(p) # <<>>
  BY <1>2, <1>3, <1>8, EmptySeq
<1> QED BY <1>3, <1>5, <1>6, <1>7, <1>8, <1>9

(* The stages of the calls that have no old path *)
OneName == {"mkdir .", "mkdir ..", "undo ..", "undo .", "undo",
            "rmdir ..", "rmdir .", "rmdir"}

InCall ==
  op.stage # "idle" =>
    /\ DOMAIN op = {"stage", "old", "new", "isdir", "parent", "before"}
    /\ op.new \in Paths
    /\ op.old \in Paths \union {<<>>}
    /\ op.old = <<>> => op.stage \in OneName

(* The inode that v6fs_reparentdir leaves one link short of its entries *)
Short ==
  CASE op.stage = "reparent .." -> op.parent
    [] op.stage = "reparent +"  -> NewParent
    [] op.stage \notin {"reparent ..", "reparent +"} -> 0

Reparenting ==
  /\ op.stage \in {"reparent ..", "reparent +"} =>
       op.parent \in Inos /\ NewParent \in Inos
  /\ op.stage = "reparent .." =>
       /\ Moved \in Inos /\ entry[Moved][".."] = op.parent
       /\ op.parent # NewParent /\ kind[NewParent] = "dir"

Inv ==
  /\ InCall
  /\ IsVolume(volume) /\ kind[ROOT] = "dir"
  /\ Covered(volume, Short)
  /\ Reparenting

LEMMA InvSound ==
  ASSUME Inv, op.stage \notin {"reparent ..", "reparent +"}
  PROVE  Sound(volume)
BY DEF Inv, Short, Sound, volume

LEMMA SoundInv ==
  ASSUME NEW v, Sound(v), Become(v), InCall',
         op'.stage \notin {"reparent ..", "reparent +"}
  PROVE  Inv'
<1>1. /\ volume'.kind = v.kind /\ volume'.nlink = v.nlink
      /\ volume'.entry = v.entry /\ volume'.blocks = v.blocks
      /\ DOMAIN volume' = {"kind", "nlink", "entry", "blocks"}
      /\ kind' = v.kind
  BY DEF Become, volume
<1>2. Short' = 0 /\ Reparenting'
  BY DEF Short, Reparenting
<1>3. IsVolume(volume') /\ Covered(volume', 0) /\ kind'[ROOT] = "dir"
  BY <1>1 DEF Sound, IsVolume, Covered
<1> QED BY <1>2, <1>3 DEF Inv

(* A system call made, at any stage but those of v6fs_reparentdir *)
Ends == {"done", "failed"}

LEMMA DoInv ==
  ASSUME Inv, NEW r, Sound(r.v), NEW then, NEW else, Do(r, then, else),
         then \notin {"reparent ..", "reparent +"}, else \notin {"reparent ..", "reparent +"},
         op.stage = "idle" => then \in Ends /\ else \in Ends,
         op.stage # "idle" /\ op.old = <<>> =>
           then \in OneName \union Ends /\ else \in OneName \union Ends
  PROVE  Inv'
<1>1. Become(r.v) /\ op' = Goto(IF r.ok THEN then ELSE else)
  BY DEF Do
<1> DEFINE s == IF r.ok THEN then ELSE else
<1>2. /\ s \notin {"reparent ..", "reparent +"}
      /\ op.stage = "idle" => s \in Ends
      /\ op.stage # "idle" /\ op.old = <<>> => s \in OneName \union Ends
  OBVIOUS
<1> HIDE DEF s
<1>3. CASE s \in Ends
  <2>1. op'.stage = "idle"
    BY <1>1, <1>3 DEF Goto, Ends, Idle, s
  <2> QED BY <1>1, <2>1, SoundInv DEF InCall
<1>4. CASE s \notin Ends
  <2>1. op' = [op EXCEPT !.stage = s] /\ op.stage # "idle"
    BY <1>1, <1>2, <1>4 DEF Goto, Ends, s
  <2>2. /\ op'.stage = s /\ op'.new = op.new /\ op'.old = op.old
        /\ DOMAIN op' = DOMAIN op
    BY <2>1 DEF Inv, InCall
  <2>3. InCall'
    BY <1>2, <1>4, <2>1, <2>2 DEF Inv, InCall
  <2> QED BY <1>1, <1>2, <2>2, <2>3, SoundInv
<1> QED BY <1>3, <1>4

(* Neither link from V7 on nor v6fs_reparentdir on any kernel looks at how *)
(* many links there are before it counts one more.                         *)
CountsFit ==
  kernel # "v6" \/ op.stage = "reparent +" => \A i \in Inos : nlink[i] < MaxLink

LEMMA GrowsAre == Grows \subseteq BOOLEAN
BY DEF Grows

LEMMA LinkInv ==
  ASSUME Inv, CountsFit, op.stage \notin {"reparent ..", "reparent +"},
         NEW old \in Seq(Components), NEW new \in Seq(Components), new # <<>>,
         NEW g \in Grows
  PROVE  Sound(Link(volume, old, new, g).v)
<1>1. CanCount(volume)
  BY DEF CountsFit, CanCount, volume
<1> QED BY <1>1, InvSound, GrowsAre, LinkDoes DEF AfterLink

LEMMA MknodInv ==
  ASSUME Inv, op.stage = "idle", NEW p \in Paths, NEW k \in {"file", "dir"},
         NEW i \in Ialloc, NEW g \in Grows
  PROVE  Sound(Maknode(volume, p, k, i, g).v)
<1>1. i \in Inos \union {0} /\ (i # 0 => volume.kind[i] = "free")
  BY DEF Ialloc, volume
<1> QED BY <1>1, InvSound, GrowsAre, PathsAreNames, MaknodeDoes DEF AfterMaknode

Starts(s, o, n) == \E b : op' = Start(s, o, n, b)
Idles == \E b : op' = Idle(b)

(* A call that begins: its paths are those it was given. *)
LEMMA StartInv ==
  ASSUME Inv, NEW v, Sound(v), Become(v),
         NEW s, NEW o \in Paths \union {<<>>}, NEW n \in Paths,
         Starts(s, o, n), o = <<>> => s \in OneName,
         s \notin {"reparent ..", "reparent +"}
  PROVE  Inv'
<1>1. PICK b : op' = Start(s, o, n, b)
  BY DEF Starts
<1>2. /\ op'.stage = s /\ op'.old = o /\ op'.new = n
      /\ DOMAIN op' = {"stage", "old", "new", "isdir", "parent", "before"}
  BY <1>1 DEF Start
<1>3. InCall'
  BY <1>2 DEF InCall
<1> QED BY <1>2, <1>3, SoundInv

LEMMA IdleInv ==
  ASSUME Inv, NEW v, Sound(v), Become(v), Idles
  PROVE  Inv'
<1>1. InCall' /\ op'.stage = "idle"
  BY DEF Idles, Idle, InCall
<1> QED BY <1>1, SoundInv

LEMMA BeginsAre ==
  /\ "mkdir ." \in OneName /\ "mkdir ." \notin {"reparent ..", "reparent +"}
  /\ "rmdir .." \in OneName /\ "rmdir .." \notin {"reparent ..", "reparent +"}
  /\ <<>> \in Paths \union {<<>>}
BY DEF OneName

LEMMA EndsAre == "done" \in Ends /\ "failed" \in Ends
BY DEF Ends

LEMMA BeginInv ==
  ASSUME Inv, CountsFit, op.stage = "idle", NEW p \in Paths,
         Mknod(p) \/ UnlinkFile(p) \/ Mkdir(p) \/ Rmdir(p)
           \/ \E q \in Paths : LinkFile(p, q) \/ Rename(p, q)
  PROVE  Inv'
<1>0. Sound(volume)
  BY InvSound
<1>1. CASE Mknod(p)
  <2>1. PICK i \in Ialloc, g \in Grows :
          Do(Maknode(volume, p, "file", i, g), "done", "failed")
    BY <1>1 DEF Mknod
  <2> DEFINE r == Maknode(volume, p, "file", i, g)
  <2>2. Sound(r.v) /\ Do(r, "done", "failed")
    BY <2>1, MknodInv
  <2> HIDE DEF r
  <2> QED BY <2>2, EndsAre, DoInv
<1>2. CASE UnlinkFile(p)
  <2> DEFINE r == Unlink(volume, p)
  <2>1. Do(r, "done", "failed")
    BY <1>2 DEF UnlinkFile
  <2>2. Sound(r.v)
    BY <1>0, PathsAreNames, UnlinkDoes
  <2> HIDE DEF r
  <2> QED BY <2>1, <2>2, EndsAre, DoInv
<1>3. CASE Mkdir(p)
  <2>1. PICK i \in Ialloc, g \in Grows :
          LET r == Maknode(volume, p, "dir", i, g)
          IN  /\ Become(r.v)
              /\ op' = IF r.ok THEN Start("mkdir .", <<>>, p, TRUE) ELSE Idle(FALSE)
    BY <1>3 DEF Mkdir
  <2> DEFINE r == Maknode(volume, p, "dir", i, g)
  <2>2. Sound(r.v) /\ Become(r.v)
    BY <2>1, MknodInv
  <2>3. CASE r.ok
    <3>1. Starts("mkdir .", <<>>, p)
      BY <2>1, <2>3 DEF Starts
    <3> HIDE DEF r
    <3> QED BY <3>1, <2>2, BeginsAre, StartInv
  <2>4. CASE ~r.ok
    <3>1. Idles
      BY <2>1, <2>4 DEF Idles
    <3> HIDE DEF r
    <3> QED BY <3>1, <2>2, IdleInv
  <2> QED BY <2>3, <2>4
<1>4. CASE Rmdir(p)
  <2>1. Become(volume)
    BY <1>4 DEF Rmdir, Become, volume
  <2>2. \/ Starts("rmdir ..", <<>>, p)
        \/ Idles
    BY <1>4 DEF Rmdir, Starts, Idles
  <2>3. CASE Idles
    BY <1>0, <2>1, <2>3, IdleInv
  <2>4. CASE Starts("rmdir ..", <<>>, p)
    BY <1>0, <2>1, <2>4, BeginsAre, StartInv
  <2> QED BY <2>2, <2>3, <2>4
<1>5. ASSUME NEW q \in Paths, LinkFile(p, q) PROVE Inv'
  <2>1. PICK g \in Grows : Do(Link(volume, p, q, g), "done", "failed")
    BY <1>5 DEF LinkFile
  <2> DEFINE r == Link(volume, p, q, g)
  <2>2. Sound(r.v) /\ Do(r, "done", "failed")
    BY <2>1, PathsAreNames, LinkInv
  <2> HIDE DEF r
  <2> QED BY <2>2, EndsAre, DoInv
<1>6. ASSUME NEW q \in Paths, Rename(p, q) PROVE Inv'
  <2>1. Become(volume)
    BY <1>6 DEF Rename, Become, volume
  <2>2. \/ Idles
        \/ \E s \in {"link", "rmdir ..", "unlink new"} : Starts(s, p, q)
    BY <1>6 DEF Rename, Starts, Idles
  <2>3. CASE Idles
    BY <1>0, <2>1, <2>3, IdleInv
  <2>4. ASSUME NEW s \in {"link", "rmdir ..", "unlink new"}, Starts(s, p, q) PROVE Inv'
    <3>1. p # <<>>
      BY PathsAreNames
    <3> QED BY <3>1, <1>0, <2>1, <2>4, StartInv
  <2> QED BY <2>2, <2>3, <2>4
<1> QED BY <1>1, <1>2, <1>3, <1>4, <1>5, <1>6

LEMMA InCallPaths ==
  ASSUME Inv, op.stage # "idle"
  PROVE  /\ op.new \in Seq(Components) /\ op.new # <<>>
         /\ Dirname(op.new) \in Seq(Components)
         /\ Dot(op.new) \in Seq(Components) /\ Dot(op.new) # <<>>
         /\ DotDot(op.new) \in Seq(Components) /\ DotDot(op.new) # <<>>
         /\ op.stage \notin OneName => op.old \in Seq(Components) /\ op.old # <<>>
<1>1. op.new \in Paths /\ (op.stage \notin OneName => op.old \in Paths)
  BY DEF Inv, InCall
<1> QED BY <1>1, PathsAreNames

(* A step that goes on with a call by an unlink or by a link *)
Later(then, else) ==
  /\ then \notin {"reparent ..", "reparent +"} /\ else \notin {"reparent ..", "reparent +"}
  /\ op.old = <<>> => then \in OneName \union Ends /\ else \in OneName \union Ends

LEMMA UnlinkStep ==
  ASSUME Inv, op.stage \notin {"idle", "reparent ..", "reparent +"},
         NEW p \in Seq(Components), p # <<>>, NEW then, NEW else, Later(then, else),
         Do(Unlink(volume, p), then, else)
  PROVE  Inv'
<1> DEFINE r == Unlink(volume, p)
<1>1. Sound(r.v) /\ Do(r, then, else)
  BY InvSound, UnlinkDoes
<1> HIDE DEF r
<1> QED BY <1>1, DoInv DEF Later

LEMMA LinkStep ==
  ASSUME Inv, CountsFit, op.stage \notin {"idle", "reparent ..", "reparent +"},
         NEW old \in Seq(Components), NEW new \in Seq(Components), new # <<>>,
         NEW then, NEW else, Later(then, else),
         \E g \in Grows : Do(Link(volume, old, new, g), then, else)
  PROVE  Inv'
<1>1. PICK g \in Grows : Do(Link(volume, old, new, g), then, else)
  OBVIOUS
<1> DEFINE r == Link(volume, old, new, g)
<1>2. Sound(r.v) /\ Do(r, then, else)
  BY <1>1, LinkInv
<1> HIDE DEF r
<1> QED BY <1>2, DoInv DEF Later

LEMMA MkdirInv ==
  ASSUME Inv, CountsFit, MkdirDot \/ MkdirDotDot \/ UndoDotDot \/ UndoDot \/ Undo
  PROVE  Inv'
<1>1. CASE MkdirDot
  <2>1. op.stage = "mkdir ." /\ Later("mkdir ..", "undo ..")
    BY <1>1 DEF MkdirDot, Later, OneName
  <2>2. \E g \in Grows : Do(Link(volume, op.new, Dot(op.new), g), "mkdir ..", "undo ..")
    BY <1>1 DEF MkdirDot
  <2> QED BY <2>1, <2>2, InCallPaths, LinkStep
<1>2. CASE MkdirDotDot
  <2>1. op.stage = "mkdir .." /\ Later("done", "undo ..")
    BY <1>2 DEF MkdirDotDot, Later, OneName, Ends
  <2>2. \E g \in Grows :
          Do(Link(volume, Dirname(op.new), DotDot(op.new), g), "done", "undo ..")
    BY <1>2 DEF MkdirDotDot
  <2> QED BY <2>1, <2>2, InCallPaths, LinkStep
<1>3. CASE UndoDotDot
  <2>1. op.stage = "undo .." /\ Later("undo .", "undo .")
    BY <1>3 DEF UndoDotDot, Later, OneName
  <2> QED BY <2>1, <1>3, InCallPaths, UnlinkStep DEF UndoDotDot
<1>4. CASE UndoDot
  <2>1. op.stage = "undo ." /\ Later("undo", "undo")
    BY <1>4 DEF UndoDot, Later, OneName
  <2> QED BY <2>1, <1>4, InCallPaths, UnlinkStep DEF UndoDot
<1>5. CASE Undo
  <2>1. op.stage = "undo" /\ Later("failed", "failed")
    BY <1>5 DEF Undo, Later, Ends
  <2> QED BY <2>1, <1>5, InCallPaths, UnlinkStep DEF Undo
<1> QED BY <1>1, <1>2, <1>3, <1>4, <1>5

LEMMA RmdirInv ==
  ASSUME Inv, RmdirDotDot \/ RmdirDot \/ RmdirDir
  PROVE  Inv'
<1>1. CASE RmdirDotDot
  <2>1. op.stage = "rmdir .." /\ Later("rmdir .", "failed")
    BY <1>1 DEF RmdirDotDot, Later, OneName, Ends
  <2> QED BY <2>1, <1>1, InCallPaths, UnlinkStep DEF RmdirDotDot
<1>2. CASE RmdirDot
  <2>1. op.stage = "rmdir ." /\ Later("rmdir", "failed")
    BY <1>2 DEF RmdirDot, Later, OneName, Ends
  <2> QED BY <2>1, <1>2, InCallPaths, UnlinkStep DEF RmdirDot
<1>3. CASE RmdirDir
  <2> DEFINE next == IF op.old = <<>> THEN "done" ELSE "link"
  <2>1. op.stage = "rmdir" /\ Later(next, "failed")
    BY <1>3 DEF RmdirDir, Later, Ends
  <2>2. Do(Unlink(volume, op.new), next, "failed")
    BY <1>3 DEF RmdirDir
  <2> HIDE DEF next
  <2> QED BY <2>1, <2>2, InCallPaths, UnlinkStep
<1> QED BY <1>1, <1>2, <1>3

LEMMA RenameInv ==
  ASSUME Inv, CountsFit, RenameUnlinkNew \/ RenameLink \/ RenameUnlinkOld
  PROVE  Inv'
<1>1. CASE RenameUnlinkNew
  <2>1. op.stage = "unlink new" /\ op.stage \notin OneName
    BY <1>1 DEF RenameUnlinkNew, OneName
  <2>2. Later("link", "failed")
    BY <2>1, InCallPaths DEF Later
  <2> QED BY <2>1, <2>2, <1>1, InCallPaths, UnlinkStep DEF RenameUnlinkNew
<1>2. CASE RenameLink
  <2>1. op.stage = "link" /\ op.stage \notin OneName
    BY <1>2 DEF RenameLink, OneName
  <2>2. Later("unlink old", "failed")
    BY <2>1, InCallPaths DEF Later
  <2>3. \E g \in Grows : Do(Link(volume, op.old, op.new, g), "unlink old", "failed")
    BY <1>2 DEF RenameLink
  <2> QED BY <2>1, <2>2, <2>3, InCallPaths, LinkStep
<1>3. CASE RenameUnlinkOld
  <2> DEFINE next == IF op.isdir THEN "reparent" ELSE "done"
  <2>1. op.stage = "unlink old" /\ op.stage \notin OneName
    BY <1>3 DEF RenameUnlinkOld, OneName
  <2>2. Later(next, "failed")
    BY <2>1, InCallPaths DEF Later
  <2>3. Do(Unlink(volume, op.old), next, "failed")
    BY <1>3 DEF RenameUnlinkOld
  <2> HIDE DEF next
  <2> QED BY <2>1, <2>2, <2>3, InCallPaths, UnlinkStep
<1> QED BY <1>1, <1>2, <1>3

LEMMA MovedNamed ==
  ASSUME Inv, op.stage # "idle", Moved # 0
  PROVE  Moved \in Inos /\ NewParent \in Inos /\ kind[NewParent] = "dir"
<1>1. IsVolume(volume) /\ op.new \in Seq(Components) /\ op.new # <<>>
  BY InCallPaths DEF Inv
<1>2. Moved \in Inos
  BY <1>1, NameiType DEF Moved
<1>3. Pdir(volume, op.new) # 0
  BY <1>1, NamedByEntry DEF Moved
<1>4. Pdir(volume, op.new) = NewParent /\ volume.kind[NewParent] = "dir"
  BY <1>1, <1>3, NamedByEntry DEF Pdir, NewParent
<1>5. Pdir(volume, op.new) \in Inos
  BY <1>1, <1>3, NamedByEntry
<1> QED BY <1>2, <1>4, <1>5 DEF volume

LEMMA ReparentInv ==
  ASSUME Inv, Reparent, UNCHANGED <<kernel, full>>
  PROVE  Inv'
<1> DEFINE old == IF Moved = 0 THEN 0 ELSE entry[Moved][".."]
<1>0. Sound(volume) /\ op.stage = "reparent"
  BY InvSound DEF Reparent
<1>1. CASE UNCHANGED nlink /\ (op' = Goto("failed") \/ op' = Goto("done"))
  <2>1. Become(volume) /\ Idles
    BY <1>1 DEF Reparent, Become, volume, Goto, Idles
  <2> QED BY <2>1, <1>0, IdleInv
<1>2. CASE /\ old \notin {0, NewParent}
           /\ op' = [op EXCEPT !.stage = "reparent ..", !.parent = old]
           /\ nlink' = [nlink EXCEPT ![old] = @ - 1]
  <2>1. Moved # 0 /\ old = entry[Moved][".."]
    BY <1>2
  <2>2. Moved \in Inos /\ NewParent \in Inos /\ kind[NewParent] = "dir"
    BY <1>0, <2>1, MovedNamed
  <2>3. /\ entry \in EntryMaps /\ nlink \in [Inos -> Int] /\ ".." \in Components
        /\ kind' = kind /\ entry' = entry /\ blocks' = blocks
    BY <1>0 DEF Sound, IsVolume, volume, EntryMaps, Components, Reparent
  <2>4. old \in Inos
    BY <1>2, <2>1, <2>2, <2>3 DEF EntryMaps
  <2> HIDE DEF old
  <2>5. /\ op'.stage = "reparent .." /\ op'.parent = old /\ op'.new = op.new
        /\ op'.old = op.old /\ DOMAIN op' = DOMAIN op
    BY <1>0, <1>2 DEF Inv, InCall
  <2>6. InCall'
    BY <1>0, <2>5 DEF Inv, InCall, OneName
  <2>7. IsVolume(volume)' /\ (kind[ROOT] = "dir")'
    BY <1>2, <2>3, <2>4 DEF Inv, IsVolume, volume
  <2>8. Covered(volume, Short)'
    <3>1. Short' = old
      BY <2>5 DEF Short
    <3>2. ASSUME NEW j \in Inos
          PROVE  /\ kind'[j] = "free" => Count(entry', j) = 0
                 /\ Count(entry', j) <= nlink'[j] + Bit(j = old)
      <4>1. /\ kind[j] = "free" => Count(entry, j) = 0
            /\ Count(entry, j) <= nlink[j] /\ Count(entry, j) \in Nat
            /\ nlink[j] \in Int
        BY <1>0, <2>3, SoundAt, EntsFinite DEF volume
      <4>2. nlink'[j] = nlink[j] - Bit(j = old)
        BY <1>2, <2>3, <2>4, <4>1 DEF Bit
      <4> QED BY <2>3, <4>1, <4>2 DEF Bit
    <3> QED BY <3>1, <3>2 DEF Covered, volume
  <2>9. Moved' = Moved /\ NewParent' = NewParent
    <3>1. Dirname(op.new) \in Seq(Components) /\ op.new \in Seq(Components)
      BY <1>0, InCallPaths
    <3>2. \A n \in Components, d \in Inos \union {0} :
            Step(volume, d, n) = Step(volume', d, n)
      BY <2>3 DEF Step, volume
    <3> DEFINE v == volume
               w == volume'
    <3>3. IsVolume(v)
      BY DEF Inv
    <3> HIDE DEF v, w
    <3>4. Namei(v, op.new) = Namei(w, op.new)
      BY <3>1, <3>2, <3>3, NameiFrame DEF v, w
    <3>5. Namei(v, Dirname(op.new)) = Namei(w, Dirname(op.new))
      BY <3>1, <3>2, <3>3, NameiFrame DEF v, w
    <3> QED BY <3>4, <3>5, <2>5 DEF Moved, NewParent, v, w
  <2>10. Reparenting'
    BY <1>2, <2>1, <2>2, <2>3, <2>4, <2>5, <2>9 DEF Reparenting
  <2> QED BY <2>6, <2>7, <2>8, <2>10 DEF Inv
<1> QED BY <1>1, <1>2 DEF Reparent

(* ".." is no name of a path: rewriting it moves no path. *)
LEMMA ReparentDotDotInv ==
  ASSUME Inv, ReparentDotDot
  PROVE  Inv'
<1>1. /\ op.stage = "reparent .." /\ entry' = Written(entry, Moved, "..", NewParent)
      /\ op' = [op EXCEPT !.stage = "reparent +"]
      /\ kind' = kind /\ nlink' = nlink /\ blocks' = blocks
  BY DEF ReparentDotDot, Written, Goto
<1>2. /\ Moved \in Inos /\ entry[Moved][".."] = op.parent
      /\ op.parent \in Inos /\ NewParent \in Inos
      /\ op.parent # NewParent /\ kind[NewParent] = "dir"
  BY <1>1 DEF Inv, Reparenting
<1>3. /\ IsVolume(volume) /\ entry \in EntryMaps /\ nlink \in [Inos -> Int]
      /\ ".." \in Components
  BY DEF Inv, IsVolume, volume, EntryMaps, Components
<1>4. /\ op'.stage = "reparent +" /\ op'.parent = op.parent /\ op'.new = op.new
      /\ op'.old = op.old /\ DOMAIN op' = DOMAIN op
  BY <1>1 DEF Inv, InCall
<1>5. InCall'
  BY <1>1, <1>4 DEF Inv, InCall, OneName
<1>6. IsVolume(volume)' /\ (kind[ROOT] = "dir")'
  <2>1. entry' \in EntryMaps
    BY <1>1, <1>2, <1>3 DEF EntryMaps, Written
  <2> QED BY <2>1, <1>1 DEF Inv, IsVolume, volume, EntryMaps
<1>7. NewParent' = NewParent
  <2>1. Dirname(op.new) \in Seq(Names) /\ Names \subseteq Components
    BY <1>1, PathsAreNames DEF Inv, InCall, Components
  <2>2. \A n \in Names, d \in Inos \union {0} :
          Step(volume, d, n) = Step(volume', d, n)
    <3>1. \A n \in Names : n # ".."
      BY NamespaceAssumption
    <3>2. \A n \in Names, d \in Inos : entry'[d][n] = entry[d][n]
      <4>1. ASSUME NEW n \in Names, NEW d \in Inos PROVE entry'[d][n] = entry[d][n]
        <5>1. n # ".." /\ n \in Components
          BY <3>1 DEF Components
        <5>2. CASE d = Moved
          BY <5>1, <5>2, <1>1, <1>2, <1>3 DEF EntryMaps, Written
        <5>3. CASE d # Moved
          BY <5>3, <1>1, <1>2, <1>3 DEF EntryMaps, Written
        <5> QED BY <5>2, <5>3
      <4> QED BY <4>1
    <3> QED BY <3>2, <1>1 DEF Step, volume
  <2> DEFINE v == volume
             w == volume'
  <2> HIDE DEF v, w
  <2>3. Namei(v, Dirname(op.new)) = Namei(w, Dirname(op.new))
    BY <2>1, <2>2, <1>3, NameiFrame DEF v, w
  <2> QED BY <2>3, <1>4 DEF NewParent, v, w
<1>8. Covered(volume, Short)'
  <2>1. Short = op.parent /\ Short' = NewParent
    BY <1>1, <1>4, <1>7 DEF Short
  <2>2. ASSUME NEW j \in Inos
        PROVE  /\ kind'[j] = "free" => Count(entry', j) = 0
               /\ Count(entry', j) <= nlink'[j] + Bit(j = NewParent)
    <3>1. /\ kind[j] = "free" => Count(entry, j) = 0
          /\ Count(entry, j) <= nlink[j] + Bit(j = op.parent)
          /\ Count(entry, j) \in Nat /\ nlink[j] \in Int
      BY <2>1, <1>3, EntsFinite DEF Inv, Covered, volume
    <3>2. Count(entry', j) = Count(entry, j) + Bit(j = NewParent) - Bit(j = op.parent)
      <4>1. entry[Moved][".."] # NewParent
        BY <1>2
      <4>2. Count(Written(entry, Moved, "..", NewParent), j)
              = Count(entry, j) + Bit(j = NewParent) - Bit(j = entry[Moved][".."])
        BY <4>1, <1>2, <1>3, EntryWritten
      <4> QED BY <4>2, <1>1, <1>2
    <3>3. Count(entry, op.parent) # 0
      BY <1>2, <1>3, EntryCounts
    <3>4. kind'[j] = "free" => Count(entry', j) = 0
      <4>1. SUFFICES ASSUME kind[j] = "free" PROVE Count(entry', j) = 0
        BY <1>1
      <4>2. j # NewParent /\ j # op.parent
        BY <4>1, <3>1, <3>3, <1>2
      <4> QED BY <4>1, <4>2, <3>1, <3>2 DEF Bit
    <3>5. Count(entry', j) <= nlink'[j] + Bit(j = NewParent)
      <4>1. nlink'[j] = nlink[j] /\ op.parent # NewParent
        BY <1>1, <1>2
      <4>2. CASE j = NewParent
        BY <4>1, <4>2, <3>1, <3>2 DEF Bit
      <4>3. CASE j = op.parent
        BY <4>1, <4>3, <3>1, <3>2 DEF Bit
      <4>4. CASE j # NewParent /\ j # op.parent
        BY <4>1, <4>4, <3>1, <3>2 DEF Bit
      <4> QED BY <4>2, <4>3, <4>4
    <3> QED BY <3>4, <3>5
  <2> QED BY <2>1, <2>2 DEF Covered, volume
<1>9. Reparenting'
  BY <1>2, <1>4, <1>7 DEF Reparenting
<1> QED BY <1>5, <1>6, <1>8, <1>9 DEF Inv

(* The link of the directory that something came to, counted *)
Counted(v, new) == [v EXCEPT !.nlink[new] = Char(@ + 1)]

LEMMA ParentCounted ==
  ASSUME Inv, CountsFit, ReparentCount
  PROVE  /\ op.parent \in Inos /\ NewParent \in Inos
         /\ Sound(Counted(volume, NewParent))
         /\ Counted(volume, NewParent).kind = kind /\ Counted(volume, NewParent).entry = entry
         /\ Counted(volume, NewParent).nlink = [nlink EXCEPT ![NewParent] = nlink[NewParent] + 1]
<1> DEFINE new == NewParent
           u == Counted(volume, new)
<1>1. op.stage = "reparent +"
  BY DEF ReparentCount
<1>2. op.parent \in Inos /\ new \in Inos
  BY <1>1 DEF Inv, Reparenting
<1>3. Covered(volume, new) /\ IsVolume(volume) /\ kind[ROOT] = "dir"
  BY <1>1 DEF Inv, Short
<1> HIDE DEF new
<1>4. nlink \in [Inos -> Int] /\ nlink[new] < MaxLink
  BY <1>1, <1>2, <1>3 DEF CountsFit, IsVolume, volume
<1>5. Char(nlink[new] + 1) = nlink[new] + 1
  BY <1>2, <1>4, NamespaceAssumption DEF Char
<1>6. /\ u.kind = kind /\ u.entry = entry /\ u.nlink = [nlink EXCEPT ![new] = nlink[new] + 1]
      /\ u.blocks = blocks /\ DOMAIN u = DOMAIN volume
  BY <1>2, <1>4, <1>5 DEF volume, Counted
<1> HIDE DEF u
<1>7. IsVolume(u)
  <2>1. u.nlink \in [Inos -> Int]
    BY <1>2, <1>4, <1>6
  <2> QED BY <2>1, <1>3, <1>6 DEF IsVolume, volume
<1>8. ASSUME NEW j \in Inos
      PROVE  /\ u.kind[j] = "free" => Count(u.entry, j) = 0
             /\ Count(u.entry, j) <= u.nlink[j] + Bit(j = 0)
  <2>1. /\ kind[j] = "free" => Count(entry, j) = 0
        /\ Count(entry, j) <= nlink[j] + Bit(j = new)
        /\ Count(entry, j) \in Nat /\ nlink[j] \in Int
    BY <1>3, <1>4, EntsFinite DEF Covered, volume
  <2>2. u.nlink[j] = nlink[j] + Bit(j = new)
    BY <1>2, <1>4, <1>6 DEF Bit
  <2>3. Bit(j = 0) = 0
    BY NamespaceAssumption DEF Bit
  <2> QED BY <2>1, <2>2, <2>3, <1>6 DEF Bit
<1>9. Sound(u)
  BY <1>3, <1>6, <1>7, <1>8 DEF Sound, Covered
<1> QED BY <1>2, <1>6, <1>9 DEF u, new

LEMMA ReparentCountInv ==
  ASSUME Inv, CountsFit, ReparentCount
  PROVE  Inv'
<1> DEFINE u == Counted(volume, NewParent)
           t == Iput(u, NewParent)
           w == Iput(t, op.parent)
<1>1. op.stage = "reparent +" /\ Become(w) /\ op' = Idle(TRUE)
  BY DEF ReparentCount, Goto, Counted
<1> HIDE DEF u
<1>2. op.parent \in Inos /\ NewParent \in Inos /\ Sound(u)
  BY <1>1, ParentCounted DEF u
<1>3. Sound(t)
  BY <1>2, IputSound
<1> HIDE DEF t
<1>4. Sound(w)
  BY <1>2, <1>3, IputSound
<1> HIDE DEF w
<1> QED BY <1>1, <1>4, IdleInv DEF Idles

-----------------------------------------------------------------------------
LEMMA RootLinks ==
  ASSUME Init
  PROVE  Count(entry, ROOT) = 2
<1>1. Ents(entry, ROOT) = {<<ROOT, ".">>, <<ROOT, "..">>}
  <2>1. \A d \in Inos, n \in Components :
          entry[d][n] = IF d = ROOT /\ n \in {".", ".."} THEN ROOT ELSE 0
    BY DEF Init
  <2>2. "." \in Components /\ ".." \in Components /\ ROOT \in Inos /\ ROOT # 0
    BY NamespaceAssumption DEF Components
  <2> QED BY <2>1, <2>2 DEF Ents
<1>2. IsFiniteSet({<<ROOT, ".">>}) /\ Cardinality({<<ROOT, ".">>}) = 1
  BY FS_Singleton
<1>3. {<<ROOT, ".">>} \union {<<ROOT, "..">>} = {<<ROOT, ".">>, <<ROOT, "..">>}
  OBVIOUS
<1>4. <<ROOT, "..">> \notin {<<ROOT, ".">>}
  <2>1. "." # ".."
    OBVIOUS
  <2> QED BY <2>1
<1>5. Cardinality({<<ROOT, ".">>} \union {<<ROOT, "..">>}) = 2
  <2> DEFINE S == {<<ROOT, ".">>}
             x == <<ROOT, "..">>
  <2>1. IsFiniteSet(S) /\ Cardinality(S) = 1 /\ x \notin S
    BY <1>2, <1>4
  <2> HIDE DEF S, x
  <2>2. Cardinality(S \union {x}) = 2
    BY <2>1, FS_AddElement
  <2> QED BY <2>2 DEF S, x
<1> QED BY <1>1, <1>3, <1>5 DEF Count

LEMMA InitInv ==
  ASSUME Init
  PROVE  Inv
<1>1. op.stage = "idle"
  BY DEF Init, Idle
<1>2. /\ kind \in [Inos -> {"free", "file", "dir"}] /\ nlink \in [Inos -> Int]
      /\ entry \in EntryMaps /\ blocks \in [Inos -> Int]
  BY NamespaceAssumption DEF Init, EntryMaps
<1>3. IsVolume(volume) /\ kind[ROOT] = "dir"
  BY <1>2, NamespaceAssumption DEF Init, IsVolume, volume, EntryMaps
<1>4. Count(entry, ROOT) = 2
  BY RootLinks
<1>5. \A i \in Inos \ {ROOT} : Count(entry, i) = 0
  <2>1. ASSUME NEW i \in Inos \ {ROOT} PROVE Ents(entry, i) = {}
    BY NamespaceAssumption DEF Init, Ents
  <2> QED BY <2>1, FS_EmptySet DEF Count
<1>6. Covered(volume, Short)
  <2>1. Short = 0
    BY <1>1 DEF Short
  <2>2. ASSUME NEW i \in Inos
        PROVE  /\ kind[i] = "free" => Count(entry, i) = 0
               /\ Count(entry, i) <= nlink[i] + Bit(i = 0)
    <3>1. Bit(i = 0) = 0
      BY NamespaceAssumption DEF Bit
    <3>2. CASE i = ROOT
      BY <3>1, <3>2, <1>3, <1>4 DEF Init
    <3>3. CASE i # ROOT
      BY <3>1, <3>3, <1>5 DEF Init
    <3> QED BY <3>2, <3>3
  <2> QED BY <2>1, <2>2 DEF Covered, volume
<1> QED BY <1>1, <1>3, <1>6 DEF Inv, InCall, Reparenting

LEMMA NextInv ==
  ASSUME Inv, CountsFit, [Next]_vars
  PROVE  Inv'
<1>1. CASE UNCHANGED vars
  <2>1. volume' = volume /\ op' = op /\ kind' = kind /\ entry' = entry
        /\ Moved' = Moved /\ NewParent' = NewParent
    BY <1>1 DEF vars, volume, Moved, NewParent
  <2> QED BY <2>1 DEF Inv, InCall, Short, Reparenting
<1>2. ASSUME NEW p \in Paths,
             Mknod(p) \/ UnlinkFile(p) \/ Mkdir(p) \/ Rmdir(p)
               \/ \E q \in Paths : LinkFile(p, q) \/ Rename(p, q)
      PROVE  Inv'
  <2>1. op.stage = "idle"
    BY <1>2 DEF Mknod, UnlinkFile, Mkdir, Rmdir, LinkFile, Rename
  <2> QED BY <1>2, <2>1, BeginInv
<1>3. CASE MkdirDot \/ MkdirDotDot \/ UndoDotDot \/ UndoDot \/ Undo
  BY <1>3, MkdirInv
<1>4. CASE RmdirDotDot \/ RmdirDot \/ RmdirDir
  BY <1>4, RmdirInv
<1>5. CASE RenameUnlinkNew \/ RenameLink \/ RenameUnlinkOld
  BY <1>5, RenameInv
<1>6. CASE Reparent /\ UNCHANGED <<kernel, full>>
  BY <1>6, ReparentInv
<1>7. CASE ReparentDotDot
  BY <1>7, ReparentDotDotInv
<1>8. CASE ReparentCount
  BY <1>8, ReparentCountInv
<1>9. Next => Call /\ UNCHANGED <<kernel, full>>
  BY DEF Next
<1> QED BY <1>1, <1>2, <1>3, <1>4, <1>5, <1>6, <1>7, <1>8, <1>9 DEF Call

(* No inode has more entries than links, at any step of any call on any    *)
(* kernel, whatever fails for want of a block, as long as the counts that  *)
(* no code checks stay within their type; an inode that is free has none,  *)
(* always.                                                                 *)
THEOREM LinksAreEnough == Spec /\ []CountsFit => []LinksCoverEntries
<1>1. Init => Inv
  BY InitInv
<1>2. Inv /\ CountsFit /\ [Next]_vars => Inv'
  BY NextInv
<1>3. Inv => LinksCoverEntries
  <2> SUFFICES ASSUME Inv, NEW i \in Inos
               PROVE  /\ kind[i] = "free" => EntriesOf(i) = {}
                      /\ op.stage \notin {"reparent ..", "reparent +"} =>
                           Cardinality(EntriesOf(i)) <= nlink[i]
    BY DEF LinksCoverEntries
  <2>1. EntriesOf(i) = Ents(entry, i) /\ Cardinality(EntriesOf(i)) = Count(entry, i)
    BY DEF EntriesOf, Ents, Count
  <2>2. kind[i] = "free" => EntriesOf(i) = {}
    <3>1. kind[i] = "free" => Count(entry, i) = 0
      BY DEF Inv, Covered, volume
    <3> QED BY <3>1, <2>1, EntsFinite, FS_EmptySet DEF Count
  <2>3. ASSUME op.stage \notin {"reparent ..", "reparent +"}
        PROVE  Count(entry, i) <= nlink[i]
    <3>1. Sound(volume)
      BY <2>3, InvSound
    <3>2. Count(volume.entry, i) <= volume.nlink[i]
      BY <3>1, SoundAt
    <3> QED BY <3>2 DEF volume
  <2> QED BY <2>1, <2>2, <2>3
<1> QED BY <1>1, <1>2, <1>3, PTL DEF Spec

-----------------------------------------------------------------------------
(* The tree.  What a change of the names leaves of the walks along them.   *)

Avoids(v, p, i) ==
  \E at : Walks(v, p, Len(p), at) /\ \A k \in 0 .. Len(p) : at[k] # i

LEMMA WalkIs ==
  ASSUME NEW v, NEW p, Len(p) \in Nat, NEW at, Walks(v, p, Len(p), at)
  PROVE  Namei(v, p) = at[Len(p)]
<1>1. PICK bt : Namei(v, p) = bt[Len(p)] /\ Walks(v, p, Len(p), bt)
  BY NameiWalks
<1>2. SameSteps(v, p, v, p, Len(p), at)
  BY DEF SameSteps
<1> QED BY <1>1, <1>2, SameWalk

LEMMA WalkPrefix ==
  ASSUME NEW v, NEW S, NEW p \in Seq(S), NEW at, Walks(v, p, Len(p), at),
         NEW k \in 0 .. Len(p)
  PROVE  Namei(v, SubSeq(p, 1, k)) = at[k]
<1>0. Len(p) \in Nat /\ \A l \in 1 .. Len(p) : p[l] \in S
  BY LenProperties, ElementOfSeq
<1> DEFINE q == SubSeq(p, 1, k)
<1>1. k \in Nat /\ k <= Len(p) /\ \A l \in 1 .. k : p[l] \in S
  BY <1>0
<1>2. Len(q) = k
  <2>1. Len(q) = IF 1 <= k THEN k - 1 + 1 ELSE 0
    BY <1>1, SubSeqProperties
  <2> QED BY <2>1, <1>1
<1>3. \A l \in 1 .. k : q[l] = p[l]
  <2>1. \A l \in 1 .. k - 1 + 1 : q[l] = p[1 + l - 1]
    BY <1>1, SubSeqProperties
  <2>2. k - 1 + 1 = k /\ \A l \in 1 .. k : 1 + l - 1 = l
    BY <1>1
  <2> QED BY <2>1, <2>2
<1> HIDE DEF q
<1>4. Walks(v, q, Len(q), at)
  BY <1>0, <1>1, <1>2, <1>3 DEF Walks
<1> QED BY <1>1, <1>2, <1>4, WalkIs DEF q

(* A walk that lost its way does not find it again. *)
LEMMA WalkFinds ==
  ASSUME NEW v, NEW p, Len(p) \in Nat, NEW at, Walks(v, p, Len(p), at), at[Len(p)] # 0
  PROVE  \A k \in 0 .. Len(p) : at[k] # 0
<1> DEFINE Lost == {m \in 0 .. Len(p) : at[Len(p) - m] = 0}
<1>1. ASSUME Lost # {} PROVE FALSE
  <2>1. /\ Lost \subseteq Nat /\ Lost \subseteq 0 .. Len(p)
        /\ \A m \in 0 .. Len(p) : m \in Lost <=> at[Len(p) - m] = 0
    OBVIOUS
  <2> HIDE DEF Lost
  <2>2. PICK m \in Lost : \A l \in Lost : m <= l
    BY <1>1, <2>1, LeastNatural
  <2>3. m \in 1 .. Len(p)
    BY <2>1, <2>2
  <2> DEFINE k == Len(p) - m
  <2>4. k + 1 \in 1 .. Len(p) /\ (k + 1) - 1 = k /\ k + 1 = Len(p) - (m - 1)
        /\ m - 1 \in 0 .. Len(p) /\ ~(m <= m - 1)
    BY <2>3
  <2>5. at[k] = 0
    BY <2>1, <2>2
  <2>6. at[k + 1] = 0
    <3>1. at[k + 1] = Step(v, at[(k + 1) - 1], p[k + 1])
      BY <2>4 DEF Walks
    <3> QED BY <3>1, <2>4, <2>5 DEF Step
  <2>7. m - 1 \in Lost
    BY <2>1, <2>4, <2>6
  <2> QED BY <2>2, <2>4, <2>7
<1>2. ASSUME NEW k \in 0 .. Len(p), at[k] = 0 PROVE FALSE
  <2>1. Len(p) - k \in 0 .. Len(p) /\ Len(p) - (Len(p) - k) = k
    OBVIOUS
  <2> QED BY <2>1, <1>1, <1>2
<1> QED BY <1>2

(* The step from each directory of a walk on, in another volume *)
LEMMA WalkOn ==
  ASSUME NEW v, NEW w, NEW p, Len(p) \in Nat, NEW at, Walks(v, p, Len(p), at),
         SameSteps(v, p, w, p, Len(p), at)
  PROVE  /\ Namei(w, p) = Namei(v, p)
         /\ \A j : Avoids(v, p, j) => Avoids(w, p, j)
<1>1. Walks(w, p, Len(p), at)
  BY DEF Walks, SameSteps
<1>2. Namei(w, p) = at[Len(p)] /\ Namei(v, p) = at[Len(p)]
  BY <1>1, WalkIs
<1>3. ASSUME NEW j, Avoids(v, p, j) PROVE Avoids(w, p, j)
  <2>1. PICK bt : Walks(v, p, Len(p), bt) /\ \A k \in 0 .. Len(p) : bt[k] # j
    BY <1>3 DEF Avoids
  <2>2. ASSUME NEW k \in 0 .. Len(p) PROVE at[k] = bt[k]
    <3>1. Walks(v, p, k, at) /\ Walks(v, p, k, bt) /\ SameSteps(v, p, v, p, k, at)
      BY <2>1 DEF Walks, SameSteps
    <3> QED BY <3>1, SameWalk
  <2> QED BY <1>1, <2>1, <2>2 DEF Avoids
<1> QED BY <1>2, <1>3

Extends(v, w) ==
  \A d \in Inos, n \in Names : Step(v, d, n) # 0 => Step(w, d, n) = Step(v, d, n)

Spares(v, w, i) ==
  \A d \in Inos \union {0}, n \in Names :
    d # i /\ Step(v, d, n) # i => Step(w, d, n) = Step(v, d, n)

LEMMA NamesWalk ==
  ASSUME NEW v, IsVolume(v), NEW p \in Seq(Names)
  PROVE  /\ Len(p) \in Nat /\ \A k \in 1 .. Len(p) : p[k] \in Names
         /\ \A at : Walks(v, p, Len(p), at) =>
              \A k \in 0 .. Len(p) : at[k] \in Inos \union {0}
         /\ p \in Seq(Components)
<1>1. p \in Seq(Components)
  BY SeqMonotonic DEF Components
<1> QED BY <1>1, LenProperties, ElementOfSeq, WalkType

LEMMA NameiExtends ==
  ASSUME NEW v, IsVolume(v), NEW w, Extends(v, w), NEW p \in Seq(Names), Namei(v, p) # 0
  PROVE  /\ Namei(w, p) = Namei(v, p)
         /\ \A j : Avoids(v, p, j) => Avoids(w, p, j)
<1>0. Len(p) \in Nat /\ \A k \in 1 .. Len(p) : p[k] \in Names
  BY NamesWalk
<1>1. PICK at : Namei(v, p) = at[Len(p)] /\ Walks(v, p, Len(p), at)
  BY <1>0, NameiWalks
<1>2. \A k \in 0 .. Len(p) : at[k] # 0 /\ at[k] \in Inos
  <2>1. \A k \in 0 .. Len(p) : at[k] # 0
    BY <1>0, <1>1, WalkFinds
  <2>2. \A k \in 0 .. Len(p) : at[k] \in Inos \union {0}
    BY <1>1, NamesWalk
  <2> QED BY <2>1, <2>2
<1>3. SameSteps(v, p, w, p, Len(p), at)
  <2>1. ASSUME NEW k \in 1 .. Len(p) PROVE Step(v, at[k - 1], p[k]) = Step(w, at[k - 1], p[k])
    <3>1. k - 1 \in 0 .. Len(p) /\ k \in 0 .. Len(p) /\ at[k] = Step(v, at[k - 1], p[k])
      BY <1>0, <1>1 DEF Walks
    <3> QED BY <3>1, <1>0, <1>2 DEF Extends
  <2> QED BY <2>1 DEF SameSteps
<1> QED BY <1>0, <1>1, <1>3, WalkOn

LEMMA NameiSpares ==
  ASSUME NEW v, IsVolume(v), NEW w, NEW i, Spares(v, w, i), NEW p \in Seq(Names),
         Avoids(v, p, i)
  PROVE  /\ Namei(w, p) = Namei(v, p)
         /\ \A j : Avoids(v, p, j) => Avoids(w, p, j)
<1>0. Len(p) \in Nat /\ \A k \in 1 .. Len(p) : p[k] \in Names
  BY NamesWalk
<1>1. PICK at : Walks(v, p, Len(p), at) /\ \A k \in 0 .. Len(p) : at[k] # i
  BY DEF Avoids
<1>2. \A k \in 0 .. Len(p) : at[k] \in Inos \union {0}
  BY <1>1, NamesWalk
<1>3. SameSteps(v, p, w, p, Len(p), at)
  <2>1. ASSUME NEW k \in 1 .. Len(p) PROVE Step(v, at[k - 1], p[k]) = Step(w, at[k - 1], p[k])
    <3>1. k - 1 \in 0 .. Len(p) /\ k \in 0 .. Len(p) /\ at[k] = Step(v, at[k - 1], p[k])
      BY <1>0, <1>1 DEF Walks
    <3> QED BY <3>1, <1>0, <1>1, <1>2 DEF Spares
  <2> QED BY <2>1 DEF SameSteps
<1> QED BY <1>0, <1>1, <1>3, WalkOn

(* A path that leads elsewhere does not go by an inode without names in it. *)
LEMMA LeafAvoided ==
  ASSUME NEW v, IsVolume(v), NEW j, \A n \in Names : Step(v, j, n) = 0,
         NEW p \in Seq(Names), Namei(v, p) \notin {0, j}
  PROVE  Avoids(v, p, j)
<1>0. Len(p) \in Nat /\ \A k \in 1 .. Len(p) : p[k] \in Names
  BY NamesWalk
<1>1. PICK at : Namei(v, p) = at[Len(p)] /\ Walks(v, p, Len(p), at)
  BY <1>0, NameiWalks
<1>2. \A k \in 0 .. Len(p) : at[k] # 0
  BY <1>0, <1>1, WalkFinds
<1>3. ASSUME NEW k \in 0 .. Len(p), at[k] = j PROVE FALSE
  <2>1. k + 1 \in 1 .. Len(p) /\ (k + 1) - 1 = k /\ k + 1 \in 0 .. Len(p)
    BY <1>0, <1>1, <1>3
  <2>2. at[k + 1] = Step(v, at[(k + 1) - 1], p[k + 1])
    BY <2>1, <1>1 DEF Walks
  <2> QED BY <2>1, <2>2, <1>0, <1>2, <1>3
<1> QED BY <1>1, <1>3 DEF Avoids

(* What is true of a volume as a tree, but for inode x, which a call is    *)
(* about to make, to remove or to move *)
Named(v, i) == \E d \in Inos, n \in Names : v.entry[d][n] = i
Rooted(v, i) == i = ROOT \/ Named(v, i)

OnlyName(v, i, d, n) ==
  /\ d \in Inos /\ n \in Names /\ v.entry[d][n] = i
  /\ \A c \in Inos, m \in Names : v.entry[c][m] = i => c = d /\ m = n

Hollow(v, i) == \A n \in Names : v.entry[i][n] = 0

InTree(v, i) ==
  IF Named(v, i)
  THEN v.entry[i]["."] = i /\ \E n \in Names : OnlyName(v, i, v.entry[i][".."], n)
  ELSE Void(v, i)

RootOK(v) ==
  v.entry[ROOT]["."] = ROOT /\ v.entry[ROOT][".."] = ROOT /\ ~Named(v, ROOT)

TreeBut(v, x) ==
  /\ \A i \in Inos : v.kind[i] # "dir" => Void(v, i)
  /\ RootOK(v)
  /\ \A i \in Inos \ {ROOT, x} : v.kind[i] = "dir" => InTree(v, i)

(* A path from the root: the name it ends in *)
LEMMA NameOf ==
  ASSUME NEW v, IsVolume(v), NEW p \in Seq(Names), p # <<>>, Namei(v, p) # 0
  PROVE  /\ Pdir(v, p) = Namei(v, Dirname(p)) /\ Dirname(p) \in Seq(Names)
         /\ Pdir(v, p) \in Inos /\ v.kind[Pdir(v, p)] = "dir" /\ Last(p) \in Names
         /\ v.entry[Pdir(v, p)][Last(p)] = Namei(v, p)
         /\ Namei(v, p) \in Inos /\ Named(v, Namei(v, p))
<1>1. p \in Seq(Components)
  BY NamesWalk
<1>2. Dirname(p) \in Seq(Names) /\ Last(p) \in Names
  BY DirnameType
<1>3. /\ Pdir(v, p) \in Inos /\ v.kind[Pdir(v, p)] = "dir"
      /\ v.entry[Pdir(v, p)][Last(p)] = Namei(v, p)
  BY <1>1, NamedByEntry
<1>4. Namei(v, p) \in Inos
  BY <1>1, NameiType
<1>5. Pdir(v, p) # 0
  BY <1>3, NamespaceAssumption
<1>6. Pdir(v, p) = Namei(v, Dirname(p))
  BY <1>5 DEF Pdir
<1> QED BY <1>2, <1>3, <1>4, <1>6 DEF Named

LEMMA PathRooted ==
  ASSUME NEW v, IsVolume(v), NEW p \in Seq(Names), Namei(v, p) # 0
  PROVE  Rooted(v, Namei(v, p)) /\ Namei(v, p) \in Inos
<1>1. CASE p = <<>>
  BY <1>1, NameiStep, NamespaceAssumption DEF Rooted
<1>2. CASE p # <<>>
  BY <1>2, NameOf DEF Rooted
<1> QED BY <1>1, <1>2

(* In a tree one path leads to a directory. *)
LEMMA OnePath ==
  ASSUME NEW v, IsVolume(v), TreeBut(v, 0), NEW p \in Seq(Names), NEW q \in Seq(Names),
         Namei(v, p) = Namei(v, q), Namei(v, p) # 0, v.kind[Namei(v, p)] = "dir"
  PROVE  p = q
<1> DEFINE Fork(a, b) == /\ Namei(v, a) = Namei(v, b) /\ Namei(v, a) # 0
                         /\ v.kind[Namei(v, a)] = "dir" /\ a # b
           Forks == {k \in Nat : \E a, b \in Seq(Names) : Len(a) = k /\ Fork(a, b)}
<1>1. SUFFICES ASSUME Fork(p, q) PROVE FALSE
  OBVIOUS
<1>2. Len(p) \in Forks
  BY <1>1, LenProperties
<1>3. Forks \subseteq Nat /\ Forks # {}
  BY <1>2
<1>4. PICK k \in Forks : \A l \in Forks : k <= l
  <2> HIDE DEF Forks
  <2> QED BY <1>3, LeastNatural
<1>5. PICK a \in Seq(Names), b \in Seq(Names) : Len(a) = k /\ Fork(a, b)
  BY <1>4
<1> DEFINE i == Namei(v, a)
<1>6. \A c \in Seq(Names) : c = <<>> => Namei(v, c) = ROOT
  BY NameiStep
<1>7. ~Named(v, ROOT)
  BY DEF TreeBut, RootOK
<1>8. a # <<>> /\ b # <<>>
  <2>1. CASE a = <<>>
    <3>1. b # <<>> /\ Namei(v, b) = ROOT /\ ROOT # 0
      BY <2>1, <1>5, <1>6, NamespaceAssumption
    <3> QED BY <3>1, <1>7, NameOf
  <2>2. CASE b = <<>>
    <3>1. a # <<>> /\ Namei(v, a) = ROOT /\ ROOT # 0
      BY <2>2, <1>5, <1>6, NamespaceAssumption
    <3> QED BY <3>1, <1>7, NameOf
  <2> QED BY <2>1, <2>2
<1>9. /\ Pdir(v, a) = Namei(v, Dirname(a)) /\ Dirname(a) \in Seq(Names)
      /\ Pdir(v, a) \in Inos /\ v.kind[Pdir(v, a)] = "dir" /\ Last(a) \in Names
      /\ v.entry[Pdir(v, a)][Last(a)] = i /\ i \in Inos /\ Named(v, i)
  BY <1>5, <1>8, NameOf
<1>10. /\ Pdir(v, b) = Namei(v, Dirname(b)) /\ Dirname(b) \in Seq(Names)
       /\ Pdir(v, b) \in Inos /\ v.kind[Pdir(v, b)] = "dir" /\ Last(b) \in Names
       /\ v.entry[Pdir(v, b)][Last(b)] = i
  <2>1. Namei(v, b) = i /\ Namei(v, b) # 0
    BY <1>5
  <2> HIDE DEF i
  <2> QED BY <2>1, <1>8, NameOf
<1>11. Pdir(v, a) = Pdir(v, b) /\ Last(a) = Last(b)
  <2>1. i # ROOT /\ v.kind[i] = "dir" /\ i # 0
    BY <1>5, <1>7, <1>9
  <2> HIDE DEF i
  <2>2. InTree(v, i)
    BY <2>1, <1>9 DEF TreeBut
  <2>3. PICK n \in Names : OnlyName(v, i, v.entry[i][".."], n)
    BY <2>2, <1>9 DEF InTree
  <2> QED BY <2>3, <1>9, <1>10 DEF OnlyName
<1>12. Dirname(a) # Dirname(b)
  <2>1. /\ Len(a) \in Nat /\ Len(b) \in Nat /\ Len(a) # 0 /\ Len(b) # 0
        /\ Len(Dirname(a)) = Len(a) - 1 /\ Len(Dirname(b)) = Len(b) - 1
    BY <1>8, LenProperties, EmptySeq, DirnameType
  <2>2. /\ \A l \in 1 .. Len(a) - 1 : Dirname(a)[l] = a[l]
        /\ \A l \in 1 .. Len(b) - 1 : Dirname(b)[l] = b[l]
    BY <1>8, DirnameType
  <2>3. a[Len(a)] = Last(a) /\ b[Len(b)] = Last(b)
    BY DEF Last
  <2>4. SUFFICES ASSUME Dirname(a) = Dirname(b) PROVE FALSE
    OBVIOUS
  <2>5. Len(a) = Len(b)
    BY <2>1, <2>4
  <2>6. \A l \in 1 .. Len(a) : a[l] = b[l]
    BY <2>1, <2>2, <2>3, <2>4, <2>5, <1>11
  <2>7. a = b
    BY <2>5, <2>6, SeqEqual
  <2> QED BY <2>7, <1>5
<1>13. Len(Dirname(a)) = k - 1 /\ k - 1 \in Nat
  BY <1>5, <1>8, DirnameType
<1>14. Fork(Dirname(a), Dirname(b))
  BY <1>9, <1>10, <1>11, <1>12, NamespaceAssumption
<1>15. k - 1 \in Forks
  BY <1>9, <1>10, <1>13, <1>14
<1>16. ~(k <= k - 1)
  BY <1>13
<1> HIDE DEF Forks
<1> QED BY <1>4, <1>15, <1>16

(* What one entry written does to the tree *)
SameNames(v, w, i) ==
  \A d \in Inos, n \in Names : v.entry[d][n] = i <=> w.entry[d][n] = i

LEMMA StaysInTree ==
  ASSUME NEW v, NEW w, NEW i \in Inos, SameNames(v, w, i), InTree(v, i),
         w.entry[i]["."] = v.entry[i]["."], w.entry[i][".."] = v.entry[i][".."],
         ~Named(v, i) /\ Void(v, i) => Void(w, i)
  PROVE  InTree(w, i)
<1>1. Named(w, i) <=> Named(v, i)
  BY DEF SameNames, Named
<1>2. \A d, n : OnlyName(v, i, d, n) => OnlyName(w, i, d, n)
  BY DEF SameNames, OnlyName
<1> QED BY <1>1, <1>2 DEF InTree

LEMMA NamesAre ==
  /\ \A n \in Names : n \in Components /\ n # "." /\ n # ".."
  /\ "." \in Components /\ ".." \in Components /\ 0 \notin Inos /\ ROOT \in Inos
  /\ \A n \in Components : n \in Names \/ n = "." \/ n = ".."
BY NamespaceAssumption DEF Components

LEMMA AddName ==
  ASSUME NEW v, IsVolume(v), NEW w, TreeBut(v, 0),
         NEW d \in Inos, NEW n \in Names, NEW i \in Inos \ {ROOT},
         w.entry = Written(v.entry, d, n, i), v.entry[d][n] = 0,
         v.kind[d] = "dir", Rooted(v, d), \A j \in Inos \ {i} : w.kind[j] = v.kind[j],
         w.kind[i] # "dir" => d # i /\ Void(v, i)
  PROVE  TreeBut(w, i)
<1>1. \A c \in Inos, m \in Components :
        w.entry[c][m] = IF c = d /\ m = n THEN i ELSE v.entry[c][m]
  BY NamesAre, WrittenAt DEF IsVolume, EntryMaps
<1>2. ASSUME NEW j \in Inos, w.kind[j] # "dir" PROVE Void(w, j)
  <2>1. j # d /\ Void(v, j)
    BY <1>2 DEF TreeBut
  <2> QED BY <2>1, <1>1 DEF Void
<1>3. \A j \in Inos \ {i} : SameNames(v, w, j)
  BY <1>1, NamesAre DEF SameNames
<1>4. RootOK(w)
  <2>1. SameNames(v, w, ROOT)
    BY <1>3, NamesAre
  <2>2. ~Named(w, ROOT)
    BY <2>1 DEF TreeBut, RootOK, Named, SameNames
  <2> QED BY <2>2, <1>1, NamesAre DEF TreeBut, RootOK
<1>5. ASSUME NEW j \in Inos \ {ROOT, i}, w.kind[j] = "dir" PROVE InTree(w, j)
  <2>1. InTree(v, j) /\ SameNames(v, w, j)
    BY <1>3, <1>5, NamesAre DEF TreeBut
  <2>2. w.entry[j]["."] = v.entry[j]["."] /\ w.entry[j][".."] = v.entry[j][".."]
    BY <1>1, NamesAre
  <2>3. ASSUME ~Named(v, j), Void(v, j) PROVE Void(w, j)
    <3>1. j # d
      BY <2>3 DEF Rooted
    <3> QED BY <3>1, <2>3, <1>1 DEF Void
  <2> QED BY <2>1, <2>2, <2>3, StaysInTree
<1> QED BY <1>2, <1>4, <1>5 DEF TreeBut

LEMMA DropName ==
  ASSUME NEW v, IsVolume(v), NEW w, NEW d \in Inos, NEW n \in Names,
         NEW i \in Inos \ {ROOT}, v.entry[d][n] = i, TreeBut(v, i),
         w.entry = Written(v.entry, d, n, 0), \A j \in Inos \ {i} : w.kind[j] = v.kind[j],
         w.kind[i] # "dir" => Void(v, i)
  PROVE  TreeBut(w, i)
<1>1. \A c \in Inos, m \in Components :
        w.entry[c][m] = IF c = d /\ m = n THEN 0 ELSE v.entry[c][m]
  BY NamesAre, WrittenAt DEF IsVolume, EntryMaps
<1>2. \A j \in Inos : Void(v, j) => Void(w, j)
  BY <1>1 DEF Void
<1>3. ASSUME NEW j \in Inos, w.kind[j] # "dir" PROVE Void(w, j)
  BY <1>2, <1>3 DEF TreeBut
<1>4. \A j \in Inos \ {i} : SameNames(v, w, j)
  BY <1>1, NamesAre DEF SameNames
<1>5. RootOK(w)
  <2>1. SameNames(v, w, ROOT)
    BY <1>4, NamesAre
  <2>2. ~Named(w, ROOT)
    BY <2>1 DEF TreeBut, RootOK, Named, SameNames
  <2> QED BY <2>2, <1>1, NamesAre DEF TreeBut, RootOK
<1>6. ASSUME NEW j \in Inos \ {ROOT, i}, w.kind[j] = "dir" PROVE InTree(w, j)
  <2>1. InTree(v, j) /\ SameNames(v, w, j)
    BY <1>4, <1>6 DEF TreeBut
  <2>2. w.entry[j]["."] = v.entry[j]["."] /\ w.entry[j][".."] = v.entry[j][".."]
    BY <1>1, NamesAre
  <2> QED BY <2>1, <2>2, <1>2, StaysInTree
<1> QED BY <1>3, <1>5, <1>6 DEF TreeBut

(* No name changed. *)
SameWays(v, w) ==
  w.kind = v.kind /\ \A c \in Inos, m \in Names : w.entry[c][m] = v.entry[c][m]

DotNames == {".", ".."}

LEMMA SetDot ==
  ASSUME NEW v, IsVolume(v), NEW w, NEW s \in Inos \ {ROOT}, TreeBut(v, s),
         v.kind[s] = "dir", NEW n \in DotNames, NEW x,
         w.entry = Written(v.entry, s, n, x), w.kind = v.kind
  PROVE  TreeBut(w, s) /\ SameWays(v, w)
<1>1. \A c \in Inos, m \in Components :
        w.entry[c][m] = IF c = s /\ m = n THEN x ELSE v.entry[c][m]
  BY NamesAre, WrittenAt DEF IsVolume, EntryMaps, DotNames
<1>2. \A c \in Inos, m \in Names : w.entry[c][m] = v.entry[c][m]
  BY <1>1, NamesAre DEF DotNames
<1>3. \A j \in Inos : SameNames(v, w, j) /\ (Named(w, j) <=> Named(v, j))
  BY <1>2 DEF SameNames, Named
<1>4. \A j \in Inos \ {s} : Void(v, j) => Void(w, j)
  BY <1>1 DEF Void
<1>5. ASSUME NEW j \in Inos, w.kind[j] # "dir" PROVE Void(w, j)
  BY <1>4, <1>5 DEF TreeBut
<1>6. RootOK(w)
  BY <1>1, <1>3, NamesAre DEF TreeBut, RootOK
<1>7. ASSUME NEW j \in Inos \ {ROOT, s}, w.kind[j] = "dir" PROVE InTree(w, j)
  <2>1. InTree(v, j) /\ SameNames(v, w, j)
    BY <1>3, <1>7 DEF TreeBut
  <2>2. w.entry[j]["."] = v.entry[j]["."] /\ w.entry[j][".."] = v.entry[j][".."]
    BY <1>1, NamesAre
  <2> QED BY <2>1, <2>2, <1>4, StaysInTree
<1> QED BY <1>2, <1>5, <1>6, <1>7 DEF TreeBut, SameWays

LEMMA TreeWhole ==
  ASSUME NEW v, NEW x, TreeBut(v, x), x \in Inos /\ v.kind[x] = "dir" => InTree(v, x)
  PROVE  TreeBut(v, 0)
BY DEF TreeBut

LEMMA TreePart ==
  ASSUME NEW v, NEW x, TreeBut(v, 0)
  PROVE  TreeBut(v, x)
BY NamespaceAssumption DEF TreeBut

(* The names with "." and "..": what they find *)
LEMMA DotPath ==
  ASSUME NEW v, IsVolume(v), NEW p \in Seq(Components), NEW x \in Components
  PROVE  /\ Append(p, x) \in Seq(Components) /\ Append(p, x) # <<>>
         /\ Dirname(Append(p, x)) = p /\ Last(Append(p, x)) = x
         /\ Namei(v, Append(p, x)) = Step(v, Namei(v, p), x)
         /\ Namei(v, p) # 0 /\ v.kind[Namei(v, p)] = "dir" => Pdir(v, Append(p, x)) = Namei(v, p)
<1> DEFINE q == Append(p, x)
<1>0. Len(p) \in Nat
  BY LenProperties
<1>1. /\ q \in Seq(Components) /\ Len(q) = Len(p) + 1
      /\ q[Len(p) + 1] = x /\ \A k \in 1 .. Len(p) : q[k] = p[k]
  BY AppendProperties
<1> HIDE DEF q
<1>2. q # <<>>
  BY <1>0, <1>1, EmptySeq
<1>3. /\ Dirname(q) \in Seq(Components) /\ Len(Dirname(q)) = Len(p)
      /\ \A k \in 1 .. Len(p) : Dirname(q)[k] = p[k]
  BY <1>0, <1>1, <1>2, DirnameType
<1>4. Dirname(q) = p
  BY <1>3, SeqEqual
<1>5. Last(q) = x
  BY <1>1 DEF Last
<1>6. Namei(v, q) = Step(v, Namei(v, p), x)
  BY <1>1, <1>2, <1>4, <1>5, NameiStep
<1> QED BY <1>1, <1>2, <1>4, <1>5, <1>6 DEF q, Pdir

(* Where no name changed, no path leads elsewhere. *)
LEMMA SameWay ==
  ASSUME NEW v, IsVolume(v), NEW w, SameWays(v, w), NEW p \in Seq(Names)
  PROVE  /\ Namei(w, p) = Namei(v, p)
         /\ p # <<>> => Pdir(w, p) = Pdir(v, p)
         /\ \A i : Avoids(v, p, i) => Avoids(w, p, i)
<1>1. \A d \in Inos \union {0}, n \in Names : Step(v, d, n) = Step(w, d, n)
  BY DEF SameWays, Step
<1>2. Names \subseteq Components
  BY NamesAre
<1>3. \A q \in Seq(Names) : Namei(w, q) = Namei(v, q)
  BY <1>1, <1>2, NameiFrame
<1>4. p # <<>> => Pdir(w, p) = Pdir(v, p)
  BY <1>3, DirnameType DEF Pdir, SameWays
<1>5. \A i : Spares(v, w, i)
  BY <1>1 DEF Spares
<1> QED BY <1>3, <1>4, <1>5, NameiSpares

-----------------------------------------------------------------------------
(* Every link is an entry, where V6 did not count one that it could not    *)
(* write.                                                                  *)
Exact(v, x) ==
  \A i \in Inos : v.kind[i] # "free" => v.nlink[i] + Bit(i = x) = Count(v.entry, i)

LEMMA ExactMade ==
  ASSUME NEW v, Sound(v), Exact(v, 0), NEW w, NEW d \in Inos, NEW n \in Components,
         NEW i \in Inos, v.kind[i] = "free", v.entry[d][n] = 0, NEW k,
         w.entry = Written(v.entry, d, n, i), w.kind = [v.kind EXCEPT ![i] = k],
         w.nlink = [v.nlink EXCEPT ![i] = 1]
  PROVE  Exact(w, 0)
<1>1. ASSUME NEW j \in Inos, w.kind[j] # "free"
      PROVE  w.nlink[j] + Bit(j = 0) = Count(w.entry, j)
  <2>1. v.entry \in EntryMaps /\ v.nlink \in [Inos -> Int] /\ i # 0 /\ j # 0
        /\ v.kind \in [Inos -> {"free", "file", "dir"}]
    BY NamesAre DEF Sound, IsVolume, EntryMaps
  <2>2. Count(Written(v.entry, d, n, i), j)
          = Count(v.entry, j) + Bit(j = i) - Bit(j = v.entry[d][n])
    BY <2>1, EntryWritten
  <2>3. Count(v.entry, j) \in Nat /\ v.nlink[j] \in Int
    BY <2>1, EntsFinite
  <2>4. CASE j = i
    <3>1. Count(v.entry, j) = 0 /\ w.nlink[j] = 1
      BY <2>1, <2>4, SoundAt
    <3> QED BY <3>1, <2>1, <2>2, <2>4 DEF Bit
  <2>5. CASE j # i
    <3>1. w.nlink[j] = v.nlink[j] /\ v.nlink[j] + Bit(j = 0) = Count(v.entry, j)
      BY <1>1, <2>1, <2>5 DEF Exact
    <3> QED BY <3>1, <2>1, <2>2, <2>3, <2>5 DEF Bit
  <2> QED BY <2>4, <2>5
<1> QED BY <1>1 DEF Exact

LEMMA ExactLinked ==
  ASSUME NEW v, IsVolume(v), Exact(v, 0), NEW w, NEW d \in Inos, NEW n \in Components,
         NEW i \in Inos, v.entry[d][n] = 0, w.entry = Written(v.entry, d, n, i),
         w.kind = v.kind, w.nlink = [v.nlink EXCEPT ![i] = v.nlink[i] + 1]
  PROVE  Exact(w, 0)
<1>1. ASSUME NEW j \in Inos, w.kind[j] # "free"
      PROVE  w.nlink[j] + Bit(j = 0) = Count(w.entry, j)
  <2>1. v.entry \in EntryMaps /\ v.nlink \in [Inos -> Int] /\ i # 0 /\ j # 0
    BY NamesAre DEF IsVolume, EntryMaps
  <2>2. Count(Written(v.entry, d, n, i), j)
          = Count(v.entry, j) + Bit(j = i) - Bit(j = v.entry[d][n])
    BY <2>1, EntryWritten
  <2>3. Count(v.entry, j) \in Nat /\ v.nlink[j] \in Int
    BY <2>1, EntsFinite
  <2>4. v.nlink[j] + Bit(j = 0) = Count(v.entry, j)
    BY <1>1 DEF Exact
  <2>5. w.nlink[j] = v.nlink[j] + Bit(j = i)
    BY <2>1, <2>3 DEF Bit
  <2> QED BY <2>1, <2>2, <2>3, <2>4, <2>5 DEF Bit
<1> QED BY <1>1 DEF Exact

SameOrFreed(v, w, i) == w.kind = v.kind \/ w.kind = [v.kind EXCEPT ![i] = "free"]

LEMMA ExactUnlinked ==
  ASSUME NEW v, IsVolume(v), Exact(v, 0), NEW w, NEW d \in Inos, NEW n \in Components,
         NEW i \in Inos, v.entry[d][n] = i, w.entry = Written(v.entry, d, n, 0),
         SameOrFreed(v, w, i),
         w.nlink = [v.nlink EXCEPT ![i] = v.nlink[i] - 1]
  PROVE  Exact(w, 0)
<1>1. ASSUME NEW j \in Inos, w.kind[j] # "free"
      PROVE  w.nlink[j] + Bit(j = 0) = Count(w.entry, j)
  <2>1. v.entry \in EntryMaps /\ v.nlink \in [Inos -> Int] /\ i # 0 /\ j # 0
        /\ v.kind \in [Inos -> {"free", "file", "dir"}]
    BY NamesAre DEF IsVolume, EntryMaps
  <2>2. Count(Written(v.entry, d, n, 0), j)
          = Count(v.entry, j) + Bit(j = 0) - Bit(j = v.entry[d][n])
    BY <2>1, EntryWritten
  <2>3. Count(v.entry, j) \in Nat /\ v.nlink[j] \in Int
    BY <2>1, EntsFinite
  <2>4. v.nlink[j] + Bit(j = 0) = Count(v.entry, j)
    <3>1. v.kind[j] # "free"
      BY <1>1, <2>1 DEF SameOrFreed
    <3> QED BY <3>1 DEF Exact
  <2>5. w.nlink[j] = v.nlink[j] - Bit(j = i)
    BY <2>1, <2>3 DEF Bit
  <2> QED BY <2>1, <2>2, <2>3, <2>4, <2>5 DEF Bit
<1> QED BY <1>1 DEF Exact

-----------------------------------------------------------------------------
(* What holds of the tree at every stage of a call.                        *)

(* v6fs_mkdir and v6fs_rmdir: a directory with no names in it, and its one *)
(* name                                                                    *)
HollowDir(v, new, s) ==
  /\ Namei(v, new) = s /\ s \in Inos \ {ROOT} /\ v.kind[s] = "dir"
  /\ OnlyName(v, s, Pdir(v, new), Last(new))
  /\ Hollow(v, s) /\ TreeBut(v, s)

(* its ".", and what is in its ".."                                        *)
Dots(stage, s) ==
  CASE stage \in {"mkdir .", "undo", "rmdir"} -> {0}
    [] stage \in {"undo ..", "undo ."} -> {0, s}
    [] stage \in {"mkdir ..", "rmdir ..", "rmdir ."} -> {s}

Making(v, stage, new) ==
  \E s : /\ HollowDir(v, new, s)
         /\ v.entry[s]["."] \in Dots(stage, s)
         /\ v.entry[s][".."] = IF stage = "rmdir .." THEN Pdir(v, new) ELSE 0

(* v6fs_rename, before the link is made: the new path does not go by what  *)
(* is moved,                                                               *)
Renaming(v, old, new, isdir) ==
  \E i : /\ Namei(v, old) = i /\ i \notin {0, ROOT} /\ (isdir <=> v.kind[i] = "dir")
         /\ Pdir(v, new) # 0 => Avoids(v, Dirname(new), i)
         /\ Namei(v, new) # i

(* while it has two names,                                                 *)
Twice(v, old, new, isdir) ==
  \E i : /\ Namei(v, old) = i /\ i \notin {0, ROOT} /\ (isdir <=> v.kind[i] = "dir")
         /\ Namei(v, new) = i /\ Avoids(v, Dirname(new), i) /\ TreeBut(v, i)
         /\ ~(Pdir(v, old) = Pdir(v, new) /\ Last(old) = Last(new))
         /\ Pdir(v, old) # i
         /\ isdir => /\ v.entry[i]["."] = i /\ v.entry[i][".."] = Pdir(v, old)
                     /\ \A c \in Inos, m \in Names : v.entry[c][m] = i =>
                          \/ c = Pdir(v, old) /\ m = Last(old)
                          \/ c = Pdir(v, new) /\ m = Last(new)

(* and when only its ".." is wrong                                         *)
Moving(v, new) ==
  \E s : /\ Namei(v, new) = s /\ s \in Inos \ {ROOT} /\ v.kind[s] = "dir"
         /\ OnlyName(v, s, Namei(v, Dirname(new)), Last(new)) /\ TreeBut(v, s)
         /\ v.entry[s]["."] = s
         /\ v.entry[s][".."] \in Inos /\ Rooted(v, v.entry[s][".."])

Miscounts == full /\ kernel = "v6"

TreeInv ==
  /\ op.stage \in {"idle", "unlink new", "link", "reparent +"} => TreeBut(volume, 0)
  /\ op.stage \in OneName => Making(volume, op.stage, op.new)
  /\ op.stage \in OneName \union {"unlink new", "link"} /\ op.old # <<>> =>
       Renaming(volume, op.old, op.new, op.isdir)
  /\ op.stage = "unlink new" =>
       Namei(volume, op.new) # 0 /\ volume.kind[Namei(volume, op.new)] = "file"
  /\ op.stage = "unlink old" => Twice(volume, op.old, op.new, op.isdir)
  /\ op.stage \in {"reparent", "reparent .."} => Moving(volume, op.new)
  /\ op.stage = "reparent +" => Rooted(volume, op.parent) /\ Rooted(volume, NewParent)
  /\ ~Miscounts => Exact(volume, Short)

(* Where a stage leads *)
LEMMA OnStage ==
  ASSUME Inv, op.stage # "idle", NEW s, s \notin Ends, op' = Goto(s)
  PROVE  /\ op'.stage = s /\ op'.new = op.new /\ op'.old = op.old
         /\ op'.isdir = op.isdir /\ op'.parent = op.parent
<1>1. op' = [op EXCEPT !.stage = s]
  BY DEF Goto, Ends
<1> QED BY <1>1 DEF Inv, InCall

LEMMA OnEnd ==
  ASSUME NEW s \in Ends, op' = Goto(s)
  PROVE  op'.stage = "idle"
BY DEF Goto, Ends, Idle

Kept == ~Miscounts /\ Exact(volume, 0) => Exact(volume', 0)

LEMMA ShortIs ==
  ASSUME TreeInv, op.stage \notin {"reparent ..", "reparent +"}, ~Miscounts
  PROVE  Exact(volume, 0)
BY DEF TreeInv, Short

LEMMA AtEnd ==
  ASSUME TreeInv, op.stage \notin {"reparent ..", "reparent +"}, Kept,
         UNCHANGED <<kernel, full>>, op'.stage = "idle", TreeBut(volume', 0)
  PROVE  TreeInv'
<1>1. ~Miscounts' => Exact(volume', 0)
  BY ShortIs DEF Kept, Miscounts
<1>2. Short' = 0
  BY DEF Short
<1> QED BY <1>1, <1>2 DEF TreeInv, OneName

LEMMA AtMaking ==
  ASSUME TreeInv, op.stage \notin {"reparent ..", "reparent +"}, Kept,
         UNCHANGED <<kernel, full>>, op'.stage \in OneName,
         Making(volume', op'.stage, op'.new),
         op'.old # <<>> => Renaming(volume', op'.old, op'.new, op'.isdir)
  PROVE  TreeInv'
<1>1. ~Miscounts' => Exact(volume', 0)
  BY ShortIs DEF Kept, Miscounts
<1>2. Short' = 0
  BY DEF Short, OneName
<1> QED BY <1>1, <1>2 DEF TreeInv, OneName

LEMMA AtRenaming ==
  ASSUME TreeInv, op.stage \notin {"reparent ..", "reparent +"}, Kept,
         UNCHANGED <<kernel, full>>, op'.stage \in {"unlink new", "link"}, TreeBut(volume', 0),
         Renaming(volume', op'.old, op'.new, op'.isdir),
         op'.stage = "unlink new" =>
           Namei(volume', op'.new) # 0 /\ volume'.kind[Namei(volume', op'.new)] = "file"
  PROVE  TreeInv'
<1>1. ~Miscounts' => Exact(volume', 0)
  BY ShortIs DEF Kept, Miscounts
<1>2. Short' = 0
  BY DEF Short
<1> QED BY <1>1, <1>2 DEF TreeInv, OneName

LEMMA AtTwice ==
  ASSUME TreeInv, op.stage \notin {"reparent ..", "reparent +"}, Kept,
         UNCHANGED <<kernel, full>>, op'.stage = "unlink old",
         Twice(volume', op'.old, op'.new, op'.isdir)
  PROVE  TreeInv'
<1>1. ~Miscounts' => Exact(volume', 0)
  BY ShortIs DEF Kept, Miscounts
<1>2. Short' = 0
  BY DEF Short
<1> QED BY <1>1, <1>2 DEF TreeInv, OneName

LEMMA AtMoving ==
  ASSUME TreeInv, op.stage \notin {"reparent ..", "reparent +"}, Kept,
         UNCHANGED <<kernel, full>>, op'.stage = "reparent", Moving(volume', op'.new)
  PROVE  TreeInv'
<1>1. ~Miscounts' => Exact(volume', 0)
  BY ShortIs DEF Kept, Miscounts
<1>2. Short' = 0
  BY DEF Short
<1> QED BY <1>1, <1>2 DEF TreeInv, OneName

(* What a system call does to the volume, in terms of the tree *)
Unlinked(v, w, i, d, n) ==
  /\ i \in Inos /\ d \in Inos /\ v.entry[d][n] = i
  /\ w.entry = Written(v.entry, d, n, 0)
  /\ w.kind = v.kind \/ (Void(v, i) /\ w.kind = [v.kind EXCEPT ![i] = "free"])

Linked(v, w, i, d, n) ==
  /\ i \in Inos /\ d \in Inos /\ v.entry[d][n] = 0
  /\ w.entry = Written(v.entry, d, n, i) /\ w.kind = v.kind

LEMMA UnlinkTree ==
  ASSUME Inv, op.stage \notin {"reparent ..", "reparent +"},
         NEW p \in Seq(Components), p # <<>>, NEW then, NEW else,
         Do(Unlink(volume, p), then, else)
  PROVE  LET i == Namei(volume, p)
             d == Pdir(volume, p)
             n == Last(p)
         IN  /\ i = 0 => volume' = volume /\ op' = Goto(else) /\ Kept
             /\ i # 0 => op' = Goto(then)
             /\ i # 0 /\ Leaves(volume, d, n, i) => Unlinked(volume, volume', i, d, n) /\ Kept
<1> DEFINE v == volume
           r == Unlink(v, p)
           i == Namei(v, p)
           d == Pdir(v, p)
           n == Last(p)
<1>1. Become(r.v) /\ op' = Goto(IF r.ok THEN then ELSE else)
  BY DEF Do
<1>2. Sound(v)
  BY InvSound
<1>3. /\ i = 0 => ~r.ok /\ r.v = v
      /\ i # 0 => r.ok /\ i \in Inos /\ d \in Inos /\ v.entry[d][n] = i
      /\ i # 0 /\ Leaves(v, d, n, i) =>
           /\ r.v.entry = Written(v.entry, d, n, 0)
           /\ r.v.nlink = [v.nlink EXCEPT ![i] = v.nlink[i] - 1]
           /\ \/ r.v.kind = v.kind
              \/ Void(v, i) /\ r.v.kind = [v.kind EXCEPT ![i] = "free"]
  <2> HIDE DEF v
  <2> QED BY <1>2, UnlinkDoes
<1> HIDE DEF r
<1>4. /\ volume'.kind = r.v.kind /\ volume'.nlink = r.v.nlink /\ volume'.entry = r.v.entry
      /\ r.v = volume => volume' = volume
  BY <1>1 DEF Become, volume
<1>5. n \in Components
  BY DirnameType
<1> HIDE DEF v, i, d, n
<1>6. ASSUME i = 0
      PROVE  volume' = volume /\ op' = Goto(else) /\ Kept
  BY <1>1, <1>3, <1>4, <1>6 DEF v, Kept
<1>7. ASSUME i # 0
      PROVE  op' = Goto(then)
  BY <1>1, <1>3, <1>7
<1>8. ASSUME i # 0, Leaves(v, d, n, i)
      PROVE  Unlinked(v, volume', i, d, n) /\ Kept
  <2> DEFINE w == volume'
  <2>1. /\ w.entry = Written(v.entry, d, n, 0)
        /\ w.nlink = [v.nlink EXCEPT ![i] = v.nlink[i] - 1]
        /\ w.kind = v.kind \/ (Void(v, i) /\ w.kind = [v.kind EXCEPT ![i] = "free"])
        /\ i \in Inos /\ d \in Inos /\ v.entry[d][n] = i
    BY <1>3, <1>4, <1>8
  <2> HIDE DEF w
  <2>2. Unlinked(v, w, i, d, n)
    BY <2>1 DEF Unlinked
  <2>3. ASSUME Exact(v, 0) PROVE Exact(w, 0)
    <3>1. IsVolume(v) /\ SameOrFreed(v, w, i)
      BY <1>2, <2>1 DEF Sound, SameOrFreed
    <3> QED BY <3>1, <2>1, <2>3, <1>5, ExactUnlinked
  <2> QED BY <2>2, <2>3 DEF v, w, Kept
<1> QED BY <1>6, <1>7, <1>8 DEF v, i, d, n

LEMMA LinkTree ==
  ASSUME Inv, CountsFit, op.stage \notin {"reparent ..", "reparent +"},
         NEW old \in Seq(Components), NEW new \in Seq(Components), new # <<>>,
         NEW then, NEW else, \E g \in Grows : Do(Link(volume, old, new, g), then, else)
  PROVE  /\ Kept
         /\ \/ /\ op' = Goto(then)
               /\ Linked(volume, volume', Namei(volume, old), Pdir(volume, new), Last(new))
            \/ /\ op' = Goto(else)
               /\ volume'.entry = volume.entry /\ volume'.kind = volume.kind
<1> DEFINE v == volume
           i == Namei(v, old)
           d == Pdir(v, new)
           n == Last(new)
<1>0. PICK g \in Grows : Do(Link(v, old, new, g), then, else)
  OBVIOUS
<1> DEFINE r == Link(v, old, new, g)
<1>1. Become(r.v) /\ op' = Goto(IF r.ok THEN then ELSE else)
  BY <1>0 DEF Do
<1>2. Sound(v) /\ CanCount(v)
  BY InvSound DEF CountsFit, CanCount, volume
<1> DEFINE c == kernel = "v6" /\ ~g
<1>3. AfterLink(v, r, i, d, n, c)
  <2>1. g \in BOOLEAN
    BY GrowsAre
  <2> HIDE DEF v
  <2> QED BY <2>1, <1>2, LinkDoes
<1>4. ~Miscounts => ~c
  BY DEF Miscounts, Grows
<1> HIDE DEF r, c
<1>5. volume'.kind = r.v.kind /\ volume'.nlink = r.v.nlink /\ volume'.entry = r.v.entry
  BY <1>1 DEF Become, volume
<1>6. n \in Components
  BY DirnameType
<1> DEFINE w == volume'
<1> HIDE DEF v, w, i, d, n
<1>7. CASE r.ok
  <2>1. Linked(v, w, i, d, n) /\ w.nlink = [v.nlink EXCEPT ![i] = v.nlink[i] + 1]
    BY <1>3, <1>5, <1>7 DEF AfterLink, Linked, w
  <2>2. IsVolume(v)
    BY <1>2 DEF Sound
  <2>3. Exact(v, 0) => Exact(w, 0)
    BY <2>1, <2>2, <1>6, ExactLinked DEF Linked
  <2> QED BY <2>1, <2>3, <1>1, <1>7 DEF v, w, i, d, n, Kept
<1>8. CASE ~r.ok
  <2>1. w.kind = v.kind /\ w.entry = v.entry /\ (~Miscounts => w.nlink = v.nlink)
    BY <1>3, <1>4, <1>5, <1>8 DEF AfterLink, w
  <2>2. ~Miscounts /\ Exact(v, 0) => Exact(w, 0)
    BY <2>1 DEF Exact
  <2> QED BY <2>1, <2>2, <1>1, <1>8 DEF v, w, Kept
<1> QED BY <1>7, <1>8

(* A name made: every path still leads where it led. *)
DirsStay(v, w) == \A j \in Inos : v.kind[j] = "dir" => w.kind[j] = "dir"

LeadsOn(v, w) ==
  \A q \in Seq(Names) : Namei(v, q) # 0 =>
    Namei(w, q) = Namei(v, q) /\ \A j : Avoids(v, q, j) => Avoids(w, q, j)

LEMMA NameMade ==
  ASSUME NEW v, IsVolume(v), NEW w, NEW p \in Seq(Names), p # <<>>, NEW i \in Inos,
         Pdir(v, p) # 0, v.entry[Pdir(v, p)][Last(p)] = 0,
         w.entry = Written(v.entry, Pdir(v, p), Last(p), i),
         DirsStay(v, w)
  PROVE  /\ Pdir(v, p) \in Inos /\ Last(p) \in Names /\ v.kind[Pdir(v, p)] = "dir"
         /\ Rooted(v, Pdir(v, p)) /\ Pdir(w, p) = Pdir(v, p)
         /\ Namei(w, Dirname(p)) = Pdir(v, p) /\ Namei(w, p) = i
         /\ LeadsOn(v, w)
<1> DEFINE d == Pdir(v, p)
<1>1. /\ Dirname(p) \in Seq(Names) /\ Last(p) \in Names /\ p \in Seq(Components)
      /\ Last(p) \in Components
  BY NamesWalk, DirnameType, NamesAre
<1>2. d = Namei(v, Dirname(p)) /\ v.kind[d] = "dir" /\ d \in Inos
  BY <1>1, NamedByEntry DEF Pdir
<1>3. Rooted(v, d)
  BY <1>1, <1>2, PathRooted
<1>4. \A c \in Inos, m \in Components :
        w.entry[c][m] = IF c = d /\ m = Last(p) THEN i ELSE v.entry[c][m]
  <2>1. v.entry \in EntryMaps
    BY DEF IsVolume, EntryMaps
  <2> QED BY <2>1, <1>1, <1>2, WrittenAt
<1>5. Extends(v, w)
  <2>1. ASSUME NEW c \in Inos, NEW m \in Names, Step(v, c, m) # 0
        PROVE  Step(w, c, m) = Step(v, c, m)
    <3>1. v.kind[c] = "dir" /\ v.entry[c][m] # 0 /\ w.kind[c] = "dir" /\ c # 0
      BY <2>1, NamesAre DEF Step, DirsStay
    <3>2. w.entry[c][m] = v.entry[c][m]
      BY <3>1, <1>4, NamesAre
    <3> QED BY <3>1, <3>2 DEF Step
  <2> QED BY <2>1 DEF Extends
<1>6. \A q \in Seq(Names) : Namei(v, q) # 0 => Namei(w, q) = Namei(v, q)
  BY <1>5, NameiExtends
<1>7. LeadsOn(v, w)
  BY <1>5, NameiExtends DEF LeadsOn
<1>8. Namei(w, Dirname(p)) = d
  BY <1>1, <1>2, <1>6
<1>9. Pdir(w, p) = d
  BY <1>2, <1>8 DEF Pdir, DirsStay
<1>10. Namei(w, p) = i
  <2>1. Namei(w, p) = Step(w, d, Last(p))
    BY <1>1, <1>8, NameiStep
  <2> QED BY <2>1, <1>1, <1>2, <1>4 DEF Step, DirsStay
<1> QED BY <1>1, <1>2, <1>3, <1>7, <1>8, <1>9, <1>10

(* A name removed of what has none in it: every other path still leads     *)
(* where it led.                                                           *)
Barren(v, i) == \A n \in Names : Step(v, i, n) = 0
SameElsewhere(v, w, i) == \A j \in Inos \ {i} : w.kind[j] = v.kind[j]

LEMMA NameRemoved ==
  ASSUME NEW v, IsVolume(v), NEW w, NEW p \in Seq(Names), p # <<>>,
         Namei(v, p) # 0, Barren(v, Namei(v, p)), SameElsewhere(v, w, Namei(v, p)),
         w.entry = Written(v.entry, Pdir(v, p), Last(p), 0)
  PROVE  /\ \A q \in Seq(Names) :
              Namei(v, q) \notin {0, Namei(v, p)} => Namei(w, q) = Namei(v, q)
         /\ \A q \in Seq(Names) : \A j :
              Namei(v, q) \notin {0, Namei(v, p)} /\ Avoids(v, q, j) => Avoids(w, q, j)
         /\ Pdir(v, p) \notin {0, Namei(v, p)} /\ Pdir(w, p) = Pdir(v, p)
         /\ Namei(w, p) = 0
<1> DEFINE s == Namei(v, p)
<1>1. /\ Pdir(v, p) = Namei(v, Dirname(p)) /\ Dirname(p) \in Seq(Names)
      /\ Pdir(v, p) \in Inos /\ v.kind[Pdir(v, p)] = "dir" /\ Last(p) \in Names
      /\ v.entry[Pdir(v, p)][Last(p)] = s /\ s \in Inos
  BY NameOf
<1> DEFINE d == Pdir(v, p)
<1> HIDE DEF d
<1>0. s # 0 /\ Barren(v, s) /\ SameElsewhere(v, w, s)
  OBVIOUS
<1>2. \A c \in Inos, m \in Components :
        w.entry[c][m] = IF c = d /\ m = Last(p) THEN 0 ELSE v.entry[c][m]
  <2>1. v.entry \in EntryMaps /\ Last(p) \in Components /\ d \in Inos
    BY <1>1, NamesAre DEF IsVolume, EntryMaps, d
  <2>2. w.entry = Written(v.entry, d, Last(p), 0)
    BY DEF d
  <2> QED BY <2>1, <2>2, WrittenAt
<1>3. Spares(v, w, s)
  <2>1. ASSUME NEW c \in Inos \union {0}, NEW m \in Names, c # s, Step(v, c, m) # s
        PROVE  Step(w, c, m) = Step(v, c, m)
    <3>1. CASE c = 0
      BY <3>1 DEF Step
    <3>2. CASE c \in Inos
      <4>1. w.kind[c] = v.kind[c] /\ c # 0
        BY <3>2, <2>1, <1>0, NamesAre DEF SameElsewhere
      <4>2. v.kind[c] = "dir" => ~(c = d /\ m = Last(p))
        BY <4>1, <2>1, <1>1 DEF Step, d
      <4> QED BY <4>1, <4>2, <3>2, <1>2, NamesAre DEF Step
    <3> QED BY <3>1, <3>2
  <2> QED BY <2>1 DEF Spares
<1>4. ASSUME NEW q \in Seq(Names), Namei(v, q) \notin {0, s}
      PROVE  Namei(w, q) = Namei(v, q) /\ \A j : Avoids(v, q, j) => Avoids(w, q, j)
  <2>1. Avoids(v, q, s)
    BY <1>0, <1>4, LeafAvoided DEF Barren
  <2> QED BY <2>1, <1>3, NameiSpares
<1>5. d \notin {0, s}
  <2>1. d # 0
    BY <1>1, NamesAre DEF d
  <2>2. ASSUME d = s PROVE FALSE
    BY <2>1, <2>2, <1>0, <1>1 DEF Step, Barren, d
  <2> QED BY <2>1, <2>2
<1>6. Namei(w, Dirname(p)) = d
  BY <1>1, <1>4, <1>5 DEF d
<1>7. Pdir(w, p) = d
  BY <1>0, <1>1, <1>5, <1>6 DEF Pdir, SameElsewhere, d
<1>8. Namei(w, p) = 0
  <2>1. Namei(w, p) = Step(w, d, Last(p))
    BY <1>6, NameiStep
  <2>2. w.kind[d] = v.kind[d]
    BY <1>0, <1>1, <1>5 DEF SameElsewhere, d
  <2> QED BY <2>1, <2>2, <1>1, <1>2, NamesAre DEF Step, d
<1> QED BY <1>4, <1>5, <1>7, <1>8 DEF d

LEMMA FileHasNone ==
  ASSUME NEW v, TreeBut(v, 0), NEW i \in Inos, v.kind[i] # "dir"
  PROVE  Void(v, i) /\ i # ROOT /\ Barren(v, i)
BY NamesAre DEF TreeBut, RootOK, Void, Step, Barren

(* The calls of one system call *)
LEMMA MaknodeTree ==
  ASSUME Inv, op.stage = "idle", NEW p \in Paths, NEW k \in {"file", "dir"},
         NEW i \in Ialloc, NEW g \in Grows, Become(Maknode(volume, p, k, i, g).v)
  PROVE  LET r == Maknode(volume, p, k, i, g)
             d == Pdir(volume, p)
             n == Last(p)
         IN  /\ Kept
             /\ r.ok => /\ i \in Inos /\ volume.kind[i] = "free" /\ d \in Inos
                        /\ volume.entry[d][n] = 0
                        /\ volume'.entry = Written(volume.entry, d, n, i)
                        /\ volume'.kind = [volume.kind EXCEPT ![i] = k]
             /\ ~r.ok => volume' = volume
<1> DEFINE v == volume
           r == Maknode(v, p, k, i, g)
           d == Pdir(v, p)
           n == Last(p)
<1>1. Become(r.v)
  OBVIOUS
<1>2. Sound(v)
  BY InvSound
<1>3. AfterMaknode(v, r, k, i, d, n)
  <2>1. i \in Inos \union {0} /\ (i # 0 => v.kind[i] = "free") /\ g \in BOOLEAN
    BY GrowsAre DEF Ialloc, volume
  <2>2. p \in Seq(Components) /\ p # <<>>
    BY PathsAreNames
  <2> HIDE DEF v
  <2> QED BY <2>1, <2>2, <1>2, MaknodeDoes
<1> HIDE DEF r
<1>4. /\ volume'.kind = r.v.kind /\ volume'.nlink = r.v.nlink /\ volume'.entry = r.v.entry
      /\ r.v = volume => volume' = volume
  BY <1>1 DEF Become, volume
<1>5. n \in Components
  BY DirnameType, PathsAreNames
<1>6. i \in Inos => v.kind[i] = "free"
  BY NamesAre DEF Ialloc, volume
<1> DEFINE w == volume'
<1> HIDE DEF v, w, d, n
<1>7. ASSUME r.ok, Exact(v, 0) PROVE Exact(w, 0)
  <2>1. /\ w.entry = Written(v.entry, d, n, i) /\ w.kind = [v.kind EXCEPT ![i] = k]
        /\ w.nlink = [v.nlink EXCEPT ![i] = 1] /\ v.kind[i] = "free"
        /\ i \in Inos /\ d \in Inos /\ v.entry[d][n] = 0
    BY <1>3, <1>4, <1>6, <1>7 DEF AfterMaknode, w
  <2> QED BY <2>1, <1>2, <1>5, <1>7, ExactMade
<1>8. Kept
  <2>1. ASSUME ~r.ok, Exact(v, 0) PROVE Exact(w, 0)
    BY <2>1, <1>3, <1>4 DEF AfterMaknode, v, w
  <2> QED BY <2>1, <1>7 DEF Kept, v, w
<1> QED BY <1>3, <1>4, <1>6, <1>8 DEF AfterMaknode, v, d, n, r

(* A file or a directory of no entries that loses its name *)
LEMMA TreeRemoved ==
  ASSUME NEW v, IsVolume(v), NEW w, NEW p \in Seq(Names), p # <<>>,
         Namei(v, p) \in Inos \ {ROOT}, Void(v, Namei(v, p)), TreeBut(v, Namei(v, p)),
         v.kind[Namei(v, p)] = "dir" => OnlyName(v, Namei(v, p), Pdir(v, p), Last(p)),
         Unlinked(v, w, Namei(v, p), Pdir(v, p), Last(p))
  PROVE  TreeBut(w, 0) /\ Barren(v, Namei(v, p)) /\ SameElsewhere(v, w, Namei(v, p))
<1> DEFINE s == Namei(v, p)
           d == Pdir(v, p)
           n == Last(p)
<1>1. d \in Inos /\ n \in Names /\ v.entry[d][n] = s
  BY NameOf, NamesAre
<1>0. s \in Inos \ {ROOT} /\ Void(v, s) /\ TreeBut(v, s)
  OBVIOUS
<1> HIDE DEF s, d, n
<1>2. /\ w.entry = Written(v.entry, d, n, 0)
      /\ w.kind = v.kind \/ w.kind = [v.kind EXCEPT ![s] = "free"]
  BY DEF Unlinked, s, d, n
<1>3. /\ \A j \in Inos \ {s} : w.kind[j] = v.kind[j]
      /\ w.kind[s] = "dir" => v.kind[s] = "dir"
  BY <1>0, <1>2 DEF IsVolume
<1>4. TreeBut(w, s)
  BY <1>0, <1>1, <1>2, <1>3, DropName
<1>5. \A c \in Inos, m \in Components :
        w.entry[c][m] = IF c = d /\ m = n THEN 0 ELSE v.entry[c][m]
  <2>1. v.entry \in EntryMaps /\ n \in Components
    BY <1>1, NamesAre DEF IsVolume, EntryMaps
  <2> QED BY <2>1, <1>1, <1>2, WrittenAt
<1>6. ASSUME w.kind[s] = "dir" PROVE InTree(w, s)
  <2>1. OnlyName(v, s, d, n)
    BY <1>3, <1>6 DEF s, d, n
  <2>2. ~Named(w, s)
    <3>1. ASSUME NEW c \in Inos, NEW m \in Names PROVE w.entry[c][m] # s
      BY <2>1, <1>0, <1>5, NamesAre DEF OnlyName
    <3> QED BY <3>1 DEF Named
  <2>3. Void(w, s)
    BY <1>0, <1>5 DEF Void
  <2> QED BY <2>2, <2>3 DEF InTree
<1>7. TreeBut(w, 0)
  BY <1>4, <1>6, TreeWhole
<1>8. Barren(v, s)
  BY <1>0, NamesAre DEF Void, Step, Barren
<1> QED BY <1>3, <1>7, <1>8 DEF SameElsewhere, s

LEMMA VolumeIs ==
  ASSUME Inv
  PROVE  IsVolume(volume) /\ volume.kind[ROOT] = "dir"
BY DEF Inv, volume

LEMMA MknodTree ==
  ASSUME Inv, TreeInv, NEW p \in Paths, Mknod(p), UNCHANGED <<kernel, full>>
  PROVE  TreeInv'
<1>1. PICK i \in Ialloc, g \in Grows :
        Do(Maknode(volume, p, "file", i, g), "done", "failed")
  BY DEF Mknod
<1> DEFINE v == volume
           w == volume'
           r == Maknode(v, p, "file", i, g)
           d == Pdir(v, p)
           n == Last(p)
<1>2. Become(r.v) /\ op' = Goto(IF r.ok THEN "done" ELSE "failed") /\ op.stage = "idle"
  BY <1>1 DEF Do, Mknod
<1>3. op'.stage = "idle"
  BY <1>2, EndsAre, OnEnd
<1>4. /\ Kept
      /\ r.ok => /\ i \in Inos /\ v.kind[i] = "free" /\ d \in Inos /\ v.entry[d][n] = 0
                 /\ w.entry = Written(v.entry, d, n, i)
                 /\ w.kind = [v.kind EXCEPT ![i] = "file"]
      /\ ~r.ok => w = v
  BY <1>2, MaknodeTree
<1>5. IsVolume(v) /\ v.kind[ROOT] = "dir" /\ TreeBut(v, 0)
  BY <1>2, VolumeIs DEF TreeInv
<1> HIDE DEF v, w, r
<1>6. TreeBut(w, 0)
  <2>1. CASE r.ok
    <3>1. \A j \in Inos \ {i} : w.kind[j] = v.kind[j]
      BY <2>1, <1>4, <1>5 DEF IsVolume
    <3>2. w.kind[i] = "file" /\ i \in Inos \ {ROOT}
      BY <2>1, <1>4, <1>5 DEF IsVolume
    <3>3. d # 0 /\ \A j \in Inos : v.kind[j] = "dir" => w.kind[j] = "dir"
      BY <2>1, <3>1, <1>4, NamesAre
    <3>4. p \in Seq(Names) /\ p # <<>>
      BY PathsAreNames
    <3>5. n \in Names /\ v.kind[d] = "dir" /\ Rooted(v, d)
      BY <2>1, <3>3, <3>4, <1>4, <1>5, NameMade DEF DirsStay
    <3>6. d # i /\ Void(v, i)
      BY <2>1, <3>5, <1>4, <1>5, FileHasNone
    <3> HIDE DEF d, n
    <3>7. TreeBut(w, i)
      BY <2>1, <3>1, <3>2, <3>5, <3>6, <1>4, <1>5, AddName
    <3> QED BY <3>2, <3>7, TreeWhole
  <2> QED BY <2>1, <1>4, <1>5
<1> QED BY <1>2, <1>3, <1>4, <1>6, AtEnd DEF w

LEMMA LinkFileTree ==
  ASSUME Inv, TreeInv, CountsFit, NEW p \in Paths, NEW q \in Paths, LinkFile(p, q),
         UNCHANGED <<kernel, full>>
  PROVE  TreeInv'
<1> DEFINE v == volume
           w == volume'
           i == Namei(v, p)
           d == Pdir(v, q)
           n == Last(q)
<1>1. /\ op.stage = "idle" /\ i # 0 /\ v.kind[i] = "file"
      /\ \E g \in Grows : Do(Link(v, p, q, g), "done", "failed")
  BY DEF LinkFile, volume
<1>2. /\ p \in Seq(Components) /\ q \in Seq(Components) /\ q # <<>> /\ q \in Seq(Names)
  BY PathsAreNames
<1>3. /\ Kept
      /\ \/ op' = Goto("done") /\ Linked(v, w, i, d, n)
         \/ op' = Goto("failed") /\ w.entry = v.entry /\ w.kind = v.kind
  BY <1>1, <1>2, LinkTree
<1>4. op'.stage = "idle"
  BY <1>3, EndsAre, OnEnd
<1>5. IsVolume(v) /\ TreeBut(v, 0)
  BY <1>1, VolumeIs DEF TreeInv
<1> HIDE DEF v, w, i
<1>6. TreeBut(w, 0)
  <2>1. CASE Linked(v, w, i, d, n)
    <3>1. /\ i \in Inos /\ d \in Inos /\ d # 0 /\ v.entry[d][n] = 0
          /\ w.entry = Written(v.entry, d, n, i) /\ w.kind = v.kind
      BY <2>1, NamesAre DEF Linked
    <3>2. n \in Names /\ v.kind[d] = "dir" /\ Rooted(v, d)
      <4>1. DirsStay(v, w)
        BY <3>1 DEF DirsStay
      <4> QED BY <3>1, <4>1, <1>2, <1>5, NameMade
    <3>3. d # i /\ Void(v, i) /\ i # ROOT /\ w.kind[i] # "dir"
      BY <3>1, <3>2, <1>1, <1>5, FileHasNone
    <3> HIDE DEF d, n
    <3>4. TreeBut(w, i)
      BY <3>1, <3>2, <3>3, <1>5, AddName
    <3> QED BY <3>3, <3>4, TreeWhole
  <2>2. CASE w.entry = v.entry /\ w.kind = v.kind
    BY <2>2, <1>5 DEF TreeBut, RootOK, InTree, Named, OnlyName, Void
  <2> QED BY <2>1, <2>2, <1>3
<1> QED BY <1>1, <1>3, <1>4, <1>6, AtEnd DEF w

(* unlink of a file *)
LEMMA FileGone ==
  ASSUME Inv, NEW p \in Seq(Names), p # <<>>, NEW then, NEW else,
         op.stage \notin {"reparent ..", "reparent +"},
         Namei(volume, p) # 0, volume.kind[Namei(volume, p)] = "file", TreeBut(volume, 0),
         Do(Unlink(volume, p), then, else)
  PROVE  /\ op' = Goto(then) /\ Kept /\ TreeBut(volume', 0)
         /\ volume'.entry = Written(volume.entry, Pdir(volume, p), Last(p), 0)
         /\ Barren(volume, Namei(volume, p))
         /\ SameElsewhere(volume, volume', Namei(volume, p))
<1> DEFINE v == volume
           w == volume'
           s == Namei(v, p)
<1>1. p \in Seq(Components) /\ s \in Inos /\ IsVolume(v)
  BY NamesWalk, NameiType, VolumeIs, NamesAre
<1>2. Void(v, s) /\ s # ROOT
  BY <1>1, FileHasNone
<1>3. Leaves(v, Pdir(v, p), Last(p), s)
  BY <1>2 DEF Leaves
<1>4. op' = Goto(then) /\ Kept /\ Unlinked(v, w, s, Pdir(v, p), Last(p))
  BY <1>1, <1>3, UnlinkTree
<1>5. TreeBut(v, s) /\ v.kind[s] # "dir" /\ s \in Inos \ {ROOT}
  BY <1>1, <1>2, TreePart
<1> HIDE DEF v, w, s
<1>6. TreeBut(w, 0) /\ Barren(v, s) /\ SameElsewhere(v, w, s)
  BY <1>1, <1>2, <1>4, <1>5, TreeRemoved DEF s
<1>7. w.entry = Written(v.entry, Pdir(v, p), Last(p), 0)
  BY <1>4 DEF Unlinked
<1> QED BY <1>4, <1>6, <1>7 DEF v, w, s

LEMMA UnlinkFileTree ==
  ASSUME Inv, TreeInv, NEW p \in Paths, UnlinkFile(p), UNCHANGED <<kernel, full>>
  PROVE  TreeInv'
<1>1. /\ op.stage = "idle" /\ Namei(volume, p) # 0 /\ volume.kind[Namei(volume, p)] = "file"
      /\ Do(Unlink(volume, p), "done", "failed")
  BY DEF UnlinkFile, volume
<1>2. p \in Seq(Names) /\ p # <<>> /\ TreeBut(volume, 0)
  BY <1>1, PathsAreNames DEF TreeInv
<1>3. op' = Goto("done") /\ Kept /\ TreeBut(volume', 0)
  BY <1>1, <1>2, FileGone
<1> QED BY <1>1, <1>3, EndsAre, OnEnd, AtEnd

(* v6fs_mkdir and v6fs_rmdir at work on "." and ".."                       *)
LEMMA HollowFacts ==
  ASSUME NEW v, IsVolume(v), NEW p \in Seq(Names), p # <<>>, NEW s, HollowDir(v, p, s)
  PROVE  /\ Pdir(v, p) \in Inos /\ v.kind[Pdir(v, p)] = "dir" /\ Pdir(v, p) # s
         /\ Namei(v, Dirname(p)) = Pdir(v, p) /\ Rooted(v, Pdir(v, p))
         /\ v.entry[Pdir(v, p)][Last(p)] = s /\ Last(p) \in Names /\ s # 0
         /\ Barren(v, s) /\ Dirname(p) \in Seq(Components) /\ p \in Seq(Components)
<1>1. s # 0 /\ Namei(v, p) = s /\ s \in Inos
  BY NamesAre DEF HollowDir
<1>2. /\ Pdir(v, p) = Namei(v, Dirname(p)) /\ Dirname(p) \in Seq(Names)
      /\ Pdir(v, p) \in Inos /\ v.kind[Pdir(v, p)] = "dir" /\ Last(p) \in Names
      /\ v.entry[Pdir(v, p)][Last(p)] = s
  BY <1>1, NameOf
<1>3. Pdir(v, p) # s
  BY <1>1, <1>2 DEF HollowDir, Hollow
<1>4. Barren(v, s)
  BY DEF HollowDir, Hollow, Barren, Step
<1>5. Rooted(v, Pdir(v, p))
  BY <1>2, PathRooted, NamesAre
<1> QED BY <1>1, <1>2, <1>3, <1>4, <1>5, NamesWalk

(* The path q leads to the entry n of s. *)
EntryPath(v, q, s, n) ==
  /\ q \in Seq(Components) /\ q # <<>>
  /\ Namei(v, q) = v.entry[s][n] /\ Pdir(v, q) = s /\ Last(q) = n

LEMMA DotsFacts ==
  ASSUME NEW v, IsVolume(v), NEW p \in Seq(Names), p # <<>>, NEW s, HollowDir(v, p, s),
         NEW n \in DotNames
  PROVE  EntryPath(v, Append(p, n), s, n)
<1>1. p \in Seq(Components) /\ n \in Components
  BY NamesWalk, NamesAre DEF DotNames
<1>2. Namei(v, p) = s /\ s # 0 /\ v.kind[s] = "dir"
  BY NamesAre DEF HollowDir
<1>3. /\ Append(p, n) \in Seq(Components) /\ Append(p, n) # <<>>
      /\ Namei(v, Append(p, n)) = v.entry[s][n]
      /\ Pdir(v, Append(p, n)) = s /\ Last(Append(p, n)) = n
  BY <1>1, <1>2, DotPath DEF Step
<1> QED BY <1>3 DEF EntryPath

(* One of the two written, and nothing else changed *)
Puts(v, w, s, n, x) == w.entry = Written(v.entry, s, n, x) /\ w.kind = v.kind

DotOf(v, s) == v.entry[s]["."]
DotDotOf(v, s) == v.entry[s][".."]

(* The directory s of the path p has these two, and its parent is as it was. *)
NewDots(v, w, p, s, dot, dotdot) ==
  /\ HollowDir(w, p, s) /\ SameWays(v, w) /\ Pdir(w, p) = Pdir(v, p)
  /\ DotOf(w, s) = dot /\ DotDotOf(w, s) = dotdot

LEMMA DotsWritten ==
  ASSUME NEW v, IsVolume(v), NEW w, NEW p \in Seq(Names), p # <<>>, NEW s, HollowDir(v, p, s),
         NEW n \in DotNames, NEW x, Puts(v, w, s, n, x)
  PROVE  NewDots(v, w, p, s, IF n = "." THEN x ELSE DotOf(v, s),
                             IF n = ".." THEN x ELSE DotDotOf(v, s))
<1>0. w.entry = Written(v.entry, s, n, x) /\ w.kind = v.kind
  BY DEF Puts
<1>1. s \in Inos \ {ROOT} /\ v.kind[s] = "dir" /\ TreeBut(v, s)
  BY DEF HollowDir
<1>2. TreeBut(w, s) /\ SameWays(v, w)
  BY <1>0, <1>1, SetDot
<1>3. Namei(w, p) = s /\ Pdir(w, p) = Pdir(v, p)
  BY <1>2, SameWay DEF HollowDir
<1>4. HollowDir(w, p, s)
  BY <1>0, <1>1, <1>2, <1>3 DEF HollowDir, SameWays, OnlyName, Hollow
<1>5. \A m \in Components : w.entry[s][m] = IF m = n THEN x ELSE v.entry[s][m]
  <2>1. v.entry \in EntryMaps /\ n \in Components
    BY NamesAre DEF IsVolume, EntryMaps, DotNames
  <2> QED BY <2>1, <1>0, <1>1, WrittenAt
<1>6. /\ DotOf(w, s) = IF n = "." THEN x ELSE DotOf(v, s)
      /\ DotDotOf(w, s) = IF n = ".." THEN x ELSE DotDotOf(v, s)
  BY <1>5, NamesAre DEF DotOf, DotDotOf
<1> QED BY <1>2, <1>3, <1>4, <1>6 DEF NewDots

LEMMA DotFacts ==
  ASSUME NEW v, IsVolume(v), NEW p \in Seq(Names), p # <<>>, NEW s, HollowDir(v, p, s)
  PROVE  EntryPath(v, Dot(p), s, ".")
<1> DEFINE n == "."
<1>1. n \in DotNames
  BY DEF DotNames
<1> HIDE DEF n
<1>2. EntryPath(v, Append(p, n), s, n)
  BY <1>1, DotsFacts
<1> QED BY <1>2 DEF n, Dot

LEMMA DotDotFacts ==
  ASSUME NEW v, IsVolume(v), NEW p \in Seq(Names), p # <<>>, NEW s, HollowDir(v, p, s)
  PROVE  EntryPath(v, DotDot(p), s, "..")
<1> DEFINE n == ".."
<1>1. n \in DotNames
  BY DEF DotNames
<1> HIDE DEF n
<1>2. EntryPath(v, Append(p, n), s, n)
  BY <1>1, DotsFacts
<1> QED BY <1>2 DEF n, DotDot

LEMMA DotWritten ==
  ASSUME NEW v, IsVolume(v), NEW w, NEW p \in Seq(Names), p # <<>>, NEW s, HollowDir(v, p, s),
         NEW x, Puts(v, w, s, ".", x)
  PROVE  NewDots(v, w, p, s, x, DotDotOf(v, s))
<1> DEFINE n == "."
<1>1. n \in DotNames
  BY DEF DotNames
<1>2. (n = ".") = ("." = ".") /\ (n = "..") = ("." = "..")
  OBVIOUS
<1> HIDE DEF n
<1>3. Puts(v, w, s, n, x)
  BY DEF n
<1>4. NewDots(v, w, p, s, IF n = "." THEN x ELSE DotOf(v, s),
                          IF n = ".." THEN x ELSE DotDotOf(v, s))
  BY <1>1, <1>3, DotsWritten
<1> QED BY <1>2, <1>4

LEMMA DotDotWritten ==
  ASSUME NEW v, IsVolume(v), NEW w, NEW p \in Seq(Names), p # <<>>, NEW s, HollowDir(v, p, s),
         NEW x, Puts(v, w, s, "..", x)
  PROVE  NewDots(v, w, p, s, DotOf(v, s), x)
<1> DEFINE n == ".."
<1>1. n \in DotNames
  BY DEF DotNames
<1>2. (n = ".") = (".." = ".") /\ (n = "..") = (".." = "..")
  OBVIOUS
<1> HIDE DEF n
<1>3. Puts(v, w, s, n, x)
  BY DEF n
<1>4. NewDots(v, w, p, s, IF n = "." THEN x ELSE DotOf(v, s),
                          IF n = ".." THEN x ELSE DotDotOf(v, s))
  BY <1>1, <1>3, DotsWritten
<1> QED BY <1>2, <1>4

LEMMA HollowStays ==
  ASSUME NEW v, IsVolume(v), NEW w, NEW p \in Seq(Names), p # <<>>, NEW s, HollowDir(v, p, s),
         w.entry = v.entry, w.kind = v.kind
  PROVE  HollowDir(w, p, s) /\ SameWays(v, w) /\ Pdir(w, p) = Pdir(v, p)
<1>1. SameWays(v, w)
  BY DEF SameWays
<1>2. Namei(w, p) = Namei(v, p) /\ Pdir(w, p) = Pdir(v, p)
  BY <1>1, SameWay
<1>3. TreeBut(w, s)
  BY DEF HollowDir, TreeBut, RootOK, InTree, Named, OnlyName, Void
<1> QED BY <1>1, <1>2, <1>3 DEF HollowDir, OnlyName, Hollow

LEMMA RenamingStays ==
  ASSUME NEW v, IsVolume(v), NEW w, SameWays(v, w), NEW old \in Seq(Names),
         NEW new \in Seq(Names), new # <<>>, NEW isdir, Renaming(v, old, new, isdir)
  PROVE  Renaming(w, old, new, isdir)
<1>1. PICK i : /\ Namei(v, old) = i /\ i \notin {0, ROOT} /\ (isdir <=> v.kind[i] = "dir")
               /\ Pdir(v, new) # 0 => Avoids(v, Dirname(new), i)
               /\ Namei(v, new) # i
  BY DEF Renaming
<1>2. /\ Namei(w, old) = i /\ Namei(w, new) = Namei(v, new) /\ Pdir(w, new) = Pdir(v, new)
  BY <1>1, SameWay
<1>3. Avoids(v, Dirname(new), i) => Avoids(w, Dirname(new), i)
  BY DirnameType, SameWay
<1>4. isdir <=> w.kind[i] = "dir"
  BY <1>1 DEF SameWays
<1> QED BY <1>1, <1>2, <1>3, <1>4 DEF Renaming

LEMMA DotLeaves ==
  ASSUME NEW v, IsVolume(v), NEW p \in Seq(Names), p # <<>>, NEW s, HollowDir(v, p, s),
         NEW n \in DotNames, v.entry[s][n] \in {s, Pdir(v, p)}, v.entry[s]["."] # 0
  PROVE  /\ v.entry[s][n] # 0 /\ ~Void(v, v.entry[s][n])
         /\ Leaves(v, s, n, v.entry[s][n])
<1> DEFINE d == Pdir(v, p)
           x == v.entry[s][n]
<1>1. /\ d \in Inos /\ d # s /\ Rooted(v, d) /\ v.entry[d][Last(p)] = s
      /\ Last(p) \in Names /\ s # 0
  BY HollowFacts
<1>2. s \in Inos
  BY DEF HollowDir
<1>3. x \in {s, d} /\ x # 0
  BY <1>1, NamesAre
<1> HIDE DEF d, x
<1>4. \A m \in Names : m # n /\ m \in Components
  BY NamesAre DEF DotNames
<1>5. CASE x = s
  BY <1>1, <1>2, <1>4, <1>5, NamesAre DEF Leaves, Void, x
<1>6. CASE x = d
  <2>1. Last(p) \in Components /\ ~Void(v, d)
    BY <1>1, NamesAre DEF Void
  <2>2. CASE d = ROOT
    BY <2>1, <2>2, <1>3, <1>6 DEF Leaves, x
  <2>3. CASE Named(v, d)
    <3>1. PICK c \in Inos, m \in Names : v.entry[c][m] = d
      BY <2>3 DEF Named
    <3>2. m \in Components /\ m # n
      BY <1>4
    <3>3. Leaves(v, s, n, d)
      BY <3>1, <3>2 DEF Leaves
    <3> QED BY <2>1, <3>3, <1>3, <1>6 DEF x
  <2> QED BY <2>2, <2>3, <1>1 DEF Rooted
<1> QED BY <1>3, <1>5, <1>6

(* unlink of "." or ".." when there is one *)
LEMMA DotGone ==
  ASSUME Inv, op.stage \notin {"reparent ..", "reparent +"}, NEW p \in Seq(Names), p # <<>>,
         NEW s, HollowDir(volume, p, s), NEW n \in DotNames,
         volume.entry[s][n] \in {s, Pdir(volume, p)}, volume.entry[s]["."] # 0,
         NEW then, NEW else, Do(Unlink(volume, Append(p, n)), then, else)
  PROVE  /\ op' = Goto(then) /\ Kept
         /\ Puts(volume, volume', s, n, 0)
<1>1. IsVolume(volume)
  BY VolumeIs
<1>2. /\ Append(p, n) \in Seq(Components) /\ Append(p, n) # <<>>
      /\ Namei(volume, Append(p, n)) = volume.entry[s][n]
      /\ Pdir(volume, Append(p, n)) = s /\ Last(Append(p, n)) = n
  <2> HIDE DEF volume
  <2>1. EntryPath(volume, Append(p, n), s, n)
    BY <1>1, DotsFacts
  <2> QED BY <2>1 DEF EntryPath
<1>3. /\ volume.entry[s][n] # 0 /\ ~Void(volume, volume.entry[s][n])
      /\ Leaves(volume, s, n, volume.entry[s][n])
  <2> HIDE DEF volume
  <2> QED BY <1>1, DotLeaves
<1> DEFINE q == Append(p, n)
           x == volume.entry[s][n]
<1>4. /\ q \in Seq(Components) /\ q # <<>> /\ Namei(volume, q) = x
      /\ Pdir(volume, q) = s /\ Last(q) = n /\ x # 0 /\ ~Void(volume, x)
      /\ Leaves(volume, s, n, x) /\ Do(Unlink(volume, q), then, else)
  BY <1>2, <1>3
<1> HIDE DEF q, x
<1>5. op' = Goto(then) /\ Kept /\ Unlinked(volume, volume', x, s, n)
  BY <1>4, UnlinkTree
<1> QED BY <1>4, <1>5 DEF Unlinked, Puts

-----------------------------------------------------------------------------
(* v6fs_mkdir *)
LEMMA MkdirTree ==
  ASSUME Inv, TreeInv, NEW p \in Paths, Mkdir(p), UNCHANGED <<kernel, full>>
  PROVE  TreeInv'
<1>1. PICK i \in Ialloc, g \in Grows :
        /\ Become(Maknode(volume, p, "dir", i, g).v)
        /\ op' = IF Maknode(volume, p, "dir", i, g).ok THEN Start("mkdir .", <<>>, p, TRUE)
                 ELSE Idle(FALSE)
  BY DEF Mkdir
<1> DEFINE v == volume
           w == volume'
           r == Maknode(v, p, "dir", i, g)
           d == Pdir(v, p)
           n == Last(p)
<1>2. op.stage = "idle"
  BY DEF Mkdir
<1>3. /\ Kept
      /\ r.ok => /\ i \in Inos /\ v.kind[i] = "free" /\ d \in Inos /\ v.entry[d][n] = 0
                 /\ w.entry = Written(v.entry, d, n, i)
                 /\ w.kind = [v.kind EXCEPT ![i] = "dir"]
      /\ ~r.ok => w = v
  BY <1>1, <1>2, MaknodeTree
<1>4. Sound(v) /\ IsVolume(v) /\ v.kind[ROOT] = "dir" /\ TreeBut(v, 0)
  BY <1>2, VolumeIs, InvSound DEF TreeInv
<1>5. op' = IF r.ok THEN Start("mkdir .", <<>>, p, TRUE) ELSE Idle(FALSE)
  BY <1>1
<1>6. p \in Seq(Names) /\ p # <<>>
  BY PathsAreNames
<1> HIDE DEF v, w, r
<1>7. CASE ~r.ok
  BY <1>2, <1>3, <1>4, <1>5, <1>7, AtEnd DEF w, Idle
<1>8. CASE r.ok
  <2>1. \A j \in Inos \ {i} : w.kind[j] = v.kind[j]
    BY <1>8, <1>3, <1>4 DEF IsVolume
  <2>2. w.kind[i] = "dir" /\ i \in Inos \ {ROOT}
    BY <1>8, <1>3, <1>4 DEF IsVolume
  <2>3. d # 0 /\ DirsStay(v, w)
    BY <1>8, <1>3, <2>1, <2>2, NamesAre DEF DirsStay
  <2>4. /\ n \in Names /\ v.kind[d] = "dir" /\ Rooted(v, d)
        /\ Pdir(w, p) = d /\ Namei(w, p) = i
    <3>1. /\ IsVolume(v) /\ p \in Seq(Names) /\ p # <<>> /\ i \in Inos
          /\ d # 0 /\ v.entry[d][n] = 0 /\ w.entry = Written(v.entry, d, n, i)
      BY <1>8, <2>3, <1>3, <1>4, <1>6
    <3> QED BY <3>1, <2>3, NameMade
  <2>5. d # i /\ Void(v, i)
    BY <1>8, <2>2, <2>4, <1>3, <1>4, FileHasNone
  <2> HIDE DEF d, n
  <2>6. TreeBut(w, i)
    BY <1>8, <2>1, <2>2, <2>4, <1>3, <1>4, AddName
  <2>7. \A c \in Inos, m \in Components :
          w.entry[c][m] = IF c = d /\ m = n THEN i ELSE v.entry[c][m]
    <3>1. v.entry \in EntryMaps /\ n \in Components
      BY <1>4, <2>4, NamesAre DEF IsVolume, EntryMaps
    <3> QED BY <3>1, <1>8, <1>3, WrittenAt
  <2>8. \A c \in Inos, m \in Components : v.entry[c][m] # i
    <3>1. Count(v.entry, i) = 0
      BY <1>8, <1>3, <1>4, SoundAt
    <3> QED BY <3>1, EntryCounts
  <2>9. OnlyName(w, i, d, n)
    BY <1>8, <1>3, <2>4, <2>7, <2>8, NamesAre DEF OnlyName
  <2>10. \A m \in Components : w.entry[i][m] = 0
    BY <2>2, <2>5, <2>7 DEF Void
  <2>11. HollowDir(w, p, i)
    BY <2>2, <2>4, <2>6, <2>9, <2>10, NamesAre DEF HollowDir, Hollow, n
  <2>12. Making(w, "mkdir .", p)
    BY <2>10, <2>11, NamesAre DEF Making, Dots
  <2>13. op'.stage = "mkdir ." /\ op'.new = p /\ op'.old = <<>>
    BY <1>5, <1>8 DEF Start
  <2> QED BY <1>2, <1>3, <2>12, <2>13, AtMaking DEF w, OneName
<1> QED BY <1>7, <1>8

(* A call at work on a directory without names *)
LEMMA AtWork ==
  ASSUME Inv, TreeInv, op.stage \in OneName
  PROVE  /\ op.new \in Seq(Names) /\ op.new # <<>> /\ IsVolume(volume)
         /\ Making(volume, op.stage, op.new) /\ op.old \in Seq(Names)
         /\ op.old # <<>> => Renaming(volume, op.old, op.new, op.isdir)
         /\ op.stage \notin {"reparent ..", "reparent +"} /\ op.stage # "idle"
         /\ op.new \in Seq(Components) /\ Dirname(op.new) \in Seq(Components)
<1>1. op.stage \notin {"reparent ..", "reparent +"} /\ op.stage # "idle"
  BY DEF OneName
<1>2. op.new \in Paths /\ op.old \in Paths \union {<<>>}
  BY <1>1 DEF Inv, InCall
<1>3. <<>> \in Seq(Names)
  OBVIOUS
<1> QED BY <1>1, <1>2, <1>3, PathsAreNames, VolumeIs DEF TreeInv

LEMMA OnWith ==
  ASSUME Inv, TreeInv, op.stage \in OneName, Kept, UNCHANGED <<kernel, full>>,
         NEW t \in OneName, op' = Goto(t), SameWays(volume, volume'),
         Making(volume', t, op.new)
  PROVE  TreeInv'
<1>1. t \notin Ends
  BY DEF OneName, Ends
<1>2. op'.stage = t /\ op'.new = op.new /\ op'.old = op.old /\ op'.isdir = op.isdir
  BY <1>1, AtWork, OnStage
<1>3. op'.old # <<>> => Renaming(volume', op'.old, op'.new, op'.isdir)
  BY <1>2, AtWork, RenamingStays
<1> QED BY <1>2, <1>3, AtWork, AtMaking

LEMMA MkdirDotTree ==
  ASSUME Inv, TreeInv, CountsFit, MkdirDot, UNCHANGED <<kernel, full>>
  PROVE  TreeInv'
<1> DEFINE v == volume
           w == volume'
           p == op.new
<1>1. /\ op.stage = "mkdir ." /\ op.stage \in OneName
      /\ \E g \in Grows : Do(Link(v, p, Dot(p), g), "mkdir ..", "undo ..")
  BY DEF MkdirDot, OneName
<1>2. /\ IsVolume(v) /\ p \in Seq(Names) /\ p # <<>> /\ Making(v, "mkdir .", p)
      /\ p \in Seq(Components) /\ op.stage \notin {"reparent ..", "reparent +"}
  BY <1>1, AtWork
<1>3. PICK s : HollowDir(v, p, s) /\ v.entry[s]["."] = 0 /\ v.entry[s][".."] = 0
  BY <1>2 DEF Making, Dots
<1>4. "." \in DotNames /\ ".." \in DotNames
  BY DEF DotNames
<1>5. /\ Dot(p) \in Seq(Components) /\ Dot(p) # <<>>
      /\ Pdir(v, Dot(p)) = s /\ Last(Dot(p)) = "."
  <2> HIDE DEF v, p
  <2>1. EntryPath(v, Dot(p), s, ".")
    BY <1>2, <1>3, DotFacts
  <2> QED BY <2>1 DEF EntryPath
<1>6. Namei(v, p) = s
  BY <1>3 DEF HollowDir
<1>7. /\ Kept
      /\ \/ op' = Goto("mkdir ..") /\ Linked(v, w, Namei(v, p), Pdir(v, Dot(p)), Last(Dot(p)))
         \/ op' = Goto("undo ..") /\ w.entry = v.entry /\ w.kind = v.kind
  BY <1>1, <1>2, <1>5, LinkTree
<1>8. "mkdir .." \in OneName /\ "undo .." \in OneName
  BY DEF OneName
<1> HIDE DEF v, w, p
<1>9. CASE op' = Goto("mkdir ..") /\ Linked(v, w, s, s, ".")
  <2>1. Puts(v, w, s, ".", s)
    BY <1>9 DEF Linked, Puts
  <2>2. /\ HollowDir(w, p, s) /\ SameWays(v, w)
        /\ DotOf(w, s) = s /\ DotDotOf(w, s) = DotDotOf(v, s)
    <3>1. NewDots(v, w, p, s, s, DotDotOf(v, s))
      BY <2>1, <1>2, <1>3, DotWritten
    <3> QED BY <3>1 DEF NewDots
  <2>3. Making(w, "mkdir ..", p)
    BY <2>2, <1>3 DEF Making, Dots, DotOf, DotDotOf
  <2> QED BY <2>2, <2>3, <1>1, <1>7, <1>8, <1>9, OnWith DEF v, w, p
<1>10. CASE op' = Goto("undo ..") /\ w.entry = v.entry /\ w.kind = v.kind
  <2>1. HollowDir(w, p, s) /\ SameWays(v, w)
    BY <1>2, <1>3, <1>10, HollowStays
  <2>2. Making(w, "undo ..", p)
    BY <2>1, <1>3, <1>10 DEF Making, Dots
  <2> QED BY <2>1, <2>2, <1>1, <1>7, <1>8, <1>10, OnWith DEF v, w, p
<1> QED BY <1>5, <1>6, <1>7, <1>9, <1>10

LEMMA MkdirDotDotTree ==
  ASSUME Inv, TreeInv, CountsFit, MkdirDotDot, UNCHANGED <<kernel, full>>
  PROVE  TreeInv'
<1> DEFINE v == volume
           w == volume'
           p == op.new
           d == Pdir(v, p)
<1>1. /\ op.stage = "mkdir .." /\ op.stage \in OneName
      /\ \E g \in Grows : Do(Link(v, Dirname(p), DotDot(p), g), "done", "undo ..")
  BY DEF MkdirDotDot, OneName
<1>2. /\ IsVolume(v) /\ p \in Seq(Names) /\ p # <<>> /\ Making(v, "mkdir ..", p)
      /\ Dirname(p) \in Seq(Components) /\ op.stage \notin {"reparent ..", "reparent +"}
  BY <1>1, AtWork
<1>3. PICK s : HollowDir(v, p, s) /\ v.entry[s]["."] = s /\ v.entry[s][".."] = 0
  BY <1>2 DEF Making, Dots
<1>4. "." \in DotNames /\ ".." \in DotNames
  BY DEF DotNames
<1>5. /\ DotDot(p) \in Seq(Components) /\ DotDot(p) # <<>>
      /\ Pdir(v, DotDot(p)) = s /\ Last(DotDot(p)) = ".."
  <2> HIDE DEF v, p
  <2>1. EntryPath(v, DotDot(p), s, "..")
    BY <1>2, <1>3, DotDotFacts
  <2> QED BY <2>1 DEF EntryPath
<1>6. Namei(v, Dirname(p)) = d
  <2> HIDE DEF v, p
  <2> QED BY <1>2, <1>3, HollowFacts
<1>7. /\ Kept
      /\ \/ /\ op' = Goto("done")
            /\ Linked(v, w, Namei(v, Dirname(p)), Pdir(v, DotDot(p)), Last(DotDot(p)))
         \/ op' = Goto("undo ..") /\ w.entry = v.entry /\ w.kind = v.kind
  BY <1>1, <1>2, <1>5, LinkTree
<1>8. "undo .." \in OneName
  BY DEF OneName
<1> HIDE DEF v, w, p
<1>9. CASE op' = Goto("done") /\ Linked(v, w, d, s, "..")
  <2>1. Puts(v, w, s, "..", d)
    BY <1>9 DEF Linked, Puts
  <2>2. /\ HollowDir(w, p, s) /\ DotDotOf(w, s) = d /\ Pdir(w, p) = d
        /\ DotOf(w, s) = DotOf(v, s)
    <3> HIDE DEF d
    <3>1. Pdir(v, p) = d
      BY DEF d
    <3>2. /\ HollowDir(w, p, s) /\ DotDotOf(w, s) = d /\ DotOf(w, s) = DotOf(v, s)
          /\ Pdir(w, p) = Pdir(v, p)
      <4>1. NewDots(v, w, p, s, DotOf(v, s), d)
        BY <2>1, <1>2, <1>3, DotDotWritten
      <4> QED BY <4>1 DEF NewDots
    <3> QED BY <3>1, <3>2
  <2>3. InTree(w, s)
    BY <2>2, <1>3 DEF HollowDir, InTree, OnlyName, Named, DotOf, DotDotOf
  <2>4. TreeBut(w, 0)
    BY <2>2, <2>3, TreeWhole DEF HollowDir
  <2> QED BY <2>4, <1>2, <1>7, <1>9, EndsAre, OnEnd, AtEnd DEF w
<1>10. CASE op' = Goto("undo ..") /\ w.entry = v.entry /\ w.kind = v.kind
  <2>1. HollowDir(w, p, s) /\ SameWays(v, w)
    BY <1>2, <1>3, <1>10, HollowStays
  <2>2. Making(w, "undo ..", p)
    BY <2>1, <1>3, <1>10 DEF Making, Dots
  <2> QED BY <2>1, <2>2, <1>1, <1>7, <1>8, <1>10, OnWith DEF v, w, p
<1> QED BY <1>5, <1>6, <1>7, <1>9, <1>10

LEMMA UndoDotDotTree ==
  ASSUME Inv, TreeInv, UndoDotDot, UNCHANGED <<kernel, full>>
  PROVE  TreeInv'
<1> DEFINE v == volume
           w == volume'
           p == op.new
<1>1. /\ op.stage = "undo .." /\ op.stage \in OneName
      /\ Do(Unlink(v, DotDot(p)), "undo .", "undo .")
  BY DEF UndoDotDot, OneName
<1>2. /\ IsVolume(v) /\ p \in Seq(Names) /\ p # <<>> /\ Making(v, "undo ..", p)
      /\ op.stage \notin {"reparent ..", "reparent +"}
  BY <1>1, AtWork
<1>3. PICK s : HollowDir(v, p, s) /\ v.entry[s]["."] \in {0, s} /\ v.entry[s][".."] = 0
  BY <1>2 DEF Making, Dots
<1>4. ".." \in DotNames
  BY DEF DotNames
<1>5. DotDot(p) \in Seq(Components) /\ DotDot(p) # <<>> /\ Namei(v, DotDot(p)) = 0
  <2> HIDE DEF v, p
  <2>1. EntryPath(v, DotDot(p), s, "..")
    BY <1>2, <1>3, DotDotFacts
  <2> QED BY <2>1, <1>3 DEF EntryPath
<1>6. w = v /\ op' = Goto("undo .") /\ Kept
  BY <1>1, <1>2, <1>5, UnlinkTree
<1>7. "undo ." \in OneName
  BY DEF OneName
<1> HIDE DEF v, w, p
<1>8. SameWays(v, w)
  BY <1>6 DEF SameWays
<1>9. Making(w, "undo .", p)
  BY <1>3, <1>6 DEF Making, Dots
<1> QED BY <1>1, <1>6, <1>7, <1>8, <1>9, OnWith DEF v, w, p

LEMMA UndoDotTree ==
  ASSUME Inv, TreeInv, UndoDot, UNCHANGED <<kernel, full>>
  PROVE  TreeInv'
<1> DEFINE v == volume
           w == volume'
           p == op.new
<1>1. /\ op.stage = "undo ." /\ op.stage \in OneName
      /\ Do(Unlink(v, Dot(p)), "undo", "undo")
  BY DEF UndoDot, OneName
<1>2. /\ IsVolume(v) /\ p \in Seq(Names) /\ p # <<>> /\ Making(v, "undo .", p)
      /\ op.stage \notin {"reparent ..", "reparent +"}
  BY <1>1, AtWork
<1>3. PICK s : HollowDir(v, p, s) /\ v.entry[s]["."] \in {0, s} /\ v.entry[s][".."] = 0
  BY <1>2 DEF Making, Dots
<1>4. "." \in DotNames /\ "undo" \in OneName
  BY DEF DotNames, OneName
<1>5. CASE v.entry[s]["."] = 0
  <2>1. Dot(p) \in Seq(Components) /\ Dot(p) # <<>> /\ Namei(v, Dot(p)) = v.entry[s]["."]
    <3>1. HollowDir(v, p, s) /\ "." \in DotNames
      BY <1>3, <1>4
    <3> HIDE DEF v, p
    <3>2. EntryPath(v, Dot(p), s, ".")
      BY <3>1, <1>2, DotFacts
    <3> QED BY <3>2 DEF EntryPath
  <2>2. w = v /\ op' = Goto("undo") /\ Kept
    BY <2>1, <1>1, <1>2, <1>5, UnlinkTree
  <2> HIDE DEF v, w, p
  <2>3. SameWays(v, w) /\ Making(w, "undo", p)
    BY <2>2, <1>3, <1>5 DEF SameWays, Making, Dots
  <2> QED BY <2>2, <2>3, <1>1, <1>4, OnWith DEF v, w, p
<1>6. CASE v.entry[s]["."] = s
  <2>1. s # 0
    BY <1>3, NamesAre DEF HollowDir
  <2>2. op' = Goto("undo") /\ Kept /\ Puts(v, w, s, ".", 0)
    BY <2>1, <1>1, <1>2, <1>3, <1>4, <1>6, DotGone DEF Dot
  <2> HIDE DEF v, w, p
  <2>3. /\ HollowDir(w, p, s) /\ SameWays(v, w)
        /\ DotOf(w, s) = 0 /\ DotDotOf(w, s) = DotDotOf(v, s)
    <3>1. NewDots(v, w, p, s, 0, DotDotOf(v, s))
      BY <2>2, <1>2, <1>3, DotWritten
    <3> QED BY <3>1 DEF NewDots
  <2>4. Making(w, "undo", p)
    BY <2>3, <1>3 DEF Making, Dots, DotOf, DotDotOf
  <2> QED BY <2>2, <2>3, <2>4, <1>1, <1>4, OnWith DEF v, w, p
<1> QED BY <1>3, <1>5, <1>6

(* Where the directory itself goes *)
LEMMA HollowGone ==
  ASSUME Inv, op.stage \notin {"reparent ..", "reparent +"}, NEW p \in Seq(Names), p # <<>>,
         NEW s, HollowDir(volume, p, s), volume.entry[s]["."] = 0, volume.entry[s][".."] = 0,
         NEW then, NEW else, Do(Unlink(volume, p), then, else)
  PROVE  /\ op' = Goto(then) /\ Kept /\ TreeBut(volume', 0)
         /\ volume'.entry = Written(volume.entry, Pdir(volume, p), Last(p), 0)
         /\ Namei(volume, p) = s /\ s # 0 /\ Barren(volume, s)
         /\ SameElsewhere(volume, volume', s)
<1> DEFINE v == volume
           w == volume'
<1>1. IsVolume(v)
  BY VolumeIs
<1>2. /\ Namei(v, p) = s /\ s \in Inos \ {ROOT} /\ TreeBut(v, s) /\ Void(v, s) /\ s # 0
      /\ OnlyName(v, s, Pdir(v, p), Last(p))
  BY NamesAre DEF HollowDir, Hollow, Void
<1>3. p \in Seq(Components)
  BY <1>1, NamesWalk
<1>4. Leaves(v, Pdir(v, p), Last(p), Namei(v, p)) /\ Namei(v, p) # 0
  BY <1>2 DEF Leaves
<1>5. op' = Goto(then) /\ Kept /\ Unlinked(v, w, Namei(v, p), Pdir(v, p), Last(p))
  BY <1>3, <1>4, UnlinkTree
<1> HIDE DEF v, w
<1>6. TreeBut(w, 0) /\ Barren(v, Namei(v, p)) /\ SameElsewhere(v, w, Namei(v, p))
  BY <1>1, <1>2, <1>5, TreeRemoved
<1>7. w.entry = Written(v.entry, Pdir(v, p), Last(p), 0)
  BY <1>5 DEF Unlinked
<1> QED BY <1>2, <1>5, <1>6, <1>7 DEF v, w

LEMMA UndoTree ==
  ASSUME Inv, TreeInv, Undo, UNCHANGED <<kernel, full>>
  PROVE  TreeInv'
<1>1. op.stage \in OneName /\ Do(Unlink(volume, op.new), "failed", "failed")
  BY DEF Undo, OneName
<1>2. /\ op.new \in Seq(Names) /\ op.new # <<>> /\ Making(volume, "undo", op.new)
      /\ op.stage \notin {"reparent ..", "reparent +"}
  BY <1>1, AtWork DEF Undo
<1>3. PICK s : /\ HollowDir(volume, op.new, s)
               /\ volume.entry[s]["."] = 0 /\ volume.entry[s][".."] = 0
  BY <1>2 DEF Making, Dots
<1>4. op' = Goto("failed") /\ Kept /\ TreeBut(volume', 0)
  BY <1>1, <1>2, <1>3, HollowGone
<1> QED BY <1>2, <1>4, EndsAre, OnEnd, AtEnd

-----------------------------------------------------------------------------
(* v6fs_rmdir *)
LEMMA ToRemove ==
  ASSUME NEW v, IsVolume(v), TreeBut(v, 0), NEW p \in Seq(Names), p # <<>>,
         NEW s, Namei(v, p) = s, s \in Inos \ {ROOT}, v.kind[s] = "dir", Hollow(v, s)
  PROVE  Making(v, "rmdir ..", p)
<1> DEFINE d == Pdir(v, p)
           n == Last(p)
<1>1. Namei(v, p) # 0
  BY NamesAre
<1>2. d \in Inos /\ n \in Names /\ v.entry[d][n] = s /\ Named(v, s)
  BY <1>1, NameOf
<1> HIDE DEF d, n
<1>3. InTree(v, s)
  BY NamesAre DEF TreeBut
<1>4. PICK m \in Names : OnlyName(v, s, v.entry[s][".."], m)
  BY <1>2, <1>3 DEF InTree
<1>5. v.entry[s]["."] = s
  BY <1>2, <1>3 DEF InTree
<1>6. d = v.entry[s][".."] /\ n = m
  BY <1>2, <1>4 DEF OnlyName
<1>7. OnlyName(v, s, d, n)
  BY <1>4, <1>6
<1>8. TreeBut(v, s)
  BY TreePart
<1>9. HollowDir(v, p, s)
  BY <1>7, <1>8 DEF HollowDir, d, n
<1> QED BY <1>5, <1>6, <1>9 DEF Making, Dots, d

LEMMA VolumeStays ==
  ASSUME UNCHANGED <<kind, nlink, entry, blocks>>
  PROVE  volume' = volume /\ Kept
BY DEF volume, Kept

LEMMA RmdirTree ==
  ASSUME Inv, TreeInv, NEW p \in Paths, Rmdir(p), UNCHANGED <<kernel, full>>
  PROVE  TreeInv'
<1> DEFINE v == volume
           s == Namei(v, p)
<1>1. /\ op.stage = "idle" /\ UNCHANGED <<kind, nlink, entry, blocks>>
      /\ op' = IF Removable(s) THEN Start("rmdir ..", <<>>, p, TRUE) ELSE Idle(FALSE)
  BY DEF Rmdir
<1>2. volume' = v /\ Kept
  BY <1>1, VolumeStays
<1>3. IsVolume(v) /\ TreeBut(v, 0) /\ p \in Seq(Names) /\ p # <<>> /\ p \in Seq(Components)
  BY <1>1, VolumeIs, PathsAreNames DEF TreeInv
<1>4. CASE ~Removable(s)
  <2>1. op'.stage = "idle"
    BY <1>1, <1>4 DEF Idle
  <2> QED BY <2>1, <1>1, <1>2, <1>3, AtEnd
<1>5. CASE Removable(s)
  <2>1. s \in Inos \ {ROOT} /\ v.kind[s] = "dir" /\ Hollow(v, s)
    <3>1. s \in Inos \union {0}
      BY <1>3, NameiType
    <3> QED BY <3>1, <1>5 DEF Removable, Hollow, volume
  <2>2. op'.stage = "rmdir .." /\ op'.new = p /\ op'.old = <<>>
    BY <1>1, <1>5 DEF Start
  <2> HIDE DEF v
  <2>3. Making(v, "rmdir ..", p)
    BY <2>1, <1>3, ToRemove
  <2> QED BY <2>2, <2>3, <1>1, <1>2, AtMaking DEF OneName
<1> QED BY <1>4, <1>5

LEMMA RmdirDotDotTree ==
  ASSUME Inv, TreeInv, RmdirDotDot, UNCHANGED <<kernel, full>>
  PROVE  TreeInv'
<1> DEFINE v == volume
           w == volume'
           p == op.new
<1>1. /\ op.stage = "rmdir .." /\ op.stage \in OneName
      /\ Do(Unlink(v, DotDot(p)), "rmdir .", "failed")
  BY DEF RmdirDotDot, OneName
<1>2. /\ IsVolume(v) /\ p \in Seq(Names) /\ p # <<>> /\ Making(v, "rmdir ..", p)
      /\ op.stage \notin {"reparent ..", "reparent +"}
  BY <1>1, AtWork
<1>3. PICK s : HollowDir(v, p, s) /\ v.entry[s]["."] = s /\ v.entry[s][".."] = Pdir(v, p)
  BY <1>2 DEF Making, Dots
<1>4. ".." \in DotNames /\ "rmdir ." \in OneName /\ s # 0
  BY <1>3, NamesAre DEF DotNames, OneName, HollowDir
<1>5. op' = Goto("rmdir .") /\ Kept /\ Puts(v, w, s, "..", 0)
  BY <1>1, <1>2, <1>3, <1>4, DotGone DEF DotDot
<1> HIDE DEF v, w, p
<1>6. /\ HollowDir(w, p, s) /\ SameWays(v, w)
      /\ DotDotOf(w, s) = 0 /\ DotOf(w, s) = DotOf(v, s)
  <2>1. NewDots(v, w, p, s, DotOf(v, s), 0)
    BY <1>2, <1>3, <1>5, DotDotWritten
  <2> QED BY <2>1 DEF NewDots
<1>7. Making(w, "rmdir .", p)
  BY <1>3, <1>6 DEF Making, Dots, DotOf, DotDotOf
<1> QED BY <1>1, <1>4, <1>5, <1>6, <1>7, OnWith DEF v, w, p

LEMMA RmdirDotTree ==
  ASSUME Inv, TreeInv, RmdirDot, UNCHANGED <<kernel, full>>
  PROVE  TreeInv'
<1> DEFINE v == volume
           w == volume'
           p == op.new
<1>1. /\ op.stage = "rmdir ." /\ op.stage \in OneName
      /\ Do(Unlink(v, Dot(p)), "rmdir", "failed")
  BY DEF RmdirDot, OneName
<1>2. /\ IsVolume(v) /\ p \in Seq(Names) /\ p # <<>> /\ Making(v, "rmdir .", p)
      /\ op.stage \notin {"reparent ..", "reparent +"}
  BY <1>1, AtWork
<1>3. PICK s : HollowDir(v, p, s) /\ v.entry[s]["."] = s /\ v.entry[s][".."] = 0
  BY <1>2 DEF Making, Dots
<1>4. "." \in DotNames /\ "rmdir" \in OneName /\ s # 0
  BY <1>3, NamesAre DEF DotNames, OneName, HollowDir
<1>5. op' = Goto("rmdir") /\ Kept /\ Puts(v, w, s, ".", 0)
  BY <1>1, <1>2, <1>3, <1>4, DotGone DEF Dot
<1> HIDE DEF v, w, p
<1>6. /\ HollowDir(w, p, s) /\ SameWays(v, w)
      /\ DotOf(w, s) = 0 /\ DotDotOf(w, s) = DotDotOf(v, s)
  <2>1. NewDots(v, w, p, s, 0, DotDotOf(v, s))
    BY <1>2, <1>3, <1>5, DotWritten
  <2> QED BY <2>1 DEF NewDots
<1>7. Making(w, "rmdir", p)
  BY <1>3, <1>6 DEF Making, Dots, DotOf, DotDotOf
<1> QED BY <1>1, <1>4, <1>5, <1>6, <1>7, OnWith DEF v, w, p

(* What is to be renamed is still where it was when the new name is gone. *)
LEMMA RenamingOn ==
  ASSUME NEW v, IsVolume(v), NEW w, NEW old \in Seq(Names), NEW p \in Seq(Names), p # <<>>,
         NEW isdir, Renaming(v, old, p, isdir),
         Namei(v, p) # 0, Barren(v, Namei(v, p)), SameElsewhere(v, w, Namei(v, p)),
         w.entry = Written(v.entry, Pdir(v, p), Last(p), 0)
  PROVE  Renaming(w, old, p, isdir)
<1>1. PICK i : /\ Namei(v, old) = i /\ i \notin {0, ROOT} /\ (isdir <=> v.kind[i] = "dir")
               /\ Pdir(v, p) # 0 => Avoids(v, Dirname(p), i)
               /\ Namei(v, p) # i
  BY DEF Renaming
<1>2. Namei(w, old) = i
  BY <1>1, NameRemoved
<1>3. i \in Inos
  BY <1>1, NamesWalk, NameiType
<1>4. w.kind[i] = v.kind[i]
  BY <1>1, <1>3 DEF SameElsewhere
<1>5. Pdir(v, p) \notin {0, Namei(v, p)} /\ Namei(w, p) = 0
  BY NameRemoved
<1>6. Pdir(v, p) = Namei(v, Dirname(p)) /\ Dirname(p) \in Seq(Names)
  BY NameOf
<1>7. Avoids(w, Dirname(p), i)
  BY <1>1, <1>5, <1>6, NameRemoved
<1> QED BY <1>1, <1>2, <1>4, <1>5, <1>7 DEF Renaming

LEMMA RmdirDirTree ==
  ASSUME Inv, TreeInv, RmdirDir, UNCHANGED <<kernel, full>>
  PROVE  TreeInv'
<1> DEFINE v == volume
           w == volume'
           p == op.new
           then == IF op.old = <<>> THEN "done" ELSE "link"
<1>1. op.stage = "rmdir" /\ op.stage \in OneName /\ Do(Unlink(v, p), then, "failed")
  BY DEF RmdirDir, OneName
<1>2. /\ IsVolume(v) /\ p \in Seq(Names) /\ p # <<>> /\ Making(v, "rmdir", p)
      /\ op.stage \notin {"reparent ..", "reparent +"} /\ op.stage # "idle"
      /\ op.old \in Seq(Names) /\ (op.old # <<>> => Renaming(v, op.old, p, op.isdir))
  BY <1>1, AtWork
<1>3. PICK s : HollowDir(v, p, s) /\ v.entry[s]["."] = 0 /\ v.entry[s][".."] = 0
  BY <1>2 DEF Making, Dots
<1>4. /\ op' = Goto(then) /\ Kept /\ TreeBut(w, 0)
      /\ w.entry = Written(v.entry, Pdir(v, p), Last(p), 0)
      /\ Namei(v, p) = s /\ s # 0 /\ Barren(v, s) /\ SameElsewhere(v, w, s)
  <2> HIDE DEF then
  <2> QED BY <1>1, <1>2, <1>3, HollowGone
<1>5. CASE op.old = <<>>
  BY <1>2, <1>4, <1>5, EndsAre, OnEnd, AtEnd
<1>6. CASE op.old # <<>>
  <2>1. op' = Goto("link") /\ "link" \notin Ends
    BY <1>4, <1>6 DEF Ends
  <2>2. op'.stage = "link" /\ op'.new = p /\ op'.old = op.old /\ op'.isdir = op.isdir
    BY <2>1, <1>2, OnStage
  <2> HIDE DEF v, w, p
  <2>3. Renaming(w, op.old, p, op.isdir)
    BY <1>2, <1>4, <1>6, RenamingOn
  <2> QED BY <2>2, <2>3, <1>2, <1>4, AtRenaming DEF w
<1> QED BY <1>5, <1>6

(* v6fs_rename: the file that has the new name *)
LEMMA RenameUnlinkNewTree ==
  ASSUME Inv, TreeInv, RenameUnlinkNew, UNCHANGED <<kernel, full>>
  PROVE  TreeInv'
<1> DEFINE v == volume
           w == volume'
           p == op.new
<1>1. op.stage = "unlink new" /\ Do(Unlink(v, p), "link", "failed")
  BY DEF RenameUnlinkNew
<1>2. /\ p \in Seq(Names) /\ p # <<>> /\ op.old \in Seq(Names) /\ op.old # <<>>
  BY <1>1, PathsAreNames DEF Inv, InCall, OneName
<1>3. /\ IsVolume(v) /\ TreeBut(v, 0) /\ Renaming(v, op.old, p, op.isdir)
      /\ Namei(v, p) # 0 /\ v.kind[Namei(v, p)] = "file"
  BY <1>1, <1>2, VolumeIs DEF TreeInv
<1>4. /\ op' = Goto("link") /\ Kept /\ TreeBut(w, 0)
      /\ w.entry = Written(v.entry, Pdir(v, p), Last(p), 0)
      /\ Barren(v, Namei(v, p)) /\ SameElsewhere(v, w, Namei(v, p))
  BY <1>1, <1>2, <1>3, FileGone
<1>5. "link" \notin Ends
  BY DEF Ends
<1>6. op'.stage = "link" /\ op'.new = p /\ op'.old = op.old /\ op'.isdir = op.isdir
  BY <1>1, <1>4, <1>5, OnStage
<1> HIDE DEF v, w, p
<1>7. Renaming(w, op.old, p, op.isdir)
  BY <1>2, <1>3, <1>4, RenamingOn
<1> QED BY <1>1, <1>4, <1>6, <1>7, AtRenaming DEF w

(* What begins a rename: what is moved is not on the way to its new name. *)
LEMMA MovesAside ==
  ASSUME NEW v, IsVolume(v), TreeBut(v, 0), NEW old \in Seq(Names), NEW p \in Seq(Names),
         p # <<>>, ~IsStrictPrefix(old, p), old # p,
         Namei(v, old) \notin {0, ROOT}, Pdir(v, p) # 0
  PROVE  Avoids(v, Dirname(p), Namei(v, old))
<1> DEFINE i == Namei(v, old)
           q == Dirname(p)
<1>1. /\ q \in Seq(Names) /\ Len(q) = Len(p) - 1 /\ Len(p) - 1 \in Nat
      /\ \A k \in 1 .. Len(p) - 1 : q[k] = p[k]
  BY DirnameType
<1>2. Pdir(v, p) = Namei(v, q) /\ v.kind[Namei(v, q)] = "dir" /\ Namei(v, q) # 0
  BY DEF Pdir
<1>3. i \in Inos
  BY NamesWalk, NameiType
<1>4. CASE v.kind[i] # "dir"
  <2>1. Namei(v, q) \notin {0, i} /\ Barren(v, i)
    BY <1>2, <1>3, <1>4, FileHasNone
  <2> HIDE DEF q, i
  <2> QED BY <2>1, <1>1, LeafAvoided DEF Barren, q, i
<1>5. CASE v.kind[i] = "dir"
  <2>1. PICK at : Walks(v, q, Len(q), at)
    BY <1>1, NameiWalks
  <2>2. ASSUME NEW k \in 0 .. Len(q), at[k] = i PROVE FALSE
    <3> DEFINE r == SubSeq(q, 1, k)
    <3>1. r \in Seq(Names) /\ Len(r) = k /\ \A j \in 1 .. k : r[j] = q[j]
      BY <1>1
    <3>2. Namei(v, r) = i
      <4> HIDE DEF q, i
      <4> QED BY <2>1, <2>2, <1>1, WalkPrefix
    <3>3. r = old
      <4> HIDE DEF r, q
      <4>1. Namei(v, old) = i
        OBVIOUS
      <4> HIDE DEF i
      <4>2. Namei(v, r) = Namei(v, old) /\ Namei(v, r) # 0 /\ v.kind[Namei(v, r)] = "dir"
        BY <3>2, <4>1, <1>5
      <4> QED BY <3>1, <4>2, OnePath
    <3>4. \A j \in 1 .. k : old[j] = p[j]
      <4>1. \A j \in 1 .. k : q[j] = p[j]
        BY <1>1
      <4> HIDE DEF r, q
      <4> QED BY <3>1, <3>3, <4>1
    <3>5. Len(old) = k /\ k <= Len(p) - 1
      BY <3>1, <3>3, <1>1
    <3> HIDE DEF r, q
    <3>6. SubSeq(p, 1, k) = old
      <4>1. /\ SubSeq(p, 1, k) \in Seq(Names) /\ Len(SubSeq(p, 1, k)) = k
            /\ \A j \in 1 .. k : SubSeq(p, 1, k)[j] = p[j]
        BY <3>5, <1>1
      <4> QED BY <4>1, <3>4, <3>5, SeqEqual
    <3>7. SubSeq(old, 1, k) = old
      <4>1. /\ SubSeq(old, 1, k) \in Seq(Names) /\ Len(SubSeq(old, 1, k)) = k
            /\ \A j \in 1 .. k : SubSeq(old, 1, k)[j] = old[j]
        BY <3>5, <1>1
      <4> QED BY <4>1, <3>5, SeqEqual
    <3>8. IsStrictPrefix(old, p)
      BY <3>5, <3>6, <3>7, <1>1 DEF IsStrictPrefix, IsPrefix
    <3> QED BY <3>8
  <2> QED BY <2>1, <2>2 DEF Avoids
<1> QED BY <1>4, <1>5

LEMMA RenameTree ==
  ASSUME Inv, TreeInv, NEW old \in Paths, NEW new \in Paths, Rename(old, new),
         UNCHANGED <<kernel, full>>
  PROVE  TreeInv'
<1> DEFINE v == volume
           i == Namei(v, old)
           j == Namei(v, new)
           isdir == i # 0 /\ kind[i] = "dir"
           first == IF j = 0 THEN "link" ELSE IF isdir THEN "rmdir .." ELSE "unlink new"
<1>1. /\ op.stage = "idle" /\ UNCHANGED <<kind, nlink, entry, blocks>>
      /\ old # new /\ ~IsStrictPrefix(old, new)
      /\ \/ op' = Idle(FALSE) \/ op' = Idle(TRUE)
         \/ /\ i \notin {0, ROOT} /\ i # j /\ Replaceable(i, j)
            /\ op' = Start(first, old, new, isdir)
  <2> HIDE DEF first
  <2>1. /\ op.stage = "idle" /\ UNCHANGED <<kind, nlink, entry, blocks>>
        /\ old # new /\ ~IsStrictPrefix(old, new)
        /\ op' = CASE i \in {0, ROOT} -> Idle(FALSE)
                   [] i \notin {0, ROOT} /\ i = j -> Idle(TRUE)
                   [] OTHER -> IF Replaceable(i, j) /\ ~(isdir /\ Isindir(new, i))
                               THEN Start(first, old, new, isdir) ELSE Idle(FALSE)
    BY DEF Rename, first
  <2> HIDE DEF i, j, isdir
  <2> QED BY <2>1
<1>2. volume' = v /\ Kept
  BY <1>1, VolumeStays
<1>3. /\ IsVolume(v) /\ Sound(v) /\ TreeBut(v, 0) /\ new \in Seq(Names) /\ new # <<>>
      /\ old \in Seq(Names) /\ old \in Seq(Components) /\ new \in Seq(Components)
      /\ old # <<>>
  BY <1>1, VolumeIs, InvSound, PathsAreNames DEF TreeInv
<1>4. CASE op' = Idle(FALSE) \/ op' = Idle(TRUE)
  <2>1. op'.stage = "idle"
    BY <1>4 DEF Idle
  <2> QED BY <2>1, <1>1, <1>2, <1>3, AtEnd
<1>5. CASE /\ i \notin {0, ROOT} /\ i # j /\ Replaceable(i, j)
           /\ op' = Start(first, old, new, isdir)
  <2>1. /\ op'.stage = first /\ op'.new = new /\ op'.old = old
        /\ op'.isdir <=> isdir
    BY <1>5 DEF Start
  <2>2. isdir <=> v.kind[i] = "dir"
    BY <1>5 DEF volume
  <2>3. Renaming(v, old, new, op'.isdir)
    <3> HIDE DEF v, isdir
    <3>1. Pdir(v, new) # 0 => Avoids(v, Dirname(new), i)
      BY <1>1, <1>3, <1>5, MovesAside
    <3> QED BY <2>1, <2>2, <3>1, <1>5 DEF Renaming
  <2>4. j # 0 => v.kind[j] = v.kind[i] /\ (v.kind[j] = "dir" => Removable(j))
    BY <1>5 DEF Replaceable, volume
  <2>5. CASE j = 0
    <3>1. op'.stage = "link"
      BY <2>1, <2>5
    <3> QED BY <3>1, <2>1, <2>3, <1>1, <1>2, <1>3, AtRenaming
  <2>6. CASE j # 0 /\ isdir
    <3>1. op'.stage = "rmdir .."
      BY <2>1, <2>6
    <3>2. j \in Inos \ {ROOT} /\ v.kind[j] = "dir" /\ Hollow(v, j)
      <4>1. j \in Inos \union {0}
        BY <1>3, NameiType
      <4> QED BY <4>1, <2>2, <2>4, <2>6 DEF Removable, Hollow, volume
    <3>3. Making(v, "rmdir ..", new)
      <4> HIDE DEF v
      <4> QED BY <3>2, <1>3, ToRemove
    <3> QED BY <3>1, <3>3, <2>1, <2>3, <1>1, <1>2, AtMaking DEF OneName
  <2>7. CASE j # 0 /\ ~isdir
    <3>1. op'.stage = "unlink new"
      BY <2>1, <2>7
    <3>2. v.kind[j] = "file"
      <4>1. v.kind[j] # "free" /\ j \in Inos
        BY <2>7, <1>3, NamedInUse
      <4> QED BY <4>1, <2>2, <2>4, <2>7, <1>3 DEF IsVolume
    <3> QED BY <3>1, <3>2, <2>1, <2>3, <2>7, <1>1, <1>2, <1>3, AtRenaming
  <2> QED BY <2>5, <2>6, <2>7
<1> QED BY <1>1, <1>4, <1>5

(* The link of a rename made: what is moved has two names. *)
LEMMA TwoNames ==
  ASSUME NEW v, IsVolume(v), TreeBut(v, 0), NEW w, NEW old \in Seq(Names), old # <<>>,
         NEW new \in Seq(Names), new # <<>>, NEW isdir, Renaming(v, old, new, isdir),
         Linked(v, w, Namei(v, old), Pdir(v, new), Last(new))
  PROVE  Twice(w, old, new, isdir)
<1> DEFINE c == Pdir(v, old)
           d == Pdir(v, new)
           n == Last(new)
<1>1. PICK i : /\ Namei(v, old) = i /\ i \notin {0, ROOT} /\ (isdir <=> v.kind[i] = "dir")
               /\ Pdir(v, new) # 0 => Avoids(v, Dirname(new), i)
               /\ Namei(v, new) # i
  BY DEF Renaming
<1>2. /\ i \in Inos /\ d \in Inos /\ v.entry[d][n] = 0 /\ d # 0
      /\ w.entry = Written(v.entry, d, n, i) /\ w.kind = v.kind
  BY <1>1, NamesAre DEF Linked
<1>3. DirsStay(v, w)
  BY <1>2 DEF DirsStay
<1>4. /\ n \in Names /\ v.kind[d] = "dir" /\ Rooted(v, d) /\ Pdir(w, new) = d
      /\ Namei(w, Dirname(new)) = d /\ Namei(w, new) = i
  BY <1>2, <1>3, NameMade
<1>5. LeadsOn(v, w)
  BY <1>2, <1>3, NameMade
<1>6. Namei(w, old) = i
  BY <1>1, <1>5 DEF LeadsOn
<1>7. Avoids(w, Dirname(new), i)
  <2>1. Dirname(new) \in Seq(Names) /\ Namei(v, Dirname(new)) # 0
    BY <1>2, DirnameType DEF Pdir
  <2> QED BY <2>1, <1>1, <1>2, <1>5 DEF LeadsOn
<1>8. /\ c = Namei(v, Dirname(old)) /\ Dirname(old) \in Seq(Names) /\ c \in Inos /\ c # 0
      /\ v.kind[c] = "dir" /\ Last(old) \in Names /\ v.entry[c][Last(old)] = i
      /\ Named(v, i)
  BY <1>1, NameOf, NamesAre
<1>9. Pdir(w, old) = c
  <2>1. Namei(w, Dirname(old)) = c
    BY <1>5, <1>8 DEF LeadsOn
  <2> QED BY <2>1, <1>2, <1>8 DEF Pdir
<1>10. c # i
  <2>1. ASSUME c = i PROVE FALSE
    <3>1. Dirname(old) = old
      <4>1. Namei(v, Dirname(old)) = Namei(v, old) /\ v.kind[Namei(v, old)] = "dir"
            /\ Namei(v, old) # 0
        BY <2>1, <1>1, <1>8
      <4> QED BY <4>1, <1>8, OnePath
    <3>2. Len(Dirname(old)) = Len(old) - 1 /\ Len(old) - 1 \in Nat
      BY DirnameType
    <3> QED BY <3>1, <3>2
  <2> QED BY <2>1
<1> HIDE DEF c, d, n
<1>11. ~(c = d /\ Last(old) = n)
  BY <1>1, <1>2, <1>8
<1>12. TreeBut(w, i)
  <2>1. w.kind[i] # "dir" => d # i /\ Void(v, i)
    BY <1>2, <1>4, FileHasNone
  <2> QED BY <2>1, <1>1, <1>2, <1>4, AddName
<1>13. ASSUME isdir
       PROVE  /\ w.entry[i]["."] = i /\ w.entry[i][".."] = c
              /\ \A b \in Inos, m \in Names : w.entry[b][m] = i =>
                   (b = c /\ m = Last(old)) \/ (b = d /\ m = n)
  <2>1. InTree(v, i)
    BY <1>1, <1>2, <1>13, NamesAre DEF TreeBut
  <2>2. v.entry[i]["."] = i
    BY <2>1, <1>8 DEF InTree
  <2>3. PICK m \in Names : OnlyName(v, i, v.entry[i][".."], m)
    BY <2>1, <1>8 DEF InTree
  <2>4. v.entry[i][".."] = c /\ m = Last(old)
    BY <2>3, <1>8 DEF OnlyName
  <2>5. \A b \in Inos, k \in Components :
          w.entry[b][k] = IF b = d /\ k = n THEN i ELSE v.entry[b][k]
    <3>1. v.entry \in EntryMaps /\ n \in Components
      BY <1>4, NamesAre DEF IsVolume, EntryMaps
    <3> QED BY <3>1, <1>2, WrittenAt
  <2>6. w.entry[i]["."] = i /\ w.entry[i][".."] = c
    BY <2>2, <2>4, <2>5, <1>2, <1>4, NamesAre
  <2>7. ASSUME NEW b \in Inos, NEW k \in Names, w.entry[b][k] = i
        PROVE  (b = c /\ k = Last(old)) \/ (b = d /\ k = n)
    BY <2>3, <2>4, <2>5, <2>7, NamesAre DEF OnlyName
  <2> QED BY <2>6, <2>7
<1>14. isdir <=> w.kind[i] = "dir"
  BY <1>1, <1>2
<1> QED
  BY <1>1, <1>4, <1>6, <1>7, <1>9, <1>10, <1>11, <1>12, <1>13, <1>14 DEF Twice, n

LEMMA RenameLinkTree ==
  ASSUME Inv, TreeInv, CountsFit, RenameLink, UNCHANGED <<kernel, full>>
  PROVE  TreeInv'
<1> DEFINE v == volume
           w == volume'
           old == op.old
           new == op.new
<1>1. /\ op.stage = "link"
      /\ \E g \in Grows : Do(Link(v, old, new, g), "unlink old", "failed")
  BY DEF RenameLink
<1>2. /\ new \in Seq(Names) /\ new # <<>> /\ old \in Seq(Names) /\ old # <<>>
      /\ new \in Seq(Components) /\ old \in Seq(Components)
  BY <1>1, PathsAreNames DEF Inv, InCall, OneName
<1>3. IsVolume(v) /\ TreeBut(v, 0) /\ Renaming(v, old, new, op.isdir)
  BY <1>1, <1>2, VolumeIs DEF TreeInv
<1>4. /\ Kept
      /\ \/ op' = Goto("unlink old") /\ Linked(v, w, Namei(v, old), Pdir(v, new), Last(new))
         \/ op' = Goto("failed") /\ w.entry = v.entry /\ w.kind = v.kind
  BY <1>1, <1>2, LinkTree
<1>5. CASE op' = Goto("unlink old") /\ Linked(v, w, Namei(v, old), Pdir(v, new), Last(new))
  <2>1. "unlink old" \notin Ends
    BY DEF Ends
  <2>2. op'.stage = "unlink old" /\ op'.new = new /\ op'.old = old /\ op'.isdir = op.isdir
    BY <2>1, <1>1, <1>5, OnStage
  <2> HIDE DEF v, w, old, new
  <2>3. Twice(w, old, new, op.isdir)
    BY <1>2, <1>3, <1>5, TwoNames
  <2> QED BY <2>2, <2>3, <1>1, <1>4, AtTwice DEF w
<1>6. CASE op' = Goto("failed") /\ w.entry = v.entry /\ w.kind = v.kind
  <2> HIDE DEF v, w
  <2>1. TreeBut(w, 0)
    BY <1>3, <1>6 DEF TreeBut, RootOK, InTree, Named, OnlyName, Void
  <2> QED BY <2>1, <1>1, <1>4, <1>6, EndsAre, OnEnd, AtEnd DEF w
<1> QED BY <1>4, <1>5, <1>6

(* The old name removed: a file is moved, of a directory ".." is left. *)
LEMMA OldNameGone ==
  ASSUME NEW v, IsVolume(v), NEW w, NEW old \in Seq(Names), old # <<>>,
         NEW new \in Seq(Names), new # <<>>, NEW isdir, Twice(v, old, new, isdir),
         w.entry = Written(v.entry, Pdir(v, old), Last(old), 0), w.kind = v.kind
  PROVE  /\ ~isdir => TreeBut(w, 0)
         /\ isdir => Moving(w, new)
<1> DEFINE c == Pdir(v, old)
           m == Last(old)
           d == Pdir(v, new)
           n == Last(new)
<1>1. PICK i :
        /\ Namei(v, old) = i /\ i \notin {0, ROOT} /\ (isdir <=> v.kind[i] = "dir")
        /\ Namei(v, new) = i /\ Avoids(v, Dirname(new), i) /\ TreeBut(v, i)
        /\ ~(c = d /\ m = n) /\ c # i
        /\ isdir => /\ v.entry[i]["."] = i /\ v.entry[i][".."] = c
                    /\ \A b \in Inos, k \in Names : v.entry[b][k] = i =>
                         (b = c /\ k = m) \/ (b = d /\ k = n)
  BY DEF Twice
<1>2. /\ c = Namei(v, Dirname(old)) /\ Dirname(old) \in Seq(Names) /\ c \in Inos /\ c # 0
      /\ m \in Names /\ v.entry[c][m] = i /\ i \in Inos
  BY <1>1, NameOf, NamesAre
<1>3. /\ d = Namei(v, Dirname(new)) /\ Dirname(new) \in Seq(Names) /\ d \in Inos /\ d # 0
      /\ v.kind[d] = "dir" /\ n \in Names /\ v.entry[d][n] = i
  BY <1>1, NameOf, NamesAre
<1>4. Rooted(v, c)
  BY <1>2, PathRooted
<1>5. Namei(w, new) = Step(w, Namei(w, Dirname(new)), n)
  BY NameiStep
<1>0. w.entry = Written(v.entry, c, m, 0) /\ w.kind = v.kind
  OBVIOUS
<1> HIDE DEF c, d, m, n
<1>6. \A b \in Inos, k \in Components :
        w.entry[b][k] = IF b = c /\ k = m THEN 0 ELSE v.entry[b][k]
  <2>1. v.entry \in EntryMaps /\ m \in Components
    BY <1>2, NamesAre DEF IsVolume, EntryMaps
  <2> QED BY <2>1, <1>0, <1>2, WrittenAt
<1>7. TreeBut(w, i)
  <2>1. w.kind[i] # "dir" => Void(v, i)
    BY <1>0, <1>1, <1>2 DEF TreeBut
  <2> QED BY <2>1, <1>0, <1>1, <1>2, DropName
<1>8. ASSUME ~isdir PROVE TreeBut(w, 0)
  <2>1. w.kind[i] # "dir"
    BY <1>0, <1>1, <1>8
  <2> QED BY <2>1, <1>7, TreeWhole
<1>9. ASSUME isdir PROVE Moving(w, new)
  <2>1. Spares(v, w, i)
    <3>1. ASSUME NEW b \in Inos \union {0}, NEW k \in Names, b # i, Step(v, b, k) # i
          PROVE  Step(w, b, k) = Step(v, b, k)
      <4>1. CASE b = 0
        BY <4>1 DEF Step
      <4>2. CASE b \in Inos
        <5>1. v.kind[b] = "dir" => ~(b = c /\ k = m)
          BY <4>2, <3>1, <1>2, NamesAre DEF Step
        <5> QED BY <5>1, <4>2, <1>0, <1>6, NamesAre DEF Step
      <4> QED BY <4>1, <4>2, <3>1
    <3> QED BY <3>1 DEF Spares
  <2>2. Namei(w, Dirname(new)) = d
    BY <2>1, <1>1, <1>3, NameiSpares
  <2>3. w.entry[d][n] = i
    BY <1>1, <1>3, <1>6, NamesAre
  <2>4. Namei(w, new) = i
    BY <2>2, <2>3, <1>0, <1>3, <1>5 DEF Step
  <2>5. OnlyName(w, i, d, n)
    <3>1. ASSUME NEW b \in Inos, NEW k \in Names, w.entry[b][k] = i
          PROVE  b = d /\ k = n
      BY <3>1, <1>1, <1>6, <1>9, NamesAre
    <3> QED BY <3>1, <2>3, <1>3 DEF OnlyName
  <2>6. w.entry[i]["."] = i /\ w.entry[i][".."] = c
    BY <1>1, <1>2, <1>6, <1>9, NamesAre
  <2>7. Rooted(w, c)
    <3>1. CASE Named(v, c)
      <4>1. PICK b \in Inos, k \in Names : v.entry[b][k] = c
        BY <3>1 DEF Named
      <4>2. w.entry[b][k] = c
        BY <4>1, <1>1, <1>2, <1>6, NamesAre
      <4> QED BY <4>2 DEF Rooted, Named
    <3> QED BY <3>1, <1>4 DEF Rooted
  <2>8. w.kind[i] = "dir"
    BY <1>0, <1>1, <1>9
  <2> HIDE DEF Rooted
  <2> QED BY <2>2, <2>4, <2>5, <2>6, <2>7, <2>8, <1>1, <1>2, <1>7 DEF Moving, n
<1> QED BY <1>8, <1>9

LEMMA OldUnlinked ==
  ASSUME Inv, TreeInv, CountsFit, RenameUnlinkOld
  PROVE  /\ op.stage = "unlink old" /\ IsVolume(volume) /\ Inv'
         /\ op.new \in Seq(Names) /\ op.new # <<>> /\ op.old \in Seq(Names) /\ op.old # <<>>
         /\ Twice(volume, op.old, op.new, op.isdir)
         /\ op' = Goto(IF op.isdir THEN "reparent" ELSE "done") /\ Kept
         /\ volume'.entry = Written(volume.entry, Pdir(volume, op.old), Last(op.old), 0)
         /\ volume'.kind = volume.kind
<1> DEFINE v == volume
           w == volume'
           old == op.old
           new == op.new
           then == IF op.isdir THEN "reparent" ELSE "done"
           i == Namei(v, old)
<1>1. op.stage = "unlink old" /\ Do(Unlink(v, old), then, "failed")
  BY DEF RenameUnlinkOld
<1>2. /\ new \in Seq(Names) /\ new # <<>> /\ old \in Seq(Names) /\ old # <<>>
      /\ new \in Seq(Components) /\ old \in Seq(Components)
  BY <1>1, PathsAreNames DEF Inv, InCall, OneName
<1>3. IsVolume(v) /\ Twice(v, old, new, op.isdir)
  BY <1>1, VolumeIs DEF TreeInv
<1>4. Inv'
  BY RenameInv
<1>5. /\ i # 0 /\ Namei(v, new) = i
      /\ ~(Pdir(v, old) = Pdir(v, new) /\ Last(old) = Last(new))
  BY <1>3 DEF Twice
<1>6. /\ Pdir(v, new) \in Inos /\ Last(new) \in Names /\ v.entry[Pdir(v, new)][Last(new)] = i
      /\ Pdir(v, old) \in Inos /\ Last(old) \in Names
  <2> HIDE DEF v, i
  <2> QED BY <1>2, <1>3, <1>5, NameOf DEF i
<1>7. Leaves(v, Pdir(v, old), Last(old), i)
  <2>1. Last(new) \in Components
    BY <1>6, NamesAre
  <2> HIDE DEF v, i, old, new
  <2> QED BY <2>1, <1>5, <1>6 DEF Leaves
<1>8. op' = Goto(then) /\ Kept /\ Unlinked(v, w, i, Pdir(v, old), Last(old))
  <2> HIDE DEF then
  <2> QED BY <1>1, <1>2, <1>5, <1>7, UnlinkTree
<1>9. w.entry = Written(v.entry, Pdir(v, old), Last(old), 0)
  BY <1>8 DEF Unlinked
<1>10. w.kind = v.kind
  <2>1. w.entry[Pdir(v, new)][Last(new)] = i
    <3>1. v.entry \in EntryMaps /\ Last(new) \in Components /\ Last(old) \in Components
      BY <1>3, <1>6, NamesAre DEF IsVolume, EntryMaps
    <3> HIDE DEF v, w, i, old, new
    <3> QED BY <3>1, <1>5, <1>6, <1>9, WrittenAt
  <2>2. Count(w.entry, i) # 0
    BY <2>1, <1>6, NamesAre, EntryCounts
  <2>3. i \in Inos
    BY <1>8 DEF Unlinked
  <2>4. w.kind[i] # "free"
    BY <2>2, <2>3, <1>4 DEF Inv, Covered
  <2> HIDE DEF w, v, i
  <2> QED BY <2>3, <2>4, <1>3, <1>8 DEF Unlinked, IsVolume
<1> QED BY <1>1, <1>2, <1>3, <1>4, <1>8, <1>9, <1>10

LEMMA RenameUnlinkOldTree ==
  ASSUME Inv, TreeInv, CountsFit, RenameUnlinkOld, UNCHANGED <<kernel, full>>
  PROVE  TreeInv'
<1>1. /\ op.stage = "unlink old" /\ IsVolume(volume)
      /\ op.new \in Seq(Names) /\ op.new # <<>> /\ op.old \in Seq(Names) /\ op.old # <<>>
      /\ Twice(volume, op.old, op.new, op.isdir)
      /\ op' = Goto(IF op.isdir THEN "reparent" ELSE "done") /\ Kept
      /\ volume'.entry = Written(volume.entry, Pdir(volume, op.old), Last(op.old), 0)
      /\ volume'.kind = volume.kind
  BY OldUnlinked
<1>2. /\ ~op.isdir => TreeBut(volume', 0)
      /\ op.isdir => Moving(volume', op.new)
  <2> DEFINE v == volume
             w == volume'
             old == op.old
             new == op.new
  <2>1. /\ IsVolume(v) /\ new \in Seq(Names) /\ new # <<>> /\ old \in Seq(Names) /\ old # <<>>
        /\ Twice(v, old, new, op.isdir) /\ w.kind = v.kind
        /\ w.entry = Written(v.entry, Pdir(v, old), Last(old), 0)
    BY <1>1
  <2> HIDE DEF v, w, old, new
  <2>2. /\ ~op.isdir => TreeBut(w, 0)
        /\ op.isdir => Moving(w, new)
    BY <2>1, OldNameGone
  <2> QED BY <2>2 DEF w, new
<1>3. CASE ~op.isdir
  BY <1>1, <1>2, <1>3, EndsAre, OnEnd, AtEnd
<1>4. CASE op.isdir
  <2>1. op' = Goto("reparent") /\ "reparent" \notin Ends
    BY <1>1, <1>4 DEF Ends
  <2>2. op'.stage = "reparent" /\ op'.new = op.new
    BY <2>1, <1>1, OnStage
  <2> QED BY <2>2, <1>1, <1>2, <1>4, AtMoving
<1> QED BY <1>3, <1>4

-----------------------------------------------------------------------------
(* v6fs_reparentdir *)
LEMMA MovingStays ==
  ASSUME NEW v, IsVolume(v), NEW w, NEW new \in Seq(Names), new # <<>>, Moving(v, new),
         w.entry = v.entry, w.kind = v.kind
  PROVE  Moving(w, new)
<1>1. SameWays(v, w)
  BY DEF SameWays
<1>2. /\ Namei(w, new) = Namei(v, new)
      /\ Namei(w, Dirname(new)) = Namei(v, Dirname(new))
  BY <1>1, DirnameType, SameWay
<1>3. \A s : TreeBut(v, s) => TreeBut(w, s)
  BY DEF TreeBut, RootOK, InTree, Named, OnlyName, Void
<1>4. \A s : Rooted(v, s) => Rooted(w, s)
  BY DEF Rooted, Named
<1>5. \A s, d, n : OnlyName(v, s, d, n) => OnlyName(w, s, d, n)
  BY DEF OnlyName
<1> QED BY <1>2, <1>3, <1>4, <1>5 DEF Moving

LEMMA InReparent ==
  ASSUME Inv, TreeInv, op.stage \in {"reparent", "reparent .."}
  PROVE  /\ op.new \in Seq(Names) /\ op.new # <<>> /\ IsVolume(volume)
         /\ Moving(volume, op.new)
<1>1. op.new \in Paths
  BY DEF Inv, InCall
<1> QED BY <1>1, PathsAreNames, VolumeIs DEF TreeInv

LEMMA ReparentTree ==
  ASSUME Inv, TreeInv, Reparent, UNCHANGED <<kernel, full>>
  PROVE  TreeInv'
<1> DEFINE v == volume
           w == volume'
           new == op.new
<1>1. op.stage = "reparent" /\ kind' = kind /\ entry' = entry /\ blocks' = blocks
  BY DEF Reparent
<1>2. new \in Seq(Names) /\ new # <<>> /\ IsVolume(v) /\ Moving(v, new)
  BY <1>1, InReparent
<1>3. PICK s :
        /\ Moved = s /\ s \in Inos \ {ROOT} /\ v.kind[s] = "dir"
        /\ OnlyName(v, s, NewParent, Last(new)) /\ TreeBut(v, s)
        /\ v.entry[s]["."] = s /\ entry[s][".."] \in Inos
  BY <1>2 DEF Moving, Moved, NewParent, volume
<1> DEFINE old == entry[s][".."]
<1>4. old # 0 /\ s # 0
  BY <1>3, NamesAre
<1>5. \/ old = NewParent /\ op' = Goto("done") /\ UNCHANGED nlink
      \/ /\ op' = [op EXCEPT !.stage = "reparent ..", !.parent = old]
         /\ nlink' = [nlink EXCEPT ![old] = @ - 1]
  BY <1>3, <1>4 DEF Reparent
<1>6. CASE old = NewParent /\ op' = Goto("done") /\ UNCHANGED nlink
  <2>1. w = v /\ Kept
    BY <1>1, <1>6, VolumeStays
  <2>2. v.entry[s][".."] = NewParent
    BY <1>6 DEF volume
  <2> HIDE DEF v
  <2>3. InTree(v, s)
    BY <2>2, <1>3 DEF InTree, OnlyName, Named
  <2>4. TreeBut(v, 0)
    BY <2>3, <1>3, TreeWhole
  <2> QED BY <2>1, <2>4, <1>1, <1>6, EndsAre, OnEnd, AtEnd
<1>7. CASE /\ op' = [op EXCEPT !.stage = "reparent ..", !.parent = old]
           /\ nlink' = [nlink EXCEPT ![old] = @ - 1]
  <2>1. op'.stage = "reparent .." /\ op'.new = new /\ op'.parent = old
    BY <1>1, <1>7 DEF Inv, InCall
  <2>2. Short' = old
    BY <2>1 DEF Short
  <2>3. w.entry = v.entry /\ w.kind = v.kind
    BY <1>1 DEF volume
  <2>4. Moving(w, new)
    <3> HIDE DEF v, w, new
    <3> QED BY <2>3, <1>2, MovingStays
  <2>5. ASSUME ~Miscounts PROVE Exact(w, old)
    <3>1. Exact(v, 0)
      BY <2>5, <1>1, ShortIs
    <3>2. v.nlink \in [Inos -> Int] /\ w.nlink = [v.nlink EXCEPT ![old] = v.nlink[old] - 1]
      BY <1>2, <1>7 DEF IsVolume, volume
    <3> HIDE DEF v, w, old
    <3>3. ASSUME NEW i \in Inos, w.kind[i] # "free"
          PROVE  w.nlink[i] + Bit(i = old) = Count(w.entry, i)
      <4>1. v.nlink[i] + Bit(i = 0) = Count(v.entry, i)
        BY <3>1, <3>3, <2>3 DEF Exact
      <4>2. w.nlink[i] = v.nlink[i] - Bit(i = old) /\ Bit(i = 0) = 0 /\ v.nlink[i] \in Int
        BY <3>2, NamesAre DEF Bit
      <4> QED BY <4>1, <4>2, <2>3 DEF Bit
    <3> QED BY <3>3 DEF Exact
  <2>6. ~Miscounts' => Exact(w, Short')
    BY <2>2, <2>5 DEF Miscounts
  <2> QED BY <2>1, <2>4, <2>6 DEF TreeInv, OneName
<1> QED BY <1>5, <1>6, <1>7

(* The entry ".." rewritten: the directory is in the tree where it came. *)
LEMMA Replaced ==
  ASSUME NEW v, IsVolume(v), NEW w, NEW new \in Seq(Names), new # <<>>, Moving(v, new),
         NEW to, to = Namei(v, Dirname(new)),
         w.entry = Written(v.entry, Namei(v, new), "..", to), w.kind = v.kind
  PROVE  /\ TreeBut(w, 0) /\ SameWays(v, w)
         /\ Rooted(w, v.entry[Namei(v, new)][".."]) /\ Rooted(w, to)
<1>1. PICK s : /\ Namei(v, new) = s /\ s \in Inos \ {ROOT} /\ v.kind[s] = "dir"
               /\ OnlyName(v, s, to, Last(new)) /\ TreeBut(v, s)
               /\ v.entry[s]["."] = s
               /\ v.entry[s][".."] \in Inos /\ Rooted(v, v.entry[s][".."])
  BY DEF Moving
<1>2. TreeBut(w, s) /\ SameWays(v, w)
  <2> DEFINE n == ".."
  <2>1. n \in DotNames /\ w.entry = Written(v.entry, s, n, to) /\ w.kind = v.kind
    BY <1>1 DEF DotNames
  <2> HIDE DEF n
  <2> QED BY <2>1, <1>1, SetDot
<1>3. w.entry[s]["."] = s /\ w.entry[s][".."] = to
  <2>1. v.entry \in EntryMaps /\ ".." \in Components /\ "." \in Components
    BY NamesAre DEF IsVolume, EntryMaps
  <2> QED BY <2>1, <1>1 DEF Written, EntryMaps
<1>4. OnlyName(w, s, to, Last(new))
  BY <1>1, <1>2 DEF OnlyName, SameWays
<1>5. InTree(w, s)
  BY <1>3, <1>4 DEF InTree, OnlyName, Named
<1>6. TreeBut(w, 0)
  BY <1>2, <1>5, TreeWhole
<1>7. Rooted(v, to)
  <2>1. Dirname(new) \in Seq(Names) /\ to # 0
    BY <1>1, NamesAre, DirnameType DEF OnlyName
  <2> QED BY <2>1, PathRooted
<1>8. \A i : Rooted(v, i) => Rooted(w, i)
  BY <1>2 DEF Rooted, Named, SameWays
<1> QED BY <1>1, <1>2, <1>6, <1>7, <1>8

LEMMA ReparentDotDotTree ==
  ASSUME Inv, TreeInv, ReparentDotDot, UNCHANGED <<kernel, full>>
  PROVE  TreeInv'
<1> DEFINE v == volume
           w == volume'
           new == op.new
           s == Moved
           to == NewParent
           old == op.parent
<1>1. /\ op.stage = "reparent .." /\ kind' = kind /\ nlink' = nlink
      /\ entry' = [entry EXCEPT ![s][".."] = to] /\ op' = Goto("reparent +")
  BY DEF ReparentDotDot
<1>2. new \in Seq(Names) /\ new # <<>> /\ IsVolume(v) /\ Moving(v, new)
  BY <1>1, InReparent
<1>3. /\ s \in Inos /\ v.entry[s][".."] = old /\ old # to /\ to \in Inos /\ old \in Inos
  BY <1>1 DEF Inv, Reparenting, volume
<1>4. w.entry = Written(v.entry, s, "..", to) /\ w.kind = v.kind /\ w.nlink = v.nlink
  BY <1>1 DEF Written, volume
<1>5. s = Namei(v, new) /\ to = Namei(v, Dirname(new))
  BY DEF Moved, NewParent
<1>6. op'.stage = "reparent +" /\ op'.new = new /\ op'.parent = old
  <2>1. "reparent +" \notin Ends
    BY DEF Ends
  <2> QED BY <2>1, <1>1, OnStage
<1>7. TreeBut(w, 0) /\ SameWays(v, w) /\ Rooted(w, old) /\ Rooted(w, to)
  <2> HIDE DEF v, w, new, s, to, old
  <2> QED BY <1>2, <1>3, <1>4, <1>5, Replaced
<1>8. NewParent' = to
  <2>1. NewParent' = Namei(w, Dirname(new))
    BY <1>6 DEF NewParent
  <2> HIDE DEF v, w, new, to
  <2> QED BY <2>1, <1>2, <1>5, <1>7, SameWay, DirnameType
<1>9. Short' = to
  BY <1>6, <1>8 DEF Short
<1>10. ASSUME ~Miscounts PROVE Exact(w, to)
  <2>1. Exact(v, old)
    BY <1>10, <1>1 DEF TreeInv, Short
  <2>2. v.entry \in EntryMaps /\ ".." \in Components /\ v.nlink \in [Inos -> Int]
    BY <1>2, NamesAre DEF IsVolume, EntryMaps
  <2> HIDE DEF v, w, s, to, old
  <2>3. ASSUME NEW i \in Inos, w.kind[i] # "free"
        PROVE  w.nlink[i] + Bit(i = to) = Count(w.entry, i)
    <3>1. v.nlink[i] + Bit(i = old) = Count(v.entry, i)
      BY <2>1, <2>3, <1>4 DEF Exact
    <3>2. Count(w.entry, i) = Count(v.entry, i) + Bit(i = to) - Bit(i = old)
      BY <2>2, <1>3, <1>4, EntryWritten
    <3>3. v.nlink[i] \in Int /\ Count(v.entry, i) \in Nat
      BY <2>2, EntsFinite
    <3> QED BY <3>1, <3>2, <3>3, <1>4 DEF Bit
  <2> QED BY <2>3 DEF Exact
<1>11. ~Miscounts' => Exact(w, Short')
  BY <1>9, <1>10 DEF Miscounts
<1>12. /\ op'.stage = "reparent +"
       /\ TreeBut(volume', 0) /\ Rooted(volume', op'.parent) /\ Rooted(volume', NewParent')
  BY <1>6, <1>7, <1>8
<1> QED BY <1>11, <1>12 DEF TreeInv, OneName

(* iput of what is in the tree does nothing. *)
LEMMA RootedStays ==
  ASSUME NEW v, Sound(v), NEW i \in Inos, Rooted(v, i)
  PROVE  Iput(v, i) = v
<1>1. ASSUME i # ROOT PROVE Count(v.entry, i) # 0
  <2>1. PICK c \in Inos, m \in Names : v.entry[c][m] = i
    BY <1>1 DEF Rooted, Named
  <2>2. m \in Components
    BY NamesAre
  <2> QED BY <2>1, <2>2, EntryCounts
<1> QED BY <1>1, IputKeeps

(* What v6fs_reparentdir counts changes no entry and frees nothing. *)
LEMMA CountedSame ==
  ASSUME Inv, TreeInv, CountsFit, ReparentCount
  PROVE  /\ volume'.kind = volume.kind /\ volume'.entry = volume.entry
         /\ volume'.nlink = [volume.nlink EXCEPT ![NewParent] = volume.nlink[NewParent] + 1]
         /\ TreeBut(volume', 0)
<1> DEFINE v == volume
           w == volume'
           to == NewParent
           u == Counted(v, to)
<1>1. /\ op.stage = "reparent +" /\ op' = Goto("done")
      /\ Become(Iput(Iput(u, to), op.parent))
  BY DEF ReparentCount, Counted
<1>2. /\ op.parent \in Inos /\ to \in Inos /\ Sound(u)
      /\ u.kind = kind /\ u.entry = entry /\ u.nlink = [nlink EXCEPT ![to] = nlink[to] + 1]
  BY ParentCounted
<1>3. TreeBut(v, 0) /\ Rooted(v, op.parent) /\ Rooted(v, to)
  BY <1>1 DEF TreeInv
<1>4. u.kind = v.kind /\ u.entry = v.entry
  BY <1>2 DEF volume
<1>5. v.nlink \in [Inos -> Int] /\ u.nlink = [v.nlink EXCEPT ![to] = v.nlink[to] + 1]
  BY <1>2, VolumeIs DEF IsVolume, volume
<1> HIDE DEF u
<1>6. Rooted(u, op.parent) /\ Rooted(u, to) /\ TreeBut(u, 0)
  <2> HIDE DEF v, to
  <2> QED BY <1>3, <1>4 DEF Rooted, TreeBut, RootOK, InTree, Named, OnlyName, Void
<1>7. Iput(u, to) = u /\ Iput(u, op.parent) = u
  <2> HIDE DEF to
  <2> QED BY <1>2, <1>6, RootedStays
<1>8. w.kind = u.kind /\ w.nlink = u.nlink /\ w.entry = u.entry
  BY <1>1, <1>7 DEF Become, volume
<1>9. TreeBut(w, 0)
  <2> HIDE DEF w
  <2> QED BY <1>6, <1>8 DEF TreeBut, RootOK, InTree, Named, OnlyName, Void
<1> QED BY <1>4, <1>5, <1>8, <1>9

LEMMA ReparentCountTree ==
  ASSUME Inv, TreeInv, CountsFit, ReparentCount, UNCHANGED <<kernel, full>>
  PROVE  TreeInv'
<1> DEFINE v == volume
           w == volume'
           to == NewParent
<1>1. op.stage = "reparent +" /\ op' = Goto("done")
  BY DEF ReparentCount
<1>2. (~Miscounts => Exact(v, to)) /\ v.nlink \in [Inos -> Int]
  BY <1>1, VolumeIs DEF TreeInv, Short, IsVolume
<1>3. /\ w.kind = v.kind /\ w.entry = v.entry /\ TreeBut(w, 0)
      /\ w.nlink = [v.nlink EXCEPT ![to] = v.nlink[to] + 1]
  BY CountedSame
<1>4. ASSUME ~Miscounts PROVE Exact(w, 0)
  <2>1. Exact(v, to)
    BY <1>2, <1>4
  <2> HIDE DEF v, w, to
  <2>2. ASSUME NEW i \in Inos, w.kind[i] # "free"
        PROVE  w.nlink[i] + Bit(i = 0) = Count(w.entry, i)
    <3>1. v.nlink[i] + Bit(i = to) = Count(v.entry, i)
      BY <2>1, <2>2, <1>3 DEF Exact
    <3>2. w.nlink[i] = v.nlink[i] + Bit(i = to) /\ Bit(i = 0) = 0
      BY <1>2, <1>3, NamesAre DEF Bit
    <3> QED BY <3>1, <3>2, <1>2, <1>3 DEF Bit
  <2> QED BY <2>2 DEF Exact
<1>5. op'.stage = "idle"
  BY <1>1, EndsAre, OnEnd
<1>6. Short' = 0
  BY <1>5 DEF Short
<1>7. ~Miscounts' => Exact(w, Short')
  BY <1>4, <1>6 DEF Miscounts
<1> QED BY <1>3, <1>5, <1>7 DEF TreeInv, OneName

-----------------------------------------------------------------------------
LEMMA InitTree ==
  ASSUME Init
  PROVE  TreeInv
<1>1. op.stage = "idle" /\ Short = 0
  BY DEF Init, Idle, Short
<1>2. \A d \in Inos, n \in Components :
        volume.entry[d][n] = IF d = ROOT /\ n \in {".", ".."} THEN ROOT ELSE 0
  BY DEF Init, volume
<1>3. \A i \in Inos : /\ volume.kind[i] = IF i = ROOT THEN "dir" ELSE "free"
                      /\ volume.nlink[i] = IF i = ROOT THEN 2 ELSE 0
  BY DEF Init, volume
<1>4. Count(volume.entry, ROOT) = 2
  BY RootLinks DEF volume
<1> DEFINE v == volume
<1> HIDE DEF v
<1>5. TreeBut(v, 0)
  <2>1. \A i \in Inos : v.kind[i] # "dir" => Void(v, i)
    BY <1>2, <1>3 DEF Void, v
  <2>2. RootOK(v)
    <3>1. v.entry[ROOT]["."] = ROOT /\ v.entry[ROOT][".."] = ROOT
      BY <1>2, NamesAre DEF v
    <3>2. ASSUME NEW c \in Inos, NEW m \in Names PROVE v.entry[c][m] # ROOT
      BY <1>2, NamesAre DEF v
    <3> QED BY <3>1, <3>2 DEF RootOK, Named
  <2> QED BY <2>1, <2>2, <1>3 DEF TreeBut, v
<1>6. Exact(v, 0)
  <2>1. ASSUME NEW i \in Inos, v.kind[i] # "free"
        PROVE  v.nlink[i] + Bit(i = 0) = Count(v.entry, i)
    <3>1. i = ROOT /\ i # 0
      BY <2>1, <1>3, NamesAre DEF v
    <3> QED BY <3>1, <1>3, <1>4 DEF Bit, v
  <2> QED BY <2>1 DEF Exact
<1> QED BY <1>1, <1>5, <1>6 DEF TreeInv, OneName, v

LEMMA NextTree ==
  ASSUME Inv, TreeInv, CountsFit, [Next]_vars
  PROVE  TreeInv'
<1>1. CASE UNCHANGED vars
  <2>1. volume' = volume /\ op' = op /\ kernel' = kernel /\ full' = full
    BY <1>1 DEF vars, volume
  <2>2. Short' = Short /\ NewParent' = NewParent
    BY <2>1 DEF Short, NewParent
  <2> QED BY <2>1, <2>2 DEF TreeInv, Miscounts
<1>2. CASE Call /\ UNCHANGED <<kernel, full>>
  <2>1. ASSUME NEW p \in Paths,
               Mknod(p) \/ UnlinkFile(p) \/ Mkdir(p) \/ Rmdir(p)
                 \/ \E q \in Paths : LinkFile(p, q) \/ Rename(p, q)
        PROVE  TreeInv'
    BY <2>1, <1>2, MknodTree, UnlinkFileTree, MkdirTree, RmdirTree, LinkFileTree, RenameTree
  <2>2. CASE MkdirDot \/ MkdirDotDot \/ UndoDotDot \/ UndoDot \/ Undo
    BY <2>2, <1>2, MkdirDotTree, MkdirDotDotTree, UndoDotDotTree, UndoDotTree, UndoTree
  <2>3. CASE RmdirDotDot \/ RmdirDot \/ RmdirDir
    BY <2>3, <1>2, RmdirDotDotTree, RmdirDotTree, RmdirDirTree
  <2>4. CASE RenameUnlinkNew \/ RenameLink \/ RenameUnlinkOld
    BY <2>4, <1>2, RenameUnlinkNewTree, RenameLinkTree, RenameUnlinkOldTree
  <2>5. CASE Reparent \/ ReparentDotDot \/ ReparentCount
    BY <2>5, <1>2, ReparentTree, ReparentDotDotTree, ReparentCountTree
  <2> QED BY <2>1, <2>2, <2>3, <2>4, <2>5, <1>2 DEF Call
<1> QED BY <1>1, <1>2 DEF Next

LEMMA TreeIsShaped ==
  ASSUME Inv, TreeInv
  PROVE  TreeShape
<1> DEFINE v == volume
<1>1. SUFFICES ASSUME op.stage = "idle"
      PROVE  /\ \A d \in Inos : Visible.kind[d] = "dir" =>
                  /\ entry[d]["."] = d
                  /\ IF d = ROOT THEN entry[d][".."] = ROOT
                     ELSE \E n \in Names : Tree \intersect (Inos \X Names \X {d})
                                             = {<<entry[d][".."], n, d>>}
             /\ NlinkIsEntries
  BY DEF TreeShape
<1>2. TreeBut(v, 0) /\ (~Miscounts => Exact(v, 0)) /\ IsVolume(v)
  BY <1>1, VolumeIs DEF TreeInv, Short
<1>3. v.entry = entry /\ v.kind = kind /\ v.nlink = nlink
  BY DEF volume
<1> HIDE DEF v
<1>4. ASSUME NEW t \in Tree
      PROVE  \E c \in Inos, m \in Names : t = <<c, m, entry[c][m]>> /\ entry[c][m] # 0
  BY DEF Tree
<1>5. ASSUME NEW c \in Inos, NEW m \in Names, entry[c][m] # 0
      PROVE  <<c, m, entry[c][m]>> \in Tree
  BY <1>5 DEF Tree
<1>6. ASSUME NEW d \in Inos, Visible.kind[d] = "dir"
      PROVE  /\ entry[d]["."] = d
             /\ d = ROOT => entry[d][".."] = ROOT
             /\ d # ROOT => \E n \in Names : Tree \intersect (Inos \X Names \X {d})
                                               = {<<entry[d][".."], n, d>>}
  <2>1. CASE d = ROOT
    BY <2>1, <1>2, <1>3 DEF TreeBut, RootOK
  <2>2. CASE d # ROOT
    <3>1. kind[d] = "dir" /\ \E t \in Tree : t[3] = d
      BY <2>2, <1>6 DEF Visible
    <3>2. Named(v, d)
      <4>1. PICK t \in Tree : t[3] = d
        BY <3>1
      <4>2. PICK c \in Inos, m \in Names : t = <<c, m, entry[c][m]>>
        BY <1>4
      <4> QED BY <4>1, <4>2, <1>3 DEF Named
    <3>3. d # 0
      BY NamesAre
    <3>4. InTree(v, d)
      BY <2>2, <3>1, <3>3, <1>2, <1>3 DEF TreeBut
    <3>5. entry[d]["."] = d /\ \E n \in Names : OnlyName(v, d, entry[d][".."], n)
      BY <3>2, <3>4, <1>3 DEF InTree
    <3>6. PICK n \in Names : OnlyName(v, d, entry[d][".."], n)
      BY <3>5
    <3> DEFINE e == entry[d][".."]
               T == Tree \intersect (Inos \X Names \X {d})
    <3>7. e \in Inos /\ entry[e][n] = d
      BY <3>6, <1>3 DEF OnlyName
    <3>8. \A c \in Inos, m \in Names : entry[c][m] = d => c = e /\ m = n
      BY <3>6, <1>3 DEF OnlyName
    <3> HIDE DEF e
    <3>9. <<e, n, d>> \in T
      BY <3>3, <3>7, <1>5
    <3>10. ASSUME NEW t \in T PROVE t = <<e, n, d>>
      <4>1. PICK c \in Inos, m \in Names : t = <<c, m, entry[c][m]>>
        BY <1>4
      <4>2. t[3] = d
        OBVIOUS
      <4> QED BY <4>1, <4>2, <3>8
    <3>11. T = {<<e, n, d>>}
      BY <3>9, <3>10
    <3> QED BY <2>2, <3>5, <3>11 DEF e
  <2> QED BY <2>1, <2>2
<1>7. NlinkIsEntries
  <2>1. ASSUME NEW i \in Inos, kind[i] # "free", ~(full /\ kernel = "v6")
        PROVE  nlink[i] = Cardinality(EntriesOf(i))
    <3>1. EntriesOf(i) = Ents(entry, i) /\ Cardinality(EntriesOf(i)) = Count(entry, i)
      BY DEF EntriesOf, Ents, Count
    <3>2. nlink[i] + Bit(i = 0) = Count(entry, i)
      BY <2>1, <1>2, <1>3 DEF Miscounts, Exact
    <3>3. Bit(i = 0) = 0 /\ nlink[i] \in Int
      BY <1>2, <1>3, NamesAre DEF Bit, IsVolume
    <3> QED BY <3>1, <3>2, <3>3
  <2> QED BY <2>1 DEF NlinkIsEntries
<1> QED BY <1>6, <1>7

(* Whatever calls came before and whatever failed in them for want of a    *)
(* block, between two calls the directories are a tree, with every "." and *)
(* ".." in it right, and the links of an inode are its entries, as long as *)
(* the counts that no code checks stay within their type.                  *)
THEOREM TreeIsKept == Spec /\ []CountsFit => []TreeShape
<1>1. Init => Inv /\ TreeInv
  BY InitInv, InitTree
<1>2. Inv /\ TreeInv /\ CountsFit /\ [Next]_vars => Inv' /\ TreeInv'
  BY NextInv, NextTree
<1>3. Inv /\ TreeInv => TreeShape
  BY TreeIsShaped
<1> QED BY <1>1, <1>2, <1>3, PTL DEF Spec

-----------------------------------------------------------------------------
(* The calls as those of a FileTree.  What is seen of a volume:            *)

NamesIn(v) == {t \in Inos \X Names \X Inos : v.entry[t[1]][t[2]] = t[3]}

KindsIn(v) == [i \in Inos |-> IF Rooted(v, i) THEN v.kind[i] ELSE "free"]

Seen(v) == [kind |-> KindsIn(v), tree |-> NamesIn(v)]

(* and the steps of a FileTree, from what is seen in b to what is in a.    *)
Untaken(b, d, n) == \A t \in b.tree : ~(t[1] = d /\ t[2] = n)

Deserted(b, i) == \A t \in b.tree : t[1] # i

(* i is not above d: some set of directories that holds d and all above    *)
(* them does without it.                                                   *)
Aloof(b, d, i) ==
  \E S \in SUBSET Inos : d \in S /\ i \notin S /\ \A t \in b.tree : t[3] \in S => t[1] \in S

Lost(b, t) ==
  IF \E u \in b.tree \ {t} : u[3] = t[3] THEN b.kind ELSE [b.kind EXCEPT ![t[3]] = "free"]

Makes(b, a, t, k) ==
  /\ t[3] \in Inos /\ b.kind[t[1]] = "dir" /\ Untaken(b, t[1], t[2]) /\ b.kind[t[3]] = "free"
  /\ a.tree = b.tree \union {t} /\ a.kind = [b.kind EXCEPT ![t[3]] = k]

Links(b, a, t) ==
  /\ b.kind[t[1]] = "dir" /\ Untaken(b, t[1], t[2]) /\ b.kind[t[3]] = "file"
  /\ a.tree = b.tree \union {t} /\ a.kind = b.kind

Drops(b, a, t) ==
  /\ t \in b.tree /\ (b.kind[t[3]] = "dir" => Deserted(b, t[3]))
  /\ a.tree = b.tree \ {t} /\ a.kind = Lost(b, t)

(* What has the name <<d, n>> gives way to i, if anything has it. *)
Clears(b, a, d, n, i) ==
  \/ a = b
  \/ \E u \in b.tree : /\ u[1] = d /\ u[2] = n /\ u[3] # i /\ b.kind[u[3]] = b.kind[i]
                       /\ Drops(b, a, u)

(* t gets the name that x has, *)
Moves(b, a, t, x) ==
  /\ t \in b.tree \ a.tree /\ x \in a.tree \ b.tree /\ x[3] = t[3]
  /\ b.kind[x[1]] = "dir" /\ Aloof(b, x[1], t[3])
  /\ \E c : /\ Clears(b, c, x[1], x[2], t[3]) /\ Untaken(c, x[1], x[2])
            /\ a.tree = (c.tree \ {t}) \union {x} /\ a.kind = c.kind

Renames(b, a) == \E t \in b.tree, x \in a.tree : Moves(b, a, t, x)

-----------------------------------------------------------------------------
(* How far what is seen of the volume is from what was, when the call      *)
(* began: v6fs_mkdir has one name more,                                    *)
NameAt(v, p) == <<Pdir(v, p), Last(p), Namei(v, p)>>

Without(v, t) == [kind |-> KindsIn(v), tree |-> NamesIn(v) \ {t}]

Ahead(v, b, new) ==
  b = [kind |-> [KindsIn(v) EXCEPT ![Namei(v, new)] = "free"],
       tree |-> NamesIn(v) \ {NameAt(v, new)}]

(* v6fs_rename has removed what had the new name,                          *)
Aside(v, b, old, new) == Pdir(v, new) # 0 => Aloof(b, Pdir(v, new), Namei(v, old))

Cleared(v, a, b, old, new) == Clears(b, a, Pdir(v, new), Last(new), Namei(v, old))

(* and in v6fs_reparentdir all is done that can be seen.                   *)
Mkdirs == {"mkdir .", "mkdir ..", "undo ..", "undo .", "undo"}
Rmdirs == {"rmdir ..", "rmdir .", "rmdir"}
Reparents == {"reparent", "reparent ..", "reparent +"}

Behind ==
  /\ op.stage \in Mkdirs => Ahead(volume, op.before, op.new)
  /\ op.stage \in Rmdirs \union {"unlink new"} =>
       op.before = Seen(volume) /\ (op.stage \in Rmdirs <=> op.isdir)
  /\ op.stage \in Rmdirs \union {"unlink new", "link", "unlink old"} /\ op.old # <<>> =>
       Aside(volume, op.before, op.old, op.new)
  /\ op.stage = "link" => Cleared(volume, Seen(volume), op.before, op.old, op.new)
  /\ op.stage = "unlink old" =>
       Cleared(volume, Without(volume, NameAt(volume, op.new)), op.before, op.old, op.new)
  /\ op.stage \in Reparents => Renames(op.before, Seen(volume))

-----------------------------------------------------------------------------
(* These are the steps of FileTree.                                        *)
InTreeStep == FT!Next \/ UNCHANGED FT!vars

Triples == Inos \X Names \X Inos

LEMMA TripleIs ==
  ASSUME NEW t \in Triples
  PROVE  t = <<t[1], t[2], t[3]>> /\ t[1] \in Inos /\ t[2] \in Names /\ t[3] \in Inos
  BY DEF Triples

LEMMA MakesStep ==
  ASSUME NEW t \in Triples, NEW k \in {"file", "dir"}, Makes(Outside, Outside', t, k)
  PROVE  InTreeStep
<1>1. t \notin Outside.tree /\ t \in Outside'.tree
  BY DEF Makes, Untaken
<1>2. FT!Unused(t[1], t[2])
  BY DEF Makes, Untaken, FT!Unused
<1>3. FT!Make(t[1], t[2], t[3], k)
  BY <1>2, TripleIs DEF Makes, FT!Make
<1> QED BY <1>1, <1>3 DEF InTreeStep, FT!Next

LEMMA LinksStep ==
  ASSUME NEW t \in Triples, Links(Outside, Outside', t)
  PROVE  InTreeStep
<1>1. t \notin Outside.tree /\ t \in Outside'.tree
  BY DEF Links, Untaken
<1>2. FT!Unused(t[1], t[2])
  BY DEF Links, Untaken, FT!Unused
<1>3. FT!Link(t[1], t[2], t[3])
  BY <1>2, TripleIs DEF Links, FT!Link
<1> QED BY <1>1, <1>3 DEF InTreeStep, FT!Next

LEMMA RemovesStep ==
  ASSUME NEW t, Drops(Outside, Outside', t)
  PROVE  InTreeStep
<1>1. t \in Outside.tree /\ t \notin Outside'.tree
  BY DEF Drops
<1>2. FT!Remove(t)
  BY DEF Drops, Deserted, Lost, FT!Remove, FT!Empty, FT!Without
<1> QED BY <1>1, <1>2 DEF InTreeStep, FT!Next

LEMMA AloofIs ==
  ASSUME NEW d \in Inos, NEW i, Aloof(Outside, d, i)
  PROVE  i \notin FT!Above(d)
  BY DEF Aloof, FT!Above

LEMMA MovesStep ==
  ASSUME NEW t, NEW x \in Triples, Moves(Outside, Outside', t, x)
  PROVE  InTreeStep
<1>1. /\ t \in Outside.tree \ Outside'.tree /\ x \in Outside'.tree \ Outside.tree /\ x[3] = t[3]
      /\ Outside.kind[x[1]] = "dir" /\ Aloof(Outside, x[1], t[3])
      /\ x = <<x[1], x[2], t[3]>> /\ x[1] \in Inos
  BY TripleIs DEF Moves
<1>2. PICK c : /\ Clears(Outside, c, x[1], x[2], t[3]) /\ Untaken(c, x[1], x[2])
               /\ Outside'.tree = (c.tree \ {t}) \union {x} /\ Outside'.kind = c.kind
  BY DEF Moves
<1>3. t[3] \notin FT!Above(x[1])
  BY <1>1, AloofIs
<1>4. FT!Rename(t, x[1], x[2])
  <2>1. CASE c = Outside
    <3>1. FT!Unused(x[1], x[2])
      BY <2>1, <1>1, <1>2 DEF Untaken, FT!Unused
    <3> QED BY <2>1, <3>1, <1>1, <1>2, <1>3 DEF FT!Rename
  <2>2. ASSUME NEW u \in Outside.tree, u[1] = x[1], u[2] = x[2], u[3] # t[3],
               Outside.kind[u[3]] = Outside.kind[t[3]], Drops(Outside, c, u)
        PROVE  FT!Rename(t, x[1], x[2])
    <3>1. Outside.kind[u[3]] = "dir" => FT!Empty(u[3])
      BY <2>2 DEF Drops, Deserted, FT!Empty
    <3>2. Outside'.tree = (Outside.tree \ {t, u}) \union {<<x[1], x[2], t[3]>>}
      BY <2>2, <1>1, <1>2 DEF Drops
    <3>3. Outside'.kind = FT!Without(u)
      BY <2>2, <1>2 DEF Drops, Lost, FT!Without
    <3> QED BY <2>2, <3>1, <3>2, <3>3, <1>1, <1>3 DEF FT!Rename
  <2> QED BY <2>1, <2>2, <1>2 DEF Clears
<1> QED BY <1>1, <1>4 DEF InTreeStep, FT!Next

-----------------------------------------------------------------------------
(* What is seen of a volume as one entry of it changes                     *)
LEMMA NamesInAre ==
  ASSUME NEW v, IsVolume(v)
  PROVE  /\ NamesIn(v) \subseteq Triples
         /\ \A d \in Inos, n \in Names : v.entry[d][n] # 0 => <<d, n, v.entry[d][n]>> \in NamesIn(v)
         /\ \A t \in NamesIn(v) : v.entry[t[1]][t[2]] = t[3]
<1>1. ASSUME NEW d \in Inos, NEW n \in Names, v.entry[d][n] # 0
      PROVE  <<d, n, v.entry[d][n]>> \in NamesIn(v)
  <2>1. v.entry[d][n] \in Inos
    BY <1>1, NamesAre DEF IsVolume
  <2> QED BY <2>1 DEF NamesIn
<1> QED BY <1>1 DEF NamesIn, Triples

LEMMA NamedIs ==
  ASSUME NEW v, IsVolume(v), NEW i \in Inos
  PROVE  Named(v, i) <=> \E t \in NamesIn(v) : t[3] = i
<1>1. ASSUME NEW d \in Inos, NEW n \in Names, v.entry[d][n] = i
      PROVE  \E t \in NamesIn(v) : t[3] = i
  <2>1. <<d, n, i>> \in NamesIn(v)
    BY <1>1, NamesInAre, NamesAre
  <2> QED BY <2>1
<1>2. ASSUME NEW t \in NamesIn(v), t[3] = i PROVE Named(v, i)
  BY <1>2, NamesInAre DEF Named, Triples
<1> QED BY <1>1, <1>2 DEF Named

LEMMA KindsInAre ==
  ASSUME NEW v
  PROVE  /\ DOMAIN KindsIn(v) = Inos
         /\ \A i \in Inos : KindsIn(v)[i] = IF Rooted(v, i) THEN v.kind[i] ELSE "free"
         /\ KindsIn(v) = [i \in Inos |-> KindsIn(v)[i]]
  BY DEF KindsIn

LEMMA SeenFields ==
  ASSUME NEW v
  PROVE  Seen(v).kind = KindsIn(v) /\ Seen(v).tree = NamesIn(v)
  BY DEF Seen

LEMMA VisibleIs ==
  ASSUME IsVolume(volume)
  PROVE  Visible = Seen(volume)
<1>1. Tree = NamesIn(volume)
  <2>1. ASSUME NEW t \in Tree PROVE t \in NamesIn(volume)
    <3>1. PICK d \in Inos, n \in Names : t = <<d, n, entry[d][n]>> /\ entry[d][n] # 0
      BY DEF Tree
    <3> QED BY <3>1, NamesInAre DEF volume
  <2>2. ASSUME NEW t \in NamesIn(volume) PROVE t \in Tree
    <3>1. /\ t[1] \in Inos /\ t[2] \in Names /\ t[3] \in Inos /\ t = <<t[1], t[2], t[3]>>
          /\ entry[t[1]][t[2]] = t[3]
      BY NamesInAre, TripleIs DEF volume
    <3> QED BY <3>1, NamesAre DEF Tree
  <2> QED BY <2>1, <2>2
<1>2. \A i \in Inos : Rooted(volume, i) <=> i = ROOT \/ \E t \in Tree : t[3] = i
  BY <1>1, NamedIs DEF Rooted
<1>3. Visible.kind = KindsIn(volume)
  BY <1>2 DEF Visible, KindsIn, volume
<1> QED BY <1>1, <1>3 DEF Visible, Seen

LEMMA SeenSame ==
  ASSUME NEW v, NEW w, SameWays(v, w)
  PROVE  Seen(w) = Seen(v)
<1>1. NamesIn(w) = NamesIn(v)
  BY DEF NamesIn, SameWays
<1>2. \A i \in Inos : Rooted(w, i) <=> Rooted(v, i)
  BY DEF Rooted, Named, SameWays
<1>3. KindsIn(w) = KindsIn(v)
  BY <1>2 DEF KindsIn, SameWays
<1> QED BY <1>1, <1>3 DEF Seen

(* An entry made *)
LEMMA SeenAdds ==
  ASSUME NEW v, IsVolume(v), NEW w, IsVolume(w), NEW d \in Inos, NEW n \in Names, NEW i \in Inos,
         v.entry[d][n] = 0, w.entry = Written(v.entry, d, n, i), SameElsewhere(v, w, i)
  PROVE  /\ NamesIn(w) = NamesIn(v) \union {<<d, n, i>>}
         /\ KindsIn(w) = [KindsIn(v) EXCEPT ![i] = w.kind[i]]
         /\ Untaken(Seen(v), d, n) /\ <<d, n, i>> \notin NamesIn(v)
<1>1. \A c \in Inos, m \in Components :
        w.entry[c][m] = IF c = d /\ m = n THEN i ELSE v.entry[c][m]
  <2>1. v.entry \in EntryMaps /\ n \in Components
    BY NamesAre DEF IsVolume, EntryMaps
  <2> QED BY <2>1, WrittenAt
<1>2. ASSUME NEW t \in NamesIn(v) PROVE ~(t[1] = d /\ t[2] = n)
  BY NamesInAre, NamesAre DEF Triples
<1>3. NamesIn(w) = NamesIn(v) \union {<<d, n, i>>}
  <2>1. ASSUME NEW t \in NamesIn(w) PROVE t \in NamesIn(v) \union {<<d, n, i>>}
    <3>1. t = <<t[1], t[2], t[3]>> /\ t[1] \in Inos /\ t[2] \in Names /\ t[3] \in Inos
          /\ w.entry[t[1]][t[2]] = t[3] /\ t[2] \in Components
      BY NamesInAre, TripleIs, NamesAre
    <3>2. CASE t[1] = d /\ t[2] = n
      BY <3>1, <3>2, <1>1
    <3>3. CASE ~(t[1] = d /\ t[2] = n)
      <4>1. v.entry[t[1]][t[2]] = t[3] /\ t[3] # 0
        BY <3>1, <3>3, <1>1, NamesAre
      <4> QED BY <3>1, <4>1, NamesInAre
    <3> QED BY <3>2, <3>3
  <2>2. ASSUME NEW t \in NamesIn(v) PROVE t \in NamesIn(w)
    <3>1. t = <<t[1], t[2], t[3]>> /\ t[1] \in Inos /\ t[2] \in Names /\ t[3] \in Inos
          /\ v.entry[t[1]][t[2]] = t[3] /\ t[2] \in Components
      BY NamesInAre, TripleIs, NamesAre
    <3>2. w.entry[t[1]][t[2]] = t[3] /\ t[3] # 0
      BY <3>1, <1>1, <1>2, NamesAre
    <3> QED BY <3>1, <3>2, NamesInAre
  <2>3. <<d, n, i>> \in NamesIn(w)
    <3>1. w.entry[d][n] = i
      BY <1>1, NamesAre
    <3> QED BY <3>1, NamesInAre, NamesAre
  <2> QED BY <2>1, <2>2, <2>3
<1>4. KindsIn(w) = [KindsIn(v) EXCEPT ![i] = w.kind[i]]
  <2>1. ASSUME NEW j \in Inos
        PROVE  KindsIn(w)[j] = IF j = i THEN w.kind[i] ELSE KindsIn(v)[j]
    <3>1. Named(w, j) <=> Named(v, j) \/ j = i
      <4>1. (\E t \in NamesIn(w) : t[3] = j) <=> (\E t \in NamesIn(v) : t[3] = j) \/ j = i
        <5>1. <<d, n, i>>[3] = i
          OBVIOUS
        <5> QED BY <5>1, <1>3, Zenon
      <4> QED BY <4>1, NamedIs
    <3>2. j # i => w.kind[j] = v.kind[j]
      BY DEF SameElsewhere
    <3> QED BY <3>1, <3>2, KindsInAre DEF Rooted
  <2> QED BY <2>1, KindsInAre
<1> QED BY <1>2, <1>3, <1>4 DEF Untaken, Seen

(* An entry removed: what still has a name is still in use. *)
InUse(w) == \A i \in Inos : Named(w, i) => w.kind[i] # "free"

LEMMA SeenDrops ==
  ASSUME NEW v, IsVolume(v), NEW w, IsVolume(w), InUse(w), NEW d \in Inos, NEW n \in Names,
         NEW i \in Inos \ {ROOT}, v.entry[d][n] = i, w.entry = Written(v.entry, d, n, 0),
         SameOrFreed(v, w, i)
  PROVE  /\ NamesIn(w) = NamesIn(v) \ {<<d, n, i>>} /\ <<d, n, i>> \in NamesIn(v)
         /\ KindsIn(w) = Lost(Seen(v), <<d, n, i>>)
<1> DEFINE x == <<d, n, i>>
<1>1. \A c \in Inos, m \in Components :
        w.entry[c][m] = IF c = d /\ m = n THEN 0 ELSE v.entry[c][m]
  <2>1. v.entry \in EntryMaps /\ n \in Components
    BY NamesAre DEF IsVolume, EntryMaps
  <2> QED BY <2>1, WrittenAt
<1>2. x \in NamesIn(v)
  BY NamesInAre, NamesAre
<1>3. NamesIn(w) = NamesIn(v) \ {x}
  <2>1. ASSUME NEW t \in NamesIn(w) PROVE t \in NamesIn(v) \ {x}
    <3>1. t = <<t[1], t[2], t[3]>> /\ t[1] \in Inos /\ t[2] \in Names /\ t[3] \in Inos
          /\ w.entry[t[1]][t[2]] = t[3] /\ t[2] \in Components /\ t[3] # 0
      BY NamesInAre, TripleIs, NamesAre
    <3>2. ~(t[1] = d /\ t[2] = n) /\ v.entry[t[1]][t[2]] = t[3]
      BY <3>1, <1>1
    <3> QED BY <3>1, <3>2, NamesInAre
  <2>2. ASSUME NEW t \in NamesIn(v), t # x PROVE t \in NamesIn(w)
    <3>1. t = <<t[1], t[2], t[3]>> /\ t[1] \in Inos /\ t[2] \in Names /\ t[3] \in Inos
          /\ v.entry[t[1]][t[2]] = t[3] /\ t[2] \in Components /\ t[3] # 0
      BY NamesInAre, TripleIs, NamesAre
    <3>2. ~(t[1] = d /\ t[2] = n)
      BY <3>1, <2>2
    <3>3. w.entry[t[1]][t[2]] = t[3]
      BY <3>1, <3>2, <1>1
    <3> QED BY <3>1, <3>3, NamesInAre
  <2> QED BY <2>1, <2>2
<1>4. (\E u \in NamesIn(v) \ {x} : u[3] = x[3]) <=> Named(w, i)
  BY <1>3, NamedIs
<1>5. ASSUME NEW j \in Inos, j # i PROVE KindsIn(w)[j] = KindsIn(v)[j]
  <2>1. Named(w, j) <=> Named(v, j)
    BY <1>3, <1>5, NamedIs
  <2>2. w.kind[j] = v.kind[j]
    BY <1>5 DEF SameOrFreed, IsVolume
  <2> QED BY <2>1, <2>2, KindsInAre DEF Rooted
<1>6. KindsIn(w)[i] = IF Named(w, i) THEN KindsIn(v)[i] ELSE "free"
  <2>1. Named(v, i)
    BY <1>2, NamedIs
  <2>2. Named(w, i) => w.kind[i] = v.kind[i]
    BY DEF SameOrFreed, InUse, IsVolume
  <2> QED BY <2>1, <2>2, KindsInAre DEF Rooted
<1>7. CASE Named(w, i)
  <2>1. KindsIn(w) = KindsIn(v)
    BY <1>5, <1>6, <1>7, KindsInAre
  <2> QED BY <2>1, <1>2, <1>3, <1>4, <1>7 DEF Lost, Seen
<1>8. CASE ~Named(w, i)
  <2>1. KindsIn(w) = [KindsIn(v) EXCEPT ![i] = "free"]
    <3>1. \A j \in Inos : KindsIn(w)[j] = IF j = i THEN "free" ELSE KindsIn(v)[j]
      BY <1>5, <1>6, <1>8
    <3> QED BY <3>1, KindsInAre
  <2> QED BY <2>1, <1>2, <1>3, <1>4, <1>8 DEF Lost, Seen
<1> QED BY <1>7, <1>8

LEMMA CoveredInUse ==
  ASSUME NEW v, NEW x, Covered(v, x)
  PROVE  InUse(v)
<1>1. ASSUME NEW i \in Inos, Named(v, i) PROVE v.kind[i] # "free"
  <2>1. PICK d \in Inos, n \in Names : v.entry[d][n] = i
    BY <1>1 DEF Named
  <2>2. Count(v.entry, i) # 0
    BY <2>1, NamesAre, EntryCounts
  <2> QED BY <2>2 DEF Covered
<1> QED BY <1>1 DEF InUse

LEMMA NextVolume ==
  ASSUME Inv'
  PROVE  IsVolume(volume') /\ InUse(volume')
  BY CoveredInUse DEF Inv

(* A name made for what is in the tree *)
LEMMA SeenLinked ==
  ASSUME NEW v, IsVolume(v), NEW w, IsVolume(w), NEW p \in Seq(Names), p # <<>>, NEW i,
         Linked(v, w, i, Pdir(v, p), Last(p)), Rooted(v, i)
  PROVE  /\ <<Pdir(v, p), Last(p), i>> \in Triples
         /\ NamesIn(w) = NamesIn(v) \union {<<Pdir(v, p), Last(p), i>>}
         /\ KindsIn(w) = KindsIn(v) /\ KindsIn(v)[i] = v.kind[i]
         /\ KindsIn(v)[Pdir(v, p)] = "dir" /\ Untaken(Seen(v), Pdir(v, p), Last(p))
         /\ <<Pdir(v, p), Last(p), i>> \notin NamesIn(v)
<1> DEFINE d == Pdir(v, p)
           n == Last(p)
<1>1. /\ i \in Inos /\ d \in Inos /\ v.entry[d][n] = 0
      /\ w.entry = Written(v.entry, d, n, i) /\ w.kind = v.kind
  BY DEF Linked
<1>2. DirsStay(v, w)
  BY <1>1 DEF DirsStay
<1>3. n \in Names /\ v.kind[d] = "dir" /\ Rooted(v, d)
  BY <1>1, <1>2, NamesAre, NameMade
<1>4. SameElsewhere(v, w, i)
  BY <1>1 DEF SameElsewhere
<1> HIDE DEF d, n
<1>5. /\ NamesIn(w) = NamesIn(v) \union {<<d, n, i>>} /\ <<d, n, i>> \notin NamesIn(v)
      /\ KindsIn(w) = [KindsIn(v) EXCEPT ![i] = w.kind[i]] /\ Untaken(Seen(v), d, n)
  BY <1>1, <1>3, <1>4, SeenAdds
<1>6. KindsIn(v)[i] = v.kind[i] /\ KindsIn(v)[d] = "dir"
  BY <1>1, <1>3, KindsInAre
<1>7. KindsIn(w) = KindsIn(v)
  BY <1>1, <1>5, <1>6, KindsInAre
<1>8. <<d, n, i>> \in Triples
  BY <1>1, <1>3 DEF Triples
<1> QED BY <1>5, <1>6, <1>7, <1>8 DEF d, n

(* The name removed of what has none in it *)
LEMMA UnlinkKinds ==
  ASSUME NEW v, IsVolume(v), NEW p \in Seq(Components), p # <<>>
  PROVE  SameOrFreed(v, Unlink(v, p).v, Namei(v, p))
<1> DEFINE d == Pdir(v, p)
           i == IF d = 0 THEN 0 ELSE v.entry[d][Last(p)]
           u == [v EXCEPT !.entry[d][Last(p)] = 0, !.nlink[i] = @ - 1]
<1>1. Namei(v, p) = i
  BY NamedByEntry
<1>2. CASE i = 0
  BY <1>2 DEF Unlink, Failure, SameOrFreed
<1>3. CASE i # 0
  <2>1. Unlink(v, p).v = Iput(u, i)
    BY <1>3 DEF Unlink, Success
  <2>2. u.kind = v.kind /\ DOMAIN u = {"kind", "nlink", "entry", "blocks"}
    BY DEF IsVolume
  <2> HIDE DEF u, i
  <2>3. Iput(u, i).kind = u.kind \/ Iput(u, i).kind = [u.kind EXCEPT ![i] = "free"]
    BY <2>2 DEF Iput
  <2> QED BY <1>1, <2>1, <2>2, <2>3 DEF SameOrFreed
<1> QED BY <1>2, <1>3

LEMMA DoUnlinkKinds ==
  ASSUME IsVolume(volume), NEW p \in Seq(Components), p # <<>>, NEW then, NEW else,
         Do(Unlink(volume, p), then, else)
  PROVE  SameOrFreed(volume, volume', Namei(volume, p))
<1>1. volume'.kind = Unlink(volume, p).v.kind
  BY DEF Do, Become, volume
<1> QED BY <1>1, UnlinkKinds DEF SameOrFreed

LEMMA SeenRemoved ==
  ASSUME NEW v, IsVolume(v), NEW w, IsVolume(w), InUse(w), NEW p \in Seq(Names), p # <<>>,
         Namei(v, p) \notin {0, ROOT}, w.entry = Written(v.entry, Pdir(v, p), Last(p), 0),
         SameOrFreed(v, w, Namei(v, p)), Barren(v, Namei(v, p))
  PROVE  Drops(Seen(v), Seen(w), NameAt(v, p))
<1> DEFINE d == Pdir(v, p)
           n == Last(p)
           i == Namei(v, p)
<1>1. d \in Inos /\ n \in Names /\ v.entry[d][n] = i /\ i \in Inos \ {ROOT}
  BY NameOf
<1>2. NameAt(v, p) = <<d, n, i>>
  BY DEF NameAt
<1>3. /\ w.entry = Written(v.entry, d, n, 0) /\ SameOrFreed(v, w, i) /\ Barren(v, i)
  OBVIOUS
<1> HIDE DEF d, n, i
<1>4. /\ NamesIn(w) = NamesIn(v) \ {<<d, n, i>>} /\ <<d, n, i>> \in NamesIn(v)
      /\ KindsIn(w) = Lost(Seen(v), <<d, n, i>>)
  BY <1>1, <1>3, SeenDrops
<1>5. ASSUME KindsIn(v)[i] = "dir" PROVE Deserted(Seen(v), i)
  <2>1. v.kind[i] = "dir"
    BY <1>1, <1>5, KindsInAre
  <2>2. ASSUME NEW t \in NamesIn(v), t[1] = i PROVE FALSE
    <3>1. t[2] \in Names /\ t[3] \in Inos /\ v.entry[i][t[2]] = t[3]
      BY <2>2, NamesInAre, TripleIs
    <3>2. Step(v, i, t[2]) = t[3]
      BY <2>1, <3>1, <1>1, NamesAre DEF Step
    <3> QED BY <3>1, <3>2, <1>3, NamesAre DEF Barren
  <2> QED BY <2>2 DEF Deserted, Seen
<1> QED BY <1>2, <1>4, <1>5, SeenFields DEF Drops

(* What is not on the way to a directory is not above it. *)
LEMMA AvoidsAloof ==
  ASSUME NEW v, IsVolume(v), TreeBut(v, 0), NEW p \in Seq(Names), Namei(v, p) # 0,
         v.kind[Namei(v, p)] = "dir", NEW i, Avoids(v, p, i)
  PROVE  Aloof(Seen(v), Namei(v, p), i)
<1>1. PICK at : Walks(v, p, Len(p), at) /\ \A k \in 0 .. Len(p) : at[k] # i
  BY DEF Avoids
<1>2. /\ Len(p) \in Nat /\ \A k \in 1 .. Len(p) : p[k] \in Names
      /\ \A k \in 0 .. Len(p) : at[k] \in Inos \union {0}
  BY <1>1, NamesWalk
<1>3. Namei(v, p) = at[Len(p)]
  BY <1>1, <1>2, WalkIs
<1>4. \A k \in 0 .. Len(p) : at[k] # 0
  BY <1>1, <1>2, <1>3, WalkFinds
<1>5. at[0] = ROOT /\ \A k \in 1 .. Len(p) : at[k] = Step(v, at[k - 1], p[k])
  BY <1>1 DEF Walks
<1>6. ASSUME NEW k \in 0 .. Len(p) PROVE v.kind[at[k]] = "dir"
  <2>1. CASE k = Len(p)
    BY <2>1, <1>3
  <2>2. CASE k # Len(p)
    <3>1. k + 1 \in 1 .. Len(p) /\ k + 1 \in 0 .. Len(p) /\ (k + 1) - 1 = k
      BY <2>2, <1>2
    <3>2. Step(v, at[k], p[k + 1]) # 0
      BY <3>1, <1>4, <1>5
    <3> QED BY <3>2 DEF Step
  <2> QED BY <2>1, <2>2
<1> DEFINE S == {at[k] : k \in 0 .. Len(p)}
<1>7. ASSUME NEW t \in NamesIn(v), t[3] \in S PROVE t[1] \in S
  <2>1. PICK k \in 0 .. Len(p) : t[3] = at[k]
    BY <1>7
  <2>2. t[1] \in Inos /\ t[2] \in Names /\ v.entry[t[1]][t[2]] = at[k] /\ at[k] \in Inos
    BY <2>1, NamesInAre, TripleIs
  <2>3. Named(v, at[k])
    BY <2>2 DEF Named
  <2>4. at[k] # ROOT /\ InTree(v, at[k])
    BY <2>2, <2>3, <1>6, NamesAre DEF TreeBut, RootOK
  <2>5. PICK e, m : OnlyName(v, at[k], e, m)
    BY <2>3, <2>4 DEF InTree
  <2>6. k # 0
    BY <2>4, <1>5
  <2>7. k \in 1 .. Len(p) /\ k - 1 \in 0 .. Len(p)
    BY <2>6, <1>2
  <2>8. at[k - 1] \in Inos /\ p[k] \in Names /\ v.entry[at[k - 1]][p[k]] = at[k]
    BY <2>7, <1>2, <1>4, <1>5 DEF Step
  <2>9. t[1] = e /\ at[k - 1] = e
    BY <2>2, <2>5, <2>8 DEF OnlyName
  <2> QED BY <2>7, <2>9
<1>8. S \in SUBSET Inos /\ i \notin S /\ at[Len(p)] \in S
  BY <1>1, <1>2, <1>4
<1> HIDE DEF S
<1> QED BY <1>3, <1>7, <1>8, SeenFields DEF Aloof

-----------------------------------------------------------------------------
(* Every step of a call is a step of the FileTree or none.                 *)
Shown == Behind' /\ InTreeStep

LEMMA VisibleSeen == IsVolume(volume) => Visible = Seen(volume)
  BY VisibleIs

LEMMA VisibleNext == (IsVolume(volume) => Visible = Seen(volume))'
  BY VisibleSeen, PTL

LEMMA AtRest ==
  ASSUME Inv', op'.stage = "idle"
  PROVE  Behind' /\ Outside' = Seen(volume')
<1>1. Behind'
  BY DEF Behind, Mkdirs, Rmdirs, Reparents
<1>2. Visible' = Seen(volume')
  BY NextVolume, VisibleNext
<1> QED BY <1>1, <1>2 DEF Outside

LEMMA Stutters ==
  ASSUME Outside' = Outside
  PROVE  InTreeStep
  BY DEF InTreeStep, FT!vars

(* In the middle of a call nothing of it is seen. *)
LEMMA Progress ==
  ASSUME Inv, op.stage # "idle", NEW s, s \notin Ends, s # "idle", op' = Goto(s)
  PROVE  /\ op'.stage = s /\ op'.new = op.new /\ op'.old = op.old
         /\ op'.isdir = op.isdir /\ op'.before = op.before
         /\ Outside = op.before /\ InTreeStep
<1>1. /\ op'.stage = s /\ op'.new = op.new /\ op'.old = op.old
      /\ op'.isdir = op.isdir /\ op'.parent = op.parent
  BY OnStage
<1>2. op' = [op EXCEPT !.stage = s]
  BY DEF Goto, Ends
<1>3. op'.before = op.before
  BY <1>2 DEF Inv, InCall
<1>4. Outside = op.before /\ Outside' = op'.before
  BY <1>1 DEF Outside
<1> QED BY <1>1, <1>3, <1>4, Stutters

(* mknod and mkdir: what they make *)
Made(v, w, p, i, k) ==
  /\ i \in Inos /\ v.kind[i] = "free" /\ Pdir(v, p) \in Inos /\ v.entry[Pdir(v, p)][Last(p)] = 0
  /\ w.entry = Written(v.entry, Pdir(v, p), Last(p), i) /\ w.kind = [v.kind EXCEPT ![i] = k]

LEMMA SeenMade ==
  ASSUME NEW v, IsVolume(v), NEW w, IsVolume(w), v.kind[ROOT] = "dir",
         NEW p \in Seq(Names), p # <<>>, NEW i, NEW k \in {"file", "dir"}, Made(v, w, p, i, k)
  PROVE  /\ <<Pdir(v, p), Last(p), i>> \in Triples
         /\ Makes(Seen(v), Seen(w), <<Pdir(v, p), Last(p), i>>, k)
         /\ Ahead(w, Seen(v), p)
<1> DEFINE d == Pdir(v, p)
           n == Last(p)
           t == <<d, n, i>>
<1>1. /\ i \in Inos \ {ROOT} /\ v.kind[i] = "free" /\ d \in Inos /\ v.entry[d][n] = 0
      /\ w.entry = Written(v.entry, d, n, i) /\ w.kind = [v.kind EXCEPT ![i] = k]
  BY DEF Made
<1>2. DirsStay(v, w) /\ SameElsewhere(v, w, i) /\ w.kind[i] = k
  BY <1>1 DEF DirsStay, SameElsewhere, IsVolume
<1>3. /\ n \in Names /\ v.kind[d] = "dir" /\ Rooted(v, d)
      /\ Pdir(w, p) = d /\ Namei(w, p) = i
  BY <1>1, <1>2, NamesAre, NameMade
<1>4. NameAt(w, p) = t /\ t \in Triples
  BY <1>1, <1>3 DEF NameAt, Triples
<1> HIDE DEF d, n
<1>5. /\ NamesIn(w) = NamesIn(v) \union {t} /\ t \notin NamesIn(v)
      /\ KindsIn(w) = [KindsIn(v) EXCEPT ![i] = k] /\ Untaken(Seen(v), d, n)
  BY <1>1, <1>2, <1>3, SeenAdds
<1>6. KindsIn(v)[i] = "free" /\ KindsIn(v)[d] = "dir"
  BY <1>1, <1>3, KindsInAre
<1>7. Makes(Seen(v), Seen(w), t, k)
  BY <1>1, <1>5, <1>6, SeenFields DEF Makes
<1>8. KindsIn(v) = [KindsIn(w) EXCEPT ![i] = "free"]
  BY <1>1, <1>5, <1>6, KindsInAre
<1>9. NamesIn(v) = NamesIn(w) \ {t}
  BY <1>5
<1>10. Ahead(w, Seen(v), p)
  BY <1>3, <1>4, <1>8, <1>9 DEF Ahead, Seen
<1> QED BY <1>4, <1>7, <1>10 DEF d, n

LEMMA MknodShown ==
  ASSUME Inv, TreeInv, Inv', NEW p \in Paths, Mknod(p)
  PROVE  Shown
<1>1. PICK i \in Ialloc, g \in Grows :
        Do(Maknode(volume, p, "file", i, g), "done", "failed")
  BY DEF Mknod
<1> DEFINE v == volume
           w == volume'
           r == Maknode(v, p, "file", i, g)
<1>2. Become(r.v) /\ op' = Goto(IF r.ok THEN "done" ELSE "failed") /\ op.stage = "idle"
  BY <1>1 DEF Do, Mknod
<1>3. Behind' /\ Outside' = Seen(w)
  BY <1>2, EndsAre, OnEnd, AtRest
<1>4. Outside = Seen(v)
  BY <1>2, VolumeIs, VisibleIs DEF Outside
<1>5. /\ r.ok => Made(v, w, p, i, "file")
      /\ ~r.ok => w = v
  BY <1>2, MaknodeTree DEF Made
<1>6. IsVolume(v) /\ v.kind[ROOT] = "dir" /\ IsVolume(w) /\ p \in Seq(Names) /\ p # <<>>
  BY VolumeIs, NextVolume, PathsAreNames
<1> HIDE DEF v, w, r
<1>7. CASE ~r.ok
  BY <1>3, <1>4, <1>5, <1>7, Stutters DEF Shown
<1>8. CASE r.ok
  BY <1>3, <1>4, <1>5, <1>6, <1>8, SeenMade, MakesStep DEF Shown
<1> QED BY <1>7, <1>8

LEMMA LinkFileShown ==
  ASSUME Inv, TreeInv, CountsFit, Inv', NEW p \in Paths, NEW q \in Paths, LinkFile(p, q)
  PROVE  Shown
<1> DEFINE v == volume
           w == volume'
           i == Namei(v, p)
           t == <<Pdir(v, q), Last(q), i>>
<1>1. /\ op.stage = "idle" /\ i # 0 /\ v.kind[i] = "file"
      /\ \E g \in Grows : Do(Link(v, p, q, g), "done", "failed")
  BY DEF LinkFile, volume
<1>2. /\ p \in Seq(Components) /\ q \in Seq(Components) /\ q # <<>> /\ q \in Seq(Names)
      /\ p \in Seq(Names)
  BY PathsAreNames
<1>3. \/ op' = Goto("done") /\ Linked(v, w, i, Pdir(v, q), Last(q))
      \/ op' = Goto("failed") /\ w.entry = v.entry /\ w.kind = v.kind
  BY <1>1, <1>2, LinkTree
<1>4. Behind' /\ Outside' = Seen(w)
  BY <1>3, EndsAre, OnEnd, AtRest
<1>5. Outside = Seen(v)
  BY <1>1, VolumeIs, VisibleIs DEF Outside
<1>6. IsVolume(v) /\ IsVolume(w)
  BY VolumeIs, NextVolume
<1>7. Rooted(v, i)
  <2> HIDE DEF v
  <2> QED BY <1>1, <1>2, <1>6, PathRooted
<1> HIDE DEF v, w
<1>8. CASE Linked(v, w, i, Pdir(v, q), Last(q))
  <2>1. /\ t \in Triples /\ NamesIn(w) = NamesIn(v) \union {t} /\ KindsIn(w) = KindsIn(v)
        /\ KindsIn(v)[i] = v.kind[i]
        /\ KindsIn(v)[Pdir(v, q)] = "dir" /\ Untaken(Seen(v), Pdir(v, q), Last(q))
    BY <1>2, <1>6, <1>7, <1>8, SeenLinked
  <2>2. Links(Seen(v), Seen(w), t)
    BY <2>1, <1>1, SeenFields DEF Links
  <2> QED BY <2>1, <2>2, <1>4, <1>5, LinksStep DEF Shown
<1>9. CASE w.entry = v.entry /\ w.kind = v.kind
  <2>1. Seen(w) = Seen(v)
    BY <1>9, SeenSame DEF SameWays
  <2> QED BY <2>1, <1>4, <1>5, Stutters DEF Shown
<1> QED BY <1>3, <1>8, <1>9

(* unlink of a file *)
LEMMA FileRemoved ==
  ASSUME Inv, Inv', NEW p \in Seq(Names), p # <<>>, NEW then, NEW else,
         op.stage \notin {"reparent ..", "reparent +"},
         Namei(volume, p) # 0, volume.kind[Namei(volume, p)] = "file", TreeBut(volume, 0),
         Do(Unlink(volume, p), then, else)
  PROVE  Drops(Seen(volume), Seen(volume'), NameAt(volume, p))
<1> DEFINE v == volume
           w == volume'
<1>1. /\ w.entry = Written(v.entry, Pdir(v, p), Last(p), 0) /\ Barren(v, Namei(v, p))
  BY FileGone
<1>2. IsVolume(v) /\ v.kind[ROOT] = "dir" /\ IsVolume(w) /\ InUse(w) /\ p \in Seq(Components)
  BY VolumeIs, NextVolume, NamesWalk
<1>3. SameOrFreed(v, w, Namei(v, p))
  BY <1>2, DoUnlinkKinds
<1>4. Namei(v, p) \notin {0, ROOT}
  BY <1>2
<1> HIDE DEF v, w
<1>5. Drops(Seen(v), Seen(w), NameAt(v, p))
  BY <1>1, <1>2, <1>3, <1>4, SeenRemoved
<1> QED BY <1>5 DEF v, w

LEMMA UnlinkFileShown ==
  ASSUME Inv, TreeInv, Inv', NEW p \in Paths, UnlinkFile(p)
  PROVE  Shown
<1>1. /\ op.stage = "idle" /\ Namei(volume, p) # 0
      /\ volume.kind[Namei(volume, p)] = "file"
      /\ Do(Unlink(volume, p), "done", "failed")
  BY DEF UnlinkFile, volume
<1>2. p \in Seq(Names) /\ p # <<>> /\ TreeBut(volume, 0)
  BY <1>1, PathsAreNames DEF TreeInv
<1>3. op' = Goto("done") /\ Drops(Seen(volume), Seen(volume'), NameAt(volume, p))
  BY <1>1, <1>2, FileGone, FileRemoved
<1>4. Behind' /\ Outside' = Seen(volume')
  BY <1>3, EndsAre, OnEnd, AtRest
<1>5. Outside = Seen(volume)
  BY <1>1, VolumeIs, VisibleIs DEF Outside
<1> QED BY <1>3, <1>4, <1>5, RemovesStep DEF Shown

LEMMA Starting ==
  ASSUME op.stage = "idle", op'.stage # "idle", op'.before = Visible
  PROVE  InTreeStep
  BY Stutters DEF Outside

(* v6fs_mkdir *)
LEMMA BehindMkdir ==
  ASSUME op'.stage \in Mkdirs, Ahead(volume', op'.before, op'.new)
  PROVE  Behind'
  BY DEF Behind, Mkdirs, Rmdirs, Reparents

LEMMA MkdirShown ==
  ASSUME Inv, TreeInv, Inv', NEW p \in Paths, Mkdir(p)
  PROVE  Shown
<1>1. PICK i \in Ialloc, g \in Grows :
        /\ Become(Maknode(volume, p, "dir", i, g).v)
        /\ op' = IF Maknode(volume, p, "dir", i, g).ok THEN Start("mkdir .", <<>>, p, TRUE)
                 ELSE Idle(FALSE)
  BY DEF Mkdir
<1> DEFINE v == volume
           w == volume'
           r == Maknode(v, p, "dir", i, g)
<1>2. /\ Become(r.v) /\ op.stage = "idle"
      /\ op' = IF r.ok THEN Start("mkdir .", <<>>, p, TRUE) ELSE Idle(FALSE)
  BY <1>1 DEF Mkdir
<1>3. Outside = Seen(v) /\ Visible = Seen(v)
  BY <1>2, VolumeIs, VisibleIs DEF Outside
<1>4. /\ r.ok => Made(v, w, p, i, "dir")
      /\ ~r.ok => w = v
  BY <1>2, MaknodeTree DEF Made
<1>5. IsVolume(v) /\ v.kind[ROOT] = "dir" /\ IsVolume(w) /\ p \in Seq(Names) /\ p # <<>>
  BY VolumeIs, NextVolume, PathsAreNames
<1> HIDE DEF v, w, r
<1>6. CASE ~r.ok
  <2>1. op'.stage = "idle"
    BY <1>2, <1>6 DEF Idle
  <2>2. Behind' /\ Outside' = Seen(w)
    BY <2>1, AtRest DEF w
  <2> QED BY <2>2, <1>3, <1>4, <1>6, Stutters DEF Shown
<1>7. CASE r.ok
  <2>1. op'.stage = "mkdir ." /\ op'.new = p /\ op'.before = Visible
    BY <1>2, <1>7 DEF Start
  <2>2. Ahead(w, Seen(v), p)
    BY <1>4, <1>5, <1>7, SeenMade
  <2>3. Behind'
    BY <2>1, <2>2, <1>3, BehindMkdir DEF Mkdirs, w
  <2> QED BY <2>1, <2>3, <1>2, Starting DEF Shown
<1> QED BY <1>6, <1>7

LEMMA AheadStays ==
  ASSUME NEW v, IsVolume(v), NEW w, SameWays(v, w), NEW p \in Seq(Names), p # <<>>,
         NEW b, Ahead(v, b, p)
  PROVE  Ahead(w, b, p)
<1>1. Namei(w, p) = Namei(v, p) /\ Pdir(w, p) = Pdir(v, p)
  BY SameWay
<1>2. KindsIn(w) = KindsIn(v) /\ NamesIn(w) = NamesIn(v)
  BY SeenSame, SeenFields
<1> QED BY <1>1, <1>2 DEF Ahead, NameAt

LEMMA MkdirOn ==
  ASSUME Inv, TreeInv, Behind, op.stage \in Mkdirs, NEW s \in Mkdirs, op' = Goto(s),
         SameWays(volume, volume')
  PROVE  Shown
<1>1. op.stage \in OneName /\ s \notin Ends /\ s # "idle"
  BY DEF Mkdirs, OneName, Ends
<1>2. op.stage # "idle" /\ op.new \in Seq(Names) /\ op.new # <<>> /\ IsVolume(volume)
  BY <1>1, AtWork
<1>3. op'.stage = s /\ op'.new = op.new /\ op'.before = op.before /\ InTreeStep
  BY <1>1, <1>2, Progress
<1>4. Ahead(volume, op.before, op.new)
  BY DEF Behind
<1>5. Ahead(volume', op.before, op.new)
  BY <1>2, <1>4, AheadStays
<1> QED BY <1>3, <1>5, BehindMkdir DEF Shown

LEMMA PutsSame ==
  ASSUME NEW v, IsVolume(v), NEW w, NEW s \in Inos, NEW n \in DotNames, NEW x, Puts(v, w, s, n, x)
  PROVE  SameWays(v, w)
<1>1. n \in Components /\ n \notin Names
  BY NamesAre DEF DotNames
<1>2. \A c \in Inos, m \in Components :
        w.entry[c][m] = IF c = s /\ m = n THEN x ELSE v.entry[c][m]
  <2>1. v.entry \in EntryMaps
    BY DEF IsVolume, EntryMaps
  <2> QED BY <2>1, <1>1, WrittenAt DEF Puts
<1> QED BY <1>1, <1>2, NamesAre DEF SameWays, Puts

(* Of "." and ".." made or removed, nothing is seen. *)
LEMMA LinkDots ==
  ASSUME Inv, CountsFit, op.stage \notin {"reparent ..", "reparent +"},
         NEW old \in Seq(Components), NEW p \in Seq(Components), NEW n \in DotNames,
         NEW then, NEW else,
         \E g \in Grows : Do(Link(volume, old, Append(p, n), g), then, else)
  PROVE  /\ SameWays(volume, volume')
         /\ op' = Goto(then) \/ op' = Goto(else)
<1> DEFINE v == volume
           w == volume'
           q == Append(p, n)
<1>1. n \in Components /\ IsVolume(v)
  BY NamesAre, VolumeIs DEF DotNames
<1>2. q \in Seq(Components) /\ q # <<>> /\ Last(q) = n
  <2> HIDE DEF v
  <2> QED BY <1>1, DotPath
<1>3. \/ op' = Goto(then) /\ Linked(v, w, Namei(v, old), Pdir(v, q), n)
      \/ op' = Goto(else) /\ w.entry = v.entry /\ w.kind = v.kind
  <2> HIDE DEF q
  <2> QED BY <1>2, LinkTree DEF q
<1> HIDE DEF v, w, q
<1>4. CASE op' = Goto(then) /\ Linked(v, w, Namei(v, old), Pdir(v, q), n)
  <2>1. Puts(v, w, Pdir(v, q), n, Namei(v, old)) /\ Pdir(v, q) \in Inos
    BY <1>4 DEF Linked, Puts
  <2> QED BY <2>1, <1>1, <1>4, PutsSame DEF v, w
<1>5. CASE op' = Goto(else) /\ w.entry = v.entry /\ w.kind = v.kind
  BY <1>5 DEF v, w, SameWays
<1> QED BY <1>3, <1>4, <1>5

LEMMA DotsNone ==
  ASSUME NEW v, IsVolume(v), NEW p \in Seq(Names), p # <<>>, NEW s, HollowDir(v, p, s),
         NEW n \in DotNames, v.entry[s][n] = 0
  PROVE  /\ Append(p, n) \in Seq(Components) /\ Append(p, n) # <<>>
         /\ Namei(v, Append(p, n)) = 0
<1>1. EntryPath(v, Append(p, n), s, n)
  BY DotsFacts
<1> QED BY <1>1 DEF EntryPath

DotsRight(v, p, s, n) ==
  /\ v.entry[s][n] \in {0, s, Pdir(v, p)}
  /\ v.entry[s][n] # 0 => v.entry[s]["."] # 0

LEMMA UnlinkDots ==
  ASSUME Inv, op.stage \notin {"reparent ..", "reparent +"}, NEW p \in Seq(Names), p # <<>>,
         NEW s, HollowDir(volume, p, s), NEW n \in DotNames,
         DotsRight(volume, p, s, n), NEW then, NEW else, Do(Unlink(volume, Append(p, n)), then, else)
  PROVE  /\ SameWays(volume, volume')
         /\ op' = Goto(IF volume.entry[s][n] # 0 THEN then ELSE else)
<1>1. s \in Inos /\ IsVolume(volume)
  BY VolumeIs DEF HollowDir
<1>2. CASE volume.entry[s][n] # 0
  <2>1. op' = Goto(then) /\ Puts(volume, volume', s, n, 0)
    BY <1>2, DotGone DEF DotsRight
  <2> QED BY <2>1, <1>1, <1>2, PutsSame
<1>3. CASE volume.entry[s][n] = 0
  <2>1. /\ Append(p, n) \in Seq(Components) /\ Append(p, n) # <<>>
        /\ Namei(volume, Append(p, n)) = 0
    BY <1>1, <1>3, DotsNone
  <2>2. volume' = volume /\ op' = Goto(else)
    BY <2>1, UnlinkTree
  <2> QED BY <2>2, <1>3 DEF SameWays
<1> QED BY <1>2, <1>3

LEMMA MkdirDotShown ==
  ASSUME Inv, TreeInv, Behind, CountsFit, MkdirDot
  PROVE  Shown
<1> DEFINE p == op.new
<1>1. /\ op.stage \in Mkdirs /\ op.stage \in OneName
      /\ \E g \in Grows : Do(Link(volume, p, Append(p, "."), g), "mkdir ..", "undo ..")
  BY DEF MkdirDot, OneName, Mkdirs, Dot
<1>2. p \in Seq(Components) /\ op.stage \notin {"reparent ..", "reparent +"}
  BY <1>1, AtWork
<1>3. "." \in DotNames /\ "mkdir .." \in Mkdirs /\ "undo .." \in Mkdirs
  BY DEF DotNames, Mkdirs
<1>4. SameWays(volume, volume') /\ (op' = Goto("mkdir ..") \/ op' = Goto("undo .."))
  BY <1>1, <1>2, <1>3, LinkDots
<1> QED BY <1>1, <1>3, <1>4, MkdirOn

LEMMA UndoDotDotShown ==
  ASSUME Inv, TreeInv, Behind, UndoDotDot
  PROVE  Shown
<1> DEFINE p == op.new
<1>1. /\ op.stage \in Mkdirs /\ op.stage \in OneName /\ op.stage = "undo .."
      /\ Do(Unlink(volume, Append(p, "..")), "undo .", "undo .")
  BY DEF UndoDotDot, OneName, Mkdirs, DotDot
<1>2. /\ p \in Seq(Names) /\ p # <<>> /\ op.stage \notin {"reparent ..", "reparent +"}
      /\ Making(volume, "undo ..", p)
  BY <1>1, AtWork
<1>3. PICK s : HollowDir(volume, p, s) /\ volume.entry[s][".."] = 0
  BY <1>2 DEF Making
<1>4. ".." \in DotNames /\ "undo ." \in Mkdirs
  BY DEF DotNames, Mkdirs
<1>5. DotsRight(volume, p, s, "..")
  BY <1>3 DEF DotsRight
<1>6. SameWays(volume, volume') /\ op' = Goto("undo .")
  BY <1>1, <1>2, <1>3, <1>4, <1>5, UnlinkDots
<1> QED BY <1>1, <1>4, <1>6, MkdirOn

LEMMA UndoDotShown ==
  ASSUME Inv, TreeInv, Behind, UndoDot
  PROVE  Shown
<1> DEFINE p == op.new
<1>1. /\ op.stage \in Mkdirs /\ op.stage \in OneName /\ op.stage = "undo ."
      /\ Do(Unlink(volume, Append(p, ".")), "undo", "undo")
  BY DEF UndoDot, OneName, Mkdirs, Dot
<1>2. /\ p \in Seq(Names) /\ p # <<>> /\ op.stage \notin {"reparent ..", "reparent +"}
      /\ Making(volume, "undo .", p)
  BY <1>1, AtWork
<1>3. PICK s : HollowDir(volume, p, s) /\ volume.entry[s]["."] \in {0, s}
  BY <1>2 DEF Making, Dots
<1>4. "." \in DotNames /\ "undo" \in Mkdirs
  BY DEF DotNames, Mkdirs
<1>5. DotsRight(volume, p, s, ".")
  BY <1>3 DEF DotsRight
<1>6. SameWays(volume, volume') /\ op' = Goto("undo")
  BY <1>1, <1>2, <1>3, <1>4, <1>5, UnlinkDots
<1> QED BY <1>1, <1>4, <1>6, MkdirOn

(* The directory made is seen when mkdir returns. *)
LEMMA HollowNamed ==
  ASSUME NEW v, IsVolume(v), NEW p \in Seq(Names), p # <<>>, NEW s, HollowDir(v, p, s)
  PROVE  /\ NameAt(v, p) = <<Pdir(v, p), Last(p), s>> /\ NameAt(v, p) \in Triples
         /\ NameAt(v, p) \in NamesIn(v) /\ s \in Inos \ {ROOT} /\ Namei(v, p) = s
         /\ \A t \in NamesIn(v) \ {NameAt(v, p)} :
              t[3] # s /\ ~(t[1] = Pdir(v, p) /\ t[2] = Last(p))
         /\ KindsIn(v)[s] = "dir" /\ KindsIn(v)[Pdir(v, p)] = "dir" /\ Pdir(v, p) # s
         /\ Pdir(v, p) \in Inos
<1> DEFINE d == Pdir(v, p)
           n == Last(p)
           x == <<d, n, s>>
<1>1. /\ Namei(v, p) = s /\ s \in Inos \ {ROOT} /\ v.kind[s] = "dir" /\ OnlyName(v, s, d, n)
  BY DEF HollowDir
<1>2. d \in Inos /\ n \in Names /\ d # s /\ v.kind[d] = "dir" /\ Rooted(v, d)
      /\ v.entry[d][n] = s /\ s # 0
  BY HollowFacts
<1>3. NameAt(v, p) = x /\ x \in Triples
  BY <1>1, <1>2 DEF NameAt, Triples
<1> HIDE DEF d, n
<1>4. x \in NamesIn(v)
  BY <1>2, NamesInAre
<1>5. ASSUME NEW t \in NamesIn(v) \ {x} PROVE t[3] # s /\ ~(t[1] = d /\ t[2] = n)
  <2>1. t = <<t[1], t[2], t[3]>> /\ t[1] \in Inos /\ t[2] \in Names /\ v.entry[t[1]][t[2]] = t[3]
    BY NamesInAre, TripleIs
  <2>2. ASSUME t[3] = s PROVE t[1] = d /\ t[2] = n
    BY <2>1, <2>2, <1>1 DEF OnlyName
  <2>3. ASSUME t[1] = d, t[2] = n PROVE t[3] = s
    BY <2>1, <2>3, <1>2
  <2> QED BY <2>1, <2>2, <2>3
<1>6. Named(v, s)
  BY <1>2 DEF Named
<1>7. KindsIn(v)[s] = "dir" /\ KindsIn(v)[d] = "dir"
  BY <1>1, <1>2, <1>6, KindsInAre DEF Rooted
<1> QED BY <1>1, <1>2, <1>3, <1>4, <1>5, <1>7 DEF d, n

LEMMA AheadMakes ==
  ASSUME NEW v, IsVolume(v), NEW p \in Seq(Names), p # <<>>, NEW s, HollowDir(v, p, s),
         NEW b, Ahead(v, b, p)
  PROVE  Makes(b, Seen(v), NameAt(v, p), "dir")
<1> DEFINE d == Pdir(v, p)
           n == Last(p)
           x == <<d, n, s>>
<1>1. /\ NameAt(v, p) = x /\ x \in NamesIn(v) /\ s \in Inos \ {ROOT}
      /\ \A t \in NamesIn(v) \ {x} : ~(t[1] = d /\ t[2] = n)
      /\ KindsIn(v)[s] = "dir" /\ KindsIn(v)[d] = "dir" /\ d # s /\ d \in Inos
      /\ Namei(v, p) = s
  BY HollowNamed
<1>2. b.kind = [KindsIn(v) EXCEPT ![s] = "free"] /\ b.tree = NamesIn(v) \ {x}
  BY <1>1 DEF Ahead
<1> HIDE DEF d, n
<1>3. b.kind[d] = "dir" /\ b.kind[s] = "free" /\ KindsIn(v) = [b.kind EXCEPT ![s] = "dir"]
  BY <1>1, <1>2, KindsInAre
<1>4. Untaken(b, d, n) /\ NamesIn(v) = b.tree \union {x}
  BY <1>1, <1>2 DEF Untaken
<1> QED BY <1>1, <1>3, <1>4, SeenFields DEF Makes

LEMMA MkdirDotDotShown ==
  ASSUME Inv, TreeInv, Behind, Inv', CountsFit, MkdirDotDot
  PROVE  Shown
<1> DEFINE p == op.new
           b == op.before
<1>1. /\ op.stage \in Mkdirs /\ op.stage \in OneName /\ op.stage = "mkdir .."
      /\ \E g \in Grows : Do(Link(volume, Dirname(p), Append(p, ".."), g), "done", "undo ..")
  BY DEF MkdirDotDot, OneName, Mkdirs, DotDot
<1>2. /\ p \in Seq(Components) /\ Dirname(p) \in Seq(Components) /\ p \in Seq(Names) /\ p # <<>>
      /\ IsVolume(volume) /\ Making(volume, op.stage, p) /\ op.stage # "idle"
      /\ op.stage \notin {"reparent ..", "reparent +"}
  BY <1>1, AtWork
<1>3. ".." \in DotNames /\ "undo .." \in Mkdirs
  BY DEF DotNames, Mkdirs
<1>4. SameWays(volume, volume') /\ (op' = Goto("done") \/ op' = Goto("undo .."))
  BY <1>1, <1>2, <1>3, LinkDots
<1>5. CASE op' = Goto("undo ..")
  BY <1>1, <1>3, <1>4, <1>5, MkdirOn
<1>6. CASE op' = Goto("done")
  <2>1. Behind' /\ Outside' = Seen(volume')
    BY <1>6, EndsAre, OnEnd, AtRest
  <2>2. Outside = b
    BY <1>2 DEF Outside
  <2>3. Seen(volume') = Seen(volume)
    BY <1>4, SeenSame
  <2>4. PICK s : HollowDir(volume, p, s)
    BY <1>2 DEF Making
  <2>5. Ahead(volume, b, p)
    BY <1>1 DEF Behind
  <2>6. Makes(b, Seen(volume), NameAt(volume, p), "dir") /\ NameAt(volume, p) \in Triples
    BY <2>4, <2>5, <1>2, AheadMakes, HollowNamed
  <2> QED BY <2>1, <2>2, <2>3, <2>6, MakesStep DEF Shown
<1> QED BY <1>4, <1>5, <1>6

(* The directory itself removed *)
LEMMA HollowRemoved ==
  ASSUME Inv, Inv', op.stage \notin {"reparent ..", "reparent +"}, NEW p \in Seq(Names), p # <<>>,
         NEW s, HollowDir(volume, p, s), volume.entry[s]["."] = 0, volume.entry[s][".."] = 0,
         NEW then, NEW else, Do(Unlink(volume, p), then, else)
  PROVE  Drops(Seen(volume), Seen(volume'), NameAt(volume, p))
<1> DEFINE v == volume
           w == volume'
<1>1. /\ w.entry = Written(v.entry, Pdir(v, p), Last(p), 0) /\ Barren(v, s) /\ s # 0
      /\ Namei(v, p) = s
  BY HollowGone
<1>2. IsVolume(v) /\ IsVolume(w) /\ InUse(w) /\ p \in Seq(Components)
  BY VolumeIs, NextVolume, NamesWalk
<1>3. SameOrFreed(v, w, Namei(v, p))
  BY <1>2, DoUnlinkKinds
<1>4. Namei(v, p) \notin {0, ROOT}
  BY <1>1 DEF HollowDir
<1> HIDE DEF v, w
<1>5. Drops(Seen(v), Seen(w), NameAt(v, p))
  BY <1>1, <1>2, <1>3, <1>4, SeenRemoved
<1> QED BY <1>5 DEF v, w

LEMMA AheadUndone ==
  ASSUME NEW v, IsVolume(v), NEW p \in Seq(Names), p # <<>>, NEW s, HollowDir(v, p, s),
         NEW b, Ahead(v, b, p), NEW w, Drops(Seen(v), Seen(w), NameAt(v, p))
  PROVE  Seen(w) = b
<1> DEFINE x == NameAt(v, p)
<1>1. /\ x[3] = s /\ x \in NamesIn(v) /\ Namei(v, p) = s
      /\ \A t \in NamesIn(v) \ {x} : t[3] # s
  BY HollowNamed
<1> HIDE DEF x
<1>2. Lost(Seen(v), x) = [KindsIn(v) EXCEPT ![s] = "free"]
  BY <1>1, SeenFields DEF Lost
<1>3. KindsIn(w) = [KindsIn(v) EXCEPT ![s] = "free"] /\ NamesIn(w) = NamesIn(v) \ {x}
  BY <1>2, SeenFields DEF Drops, x
<1> QED BY <1>1, <1>3 DEF Ahead, Seen, x

LEMMA UndoShown ==
  ASSUME Inv, TreeInv, Behind, Inv', Undo
  PROVE  Shown
<1> DEFINE p == op.new
           b == op.before
<1>1. /\ op.stage \in Mkdirs /\ op.stage \in OneName /\ op.stage = "undo"
      /\ Do(Unlink(volume, p), "failed", "failed")
  BY DEF Undo, OneName, Mkdirs
<1>2. /\ p \in Seq(Names) /\ p # <<>> /\ op.stage \notin {"reparent ..", "reparent +"}
      /\ Making(volume, "undo", p) /\ IsVolume(volume) /\ op.stage # "idle"
  BY <1>1, AtWork
<1>3. PICK s : HollowDir(volume, p, s) /\ volume.entry[s]["."] = 0 /\ volume.entry[s][".."] = 0
  BY <1>2 DEF Making, Dots
<1>4. op' = Goto("failed")
  BY <1>1, <1>2, <1>3, HollowGone
<1>5. Drops(Seen(volume), Seen(volume'), NameAt(volume, p))
  BY <1>1, <1>2, <1>3, HollowRemoved
<1>6. Ahead(volume, b, p)
  BY <1>1 DEF Behind
<1>7. Seen(volume') = b
  BY <1>2, <1>3, <1>5, <1>6, AheadUndone
<1>8. Behind' /\ Outside' = Seen(volume') /\ Outside = b
  BY <1>2, <1>4, EndsAre, OnEnd, AtRest DEF Outside
<1> QED BY <1>7, <1>8, Stutters DEF Shown

(* v6fs_rmdir *)
LEMMA BehindRmdir ==
  ASSUME op'.stage \in Rmdirs \union {"unlink new"}, op'.before = Seen(volume'),
         op'.stage \in Rmdirs <=> op'.isdir,
         op'.old # <<>> => Aside(volume', op'.before, op'.old, op'.new)
  PROVE  Behind'
  BY DEF Behind, Mkdirs, Rmdirs, Reparents

LEMMA BehindLink ==
  ASSUME op'.stage = "link", op'.old # <<>> => Aside(volume', op'.before, op'.old, op'.new),
         Cleared(volume', Seen(volume'), op'.before, op'.old, op'.new)
  PROVE  Behind'
  BY DEF Behind, Mkdirs, Rmdirs, Reparents

LEMMA RmdirShown ==
  ASSUME Inv, TreeInv, Inv', NEW p \in Paths, Rmdir(p)
  PROVE  Shown
<1>1. /\ op.stage = "idle" /\ volume' = volume
      /\ op' = IF Removable(Namei(volume, p)) THEN Start("rmdir ..", <<>>, p, TRUE)
               ELSE Idle(FALSE)
  BY DEF Rmdir, volume
<1>2. Outside = Seen(volume) /\ Visible = Seen(volume)
  BY <1>1, VolumeIs, VisibleIs DEF Outside
<1>3. CASE ~Removable(Namei(volume, p))
  <2>1. op'.stage = "idle"
    BY <1>1, <1>3 DEF Idle
  <2>2. Behind' /\ Outside' = Seen(volume')
    BY <2>1, AtRest
  <2> QED BY <2>2, <1>1, <1>2, Stutters DEF Shown
<1>4. CASE Removable(Namei(volume, p))
  <2>1. /\ op'.stage = "rmdir .." /\ op'.before = Visible /\ op'.old = <<>> /\ op'.isdir
    BY <1>1, <1>4 DEF Start
  <2>2. op'.stage \in Rmdirs \union {"unlink new"} /\ (op'.stage \in Rmdirs <=> op'.isdir)
    BY <2>1 DEF Rmdirs
  <2>3. Behind'
    BY <2>1, <2>2, <1>1, <1>2, BehindRmdir
  <2> QED BY <2>1, <2>3, <1>1, Starting DEF Shown
<1> QED BY <1>3, <1>4

LEMMA AsideStays ==
  ASSUME NEW v, IsVolume(v), NEW w, SameWays(v, w), NEW old \in Seq(Names),
         NEW new \in Seq(Names), new # <<>>, NEW b, Aside(v, b, old, new)
  PROVE  Aside(w, b, old, new)
<1>1. Namei(w, old) = Namei(v, old) /\ Pdir(w, new) = Pdir(v, new)
  BY SameWay
<1> QED BY <1>1 DEF Aside

LEMMA RmdirOn ==
  ASSUME Inv, TreeInv, Behind, op.stage \in Rmdirs, NEW s \in Rmdirs, op' = Goto(s),
         SameWays(volume, volume')
  PROVE  Shown
<1>1. op.stage \in OneName /\ s \notin Ends /\ s # "idle"
  BY DEF Rmdirs, OneName, Ends
<1>2. /\ op.stage # "idle" /\ op.new \in Seq(Names) /\ op.new # <<>> /\ IsVolume(volume)
      /\ op.old \in Seq(Names)
  BY <1>1, AtWork
<1>3. /\ op'.stage = s /\ op'.new = op.new /\ op'.before = op.before /\ op'.old = op.old
      /\ op'.isdir = op.isdir /\ InTreeStep
  BY <1>1, <1>2, Progress
<1>4. /\ op.before = Seen(volume) /\ op.isdir
      /\ op.old # <<>> => Aside(volume, op.before, op.old, op.new)
  BY DEF Behind
<1>5. op.old # <<>> => Aside(volume', op.before, op.old, op.new)
  BY <1>2, <1>4, AsideStays
<1>6. Seen(volume') = Seen(volume)
  BY SeenSame
<1>7. op'.stage \in Rmdirs \union {"unlink new"} /\ (op'.stage \in Rmdirs <=> op'.isdir)
  BY <1>3, <1>4
<1> QED BY <1>3, <1>4, <1>5, <1>6, <1>7, BehindRmdir DEF Shown

LEMMA RmdirDotDotShown ==
  ASSUME Inv, TreeInv, Behind, RmdirDotDot
  PROVE  Shown
<1> DEFINE p == op.new
<1>1. /\ op.stage \in Rmdirs /\ op.stage \in OneName /\ op.stage = "rmdir .."
      /\ Do(Unlink(volume, Append(p, "..")), "rmdir .", "failed")
  BY DEF RmdirDotDot, OneName, Rmdirs, DotDot
<1>2. /\ p \in Seq(Names) /\ p # <<>> /\ op.stage \notin {"reparent ..", "reparent +"}
      /\ Making(volume, "rmdir ..", p) /\ IsVolume(volume)
  BY <1>1, AtWork
<1>3. PICK s : /\ HollowDir(volume, p, s) /\ volume.entry[s][".."] = Pdir(volume, p)
               /\ volume.entry[s]["."] = s
  BY <1>2 DEF Making, Dots
<1>4. ".." \in DotNames /\ "rmdir ." \in Rmdirs
  BY DEF DotNames, Rmdirs
<1>5. s # 0 /\ Pdir(volume, p) # 0
  <2> DEFINE v == volume
  <2>1. IsVolume(v) /\ HollowDir(v, p, s)
    BY <1>2, <1>3
  <2> HIDE DEF v, p
  <2>2. s # 0 /\ Pdir(v, p) \in Inos
    BY <2>1, <1>2, HollowFacts
  <2> QED BY <2>2, NamesAre DEF v
<1>6. DotsRight(volume, p, s, "..") /\ volume.entry[s][".."] # 0
  BY <1>3, <1>5 DEF DotsRight
<1>7. SameWays(volume, volume') /\ op' = Goto("rmdir .")
  BY <1>1, <1>2, <1>3, <1>4, <1>6, UnlinkDots
<1> QED BY <1>1, <1>4, <1>7, RmdirOn

LEMMA RmdirDotShown ==
  ASSUME Inv, TreeInv, Behind, RmdirDot
  PROVE  Shown
<1> DEFINE p == op.new
<1>1. /\ op.stage \in Rmdirs /\ op.stage \in OneName /\ op.stage = "rmdir ."
      /\ Do(Unlink(volume, Append(p, ".")), "rmdir", "failed")
  BY DEF RmdirDot, OneName, Rmdirs, Dot
<1>2. /\ p \in Seq(Names) /\ p # <<>> /\ op.stage \notin {"reparent ..", "reparent +"}
      /\ Making(volume, "rmdir .", p)
  BY <1>1, AtWork
<1>3. PICK s : HollowDir(volume, p, s) /\ volume.entry[s]["."] = s
  BY <1>2 DEF Making, Dots
<1>4. "." \in DotNames /\ "rmdir" \in Rmdirs /\ s # 0
  BY <1>3, NamesAre DEF DotNames, Rmdirs, HollowDir
<1>5. DotsRight(volume, p, s, ".") /\ volume.entry[s]["."] # 0
  BY <1>3, <1>4 DEF DotsRight
<1>6. SameWays(volume, volume') /\ op' = Goto("rmdir")
  BY <1>1, <1>2, <1>3, <1>4, <1>5, UnlinkDots
<1> QED BY <1>1, <1>4, <1>6, RmdirOn

(* What had the new name has given way. *)
LEMMA GivesWay ==
  ASSUME NEW v, IsVolume(v), NEW w, NEW old \in Seq(Names), NEW p \in Seq(Names), p # <<>>,
         NEW isdir, Renaming(v, old, p, isdir), old # <<>>,
         Namei(v, p) # 0, Barren(v, Namei(v, p)), SameElsewhere(v, w, Namei(v, p)),
         w.entry = Written(v.entry, Pdir(v, p), Last(p), 0),
         v.kind[Namei(v, p)] = v.kind[Namei(v, old)],
         Aside(v, Seen(v), old, p), Drops(Seen(v), Seen(w), NameAt(v, p))
  PROVE  Aside(w, Seen(v), old, p) /\ Cleared(w, Seen(w), Seen(v), old, p)
<1> DEFINE i == Namei(v, old)
           j == Namei(v, p)
           x == NameAt(v, p)
<1>1. i \notin {0, j}
  BY DEF Renaming
<1>2. Namei(w, old) = i /\ Pdir(w, p) = Pdir(v, p)
  BY <1>1, NameRemoved
<1>3. x[1] = Pdir(v, p) /\ x[2] = Last(p) /\ x[3] = j
  BY DEF NameAt
<1>4. i \in Inos /\ Named(v, i) /\ j \in Inos /\ Named(v, j)
  BY <1>1, NameOf
<1>5. KindsIn(v)[i] = KindsIn(v)[j]
  BY <1>4, KindsInAre DEF Rooted
<1>6. x \in Seen(v).tree /\ Seen(v).kind[x[3]] = Seen(v).kind[i]
  BY <1>3, <1>5, SeenFields DEF Drops
<1>7. Aside(w, Seen(v), old, p)
  BY <1>2 DEF Aside
<1> HIDE DEF i, j, x
<1>8. Clears(Seen(v), Seen(w), Pdir(v, p), Last(p), i)
  BY <1>1, <1>3, <1>6 DEF Clears, x
<1> QED BY <1>2, <1>7, <1>8 DEF Cleared, i

LEMMA RmdirDirShown ==
  ASSUME Inv, TreeInv, Behind, Inv', RmdirDir
  PROVE  Shown
<1> DEFINE v == volume
           w == volume'
           p == op.new
           then == IF op.old = <<>> THEN "done" ELSE "link"
<1>1. /\ op.stage = "rmdir" /\ op.stage \in OneName /\ op.stage \in Rmdirs
      /\ Do(Unlink(v, p), then, "failed")
  BY DEF RmdirDir, OneName, Rmdirs
<1>2. /\ IsVolume(v) /\ p \in Seq(Names) /\ p # <<>> /\ Making(v, "rmdir", p)
      /\ op.stage \notin {"reparent ..", "reparent +"} /\ op.stage # "idle"
      /\ op.old \in Seq(Names) /\ (op.old # <<>> => Renaming(v, op.old, p, op.isdir))
  BY <1>1, AtWork
<1>3. PICK s : HollowDir(v, p, s) /\ v.entry[s]["."] = 0 /\ v.entry[s][".."] = 0
  BY <1>2 DEF Making, Dots
<1>4. /\ op' = Goto(then)
      /\ w.entry = Written(v.entry, Pdir(v, p), Last(p), 0)
      /\ Namei(v, p) = s /\ s # 0 /\ Barren(v, s) /\ SameElsewhere(v, w, s)
  <2> HIDE DEF then
  <2> QED BY <1>1, <1>2, <1>3, HollowGone
<1>5. Drops(Seen(v), Seen(w), NameAt(v, p))
  <2> HIDE DEF then
  <2> QED BY <1>1, <1>2, <1>3, HollowRemoved
<1>6. /\ op.before = Seen(v) /\ op.isdir
      /\ op.old # <<>> => Aside(v, Seen(v), op.old, p)
  BY <1>1 DEF Behind
<1>7. CASE op.old = <<>>
  <2>1. Behind' /\ Outside' = Seen(w) /\ Outside = Seen(v)
    BY <1>2, <1>4, <1>6, <1>7, EndsAre, OnEnd, AtRest DEF Outside
  <2> QED BY <2>1, <1>5, RemovesStep DEF Shown
<1>8. CASE op.old # <<>>
  <2>1. op' = Goto("link") /\ "link" \notin Ends /\ "link" # "idle"
    BY <1>4, <1>8 DEF Ends
  <2>2. /\ op'.stage = "link" /\ op'.new = p /\ op'.old = op.old /\ op'.before = op.before
        /\ InTreeStep
    BY <2>1, <1>2, Progress
  <2> HIDE DEF v, w, p
  <2>3. v.kind[Namei(v, p)] = v.kind[Namei(v, op.old)]
    BY <1>2, <1>3, <1>6, <1>8 DEF HollowDir, Renaming
  <2>4. Aside(w, Seen(v), op.old, p) /\ Cleared(w, Seen(w), Seen(v), op.old, p)
    BY <2>3, <1>2, <1>4, <1>5, <1>6, <1>8, GivesWay
  <2> QED BY <2>2, <2>4, <1>6, BehindLink DEF Shown, w
<1> QED BY <1>7, <1>8

(* v6fs_rename: the file that has the new name *)
LEMMA RenameUnlinkNewShown ==
  ASSUME Inv, TreeInv, Behind, Inv', RenameUnlinkNew
  PROVE  Shown
<1> DEFINE v == volume
           w == volume'
           p == op.new
<1>1. op.stage = "unlink new" /\ Do(Unlink(v, p), "link", "failed")
  BY DEF RenameUnlinkNew
<1>2. /\ p \in Seq(Names) /\ p # <<>> /\ op.old \in Seq(Names) /\ op.old # <<>>
  BY <1>1, PathsAreNames DEF Inv, InCall, OneName
<1>3. /\ IsVolume(v) /\ TreeBut(v, 0) /\ Renaming(v, op.old, p, op.isdir)
      /\ Namei(v, p) # 0 /\ v.kind[Namei(v, p)] = "file" /\ Sound(v)
  BY <1>1, <1>2, VolumeIs, InvSound DEF TreeInv
<1>4. /\ op' = Goto("link") /\ w.entry = Written(v.entry, Pdir(v, p), Last(p), 0)
      /\ Barren(v, Namei(v, p)) /\ SameElsewhere(v, w, Namei(v, p))
  BY <1>1, <1>2, <1>3, FileGone
<1>5. Drops(Seen(v), Seen(w), NameAt(v, p))
  BY <1>1, <1>2, <1>3, FileRemoved
<1>6. op.before = Seen(v) /\ ~op.isdir /\ Aside(v, Seen(v), op.old, p)
  BY <1>1, <1>2 DEF Behind, Rmdirs
<1>7. "link" \notin Ends /\ "link" # "idle"
  BY DEF Ends
<1>8. /\ op'.stage = "link" /\ op'.new = p /\ op'.old = op.old /\ op'.before = op.before
      /\ InTreeStep
  BY <1>1, <1>4, <1>7, Progress
<1> HIDE DEF v, w, p
<1>9. v.kind[Namei(v, p)] = v.kind[Namei(v, op.old)]
  <2>1. Namei(v, op.old) # 0 /\ v.kind[Namei(v, op.old)] # "dir"
    BY <1>3, <1>6 DEF Renaming
  <2>2. op.old \in Seq(Components)
    BY <1>2, <1>3, NamesWalk
  <2>3. Namei(v, op.old) \in Inos /\ v.kind[Namei(v, op.old)] # "free"
    BY <2>1, <2>2, <1>3, NamedInUse
  <2> QED BY <2>1, <2>3, <1>3 DEF IsVolume
<1>10. Aside(w, Seen(v), op.old, p) /\ Cleared(w, Seen(w), Seen(v), op.old, p)
  BY <1>2, <1>3, <1>4, <1>5, <1>6, <1>9, GivesWay
<1> QED BY <1>6, <1>8, <1>10, BehindLink DEF Shown, w

LEMMA RenameShown ==
  ASSUME Inv, TreeInv, Inv', NEW old \in Paths, NEW new \in Paths, Rename(old, new)
  PROVE  Shown
<1> DEFINE v == volume
           i == Namei(v, old)
           j == Namei(v, new)
           isdir == i # 0 /\ kind[i] = "dir"
           first == IF j = 0 THEN "link" ELSE IF isdir THEN "rmdir .." ELSE "unlink new"
<1>1. /\ op.stage = "idle" /\ UNCHANGED <<kind, nlink, entry, blocks>>
      /\ old # new /\ ~IsStrictPrefix(old, new)
      /\ \/ op' = Idle(FALSE) \/ op' = Idle(TRUE)
         \/ i \notin {0, ROOT} /\ op' = Start(first, old, new, isdir)
  <2> HIDE DEF first
  <2>1. /\ op.stage = "idle" /\ UNCHANGED <<kind, nlink, entry, blocks>>
        /\ old # new /\ ~IsStrictPrefix(old, new)
        /\ op' = CASE i \in {0, ROOT} -> Idle(FALSE)
                   [] i \notin {0, ROOT} /\ i = j -> Idle(TRUE)
                   [] OTHER -> IF Replaceable(i, j) /\ ~(isdir /\ Isindir(new, i))
                               THEN Start(first, old, new, isdir) ELSE Idle(FALSE)
    BY DEF Rename, first
  <2> HIDE DEF i, j, isdir
  <2> QED BY <2>1
<1>2. volume' = v
  BY <1>1, VolumeStays
<1>3. Outside = Seen(v) /\ Visible = Seen(v)
  BY <1>1, VolumeIs, VisibleIs DEF Outside
<1>4. /\ IsVolume(v) /\ TreeBut(v, 0) /\ new \in Seq(Names) /\ new # <<>>
      /\ old \in Seq(Names) /\ new \in Seq(Components) /\ Dirname(new) \in Seq(Names)
  BY <1>1, VolumeIs, PathsAreNames DEF TreeInv
<1>5. CASE op' = Idle(FALSE) \/ op' = Idle(TRUE)
  <2>1. op'.stage = "idle"
    BY <1>5 DEF Idle
  <2>2. Behind' /\ Outside' = Seen(volume')
    BY <2>1, AtRest
  <2> QED BY <2>2, <1>2, <1>3, Stutters DEF Shown
<1>6. CASE i \notin {0, ROOT} /\ op' = Start(first, old, new, isdir)
  <2>1. /\ op'.stage = first /\ op'.new = new /\ op'.old = old /\ op'.before = Visible
        /\ op'.isdir <=> isdir
    BY <1>6 DEF Start
  <2>2. Aside(v, Seen(v), old, new)
    <3> HIDE DEF v
    <3>1. ASSUME Pdir(v, new) # 0 PROVE Aloof(Seen(v), Pdir(v, new), i)
      <4>1. Avoids(v, Dirname(new), i)
        BY <3>1, <1>1, <1>4, <1>6, MovesAside
      <4>2. Pdir(v, new) = Namei(v, Dirname(new)) /\ v.kind[Namei(v, Dirname(new))] = "dir"
        BY <3>1 DEF Pdir
      <4> QED BY <4>1, <4>2, <3>1, <1>4, AvoidsAloof
    <3> QED BY <3>1 DEF Aside
  <2>3. Cleared(v, Seen(v), Seen(v), old, new)
    BY DEF Cleared, Clears
  <2> HIDE DEF v, i, j, isdir
  <2>4. CASE j = 0
    <3>1. op'.stage = "link"
      BY <2>1, <2>4
    <3>2. Behind'
      BY <3>1, <2>1, <2>2, <2>3, <1>2, <1>3, BehindLink
    <3> QED BY <3>1, <3>2, <2>1, <1>1, Starting DEF Shown
  <2>5. CASE j # 0
    <3>1. op'.stage = IF isdir THEN "rmdir .." ELSE "unlink new"
      BY <2>1, <2>5
    <3>2. /\ op'.stage \in Rmdirs \union {"unlink new"} /\ (op'.stage \in Rmdirs <=> op'.isdir)
          /\ op'.stage # "idle"
      BY <3>1, <2>1 DEF Rmdirs
    <3>3. Behind'
      BY <3>2, <2>1, <2>2, <1>2, <1>3, BehindRmdir
    <3> QED BY <3>2, <3>3, <2>1, <1>1, Starting DEF Shown
  <2> QED BY <2>4, <2>5
<1> QED BY <1>1, <1>5, <1>6

(* The link of a rename made: of a name too many, nothing is seen. *)
LEMMA BehindOld ==
  ASSUME op'.stage = "unlink old",
         op'.old # <<>> => Aside(volume', op'.before, op'.old, op'.new),
         Cleared(volume', Without(volume', NameAt(volume', op'.new)),
                 op'.before, op'.old, op'.new)
  PROVE  Behind'
  BY DEF Behind, Mkdirs, Rmdirs, Reparents

LEMMA ClearedTwice ==
  ASSUME NEW v, IsVolume(v), NEW w, IsVolume(w), NEW old \in Seq(Names), old # <<>>,
         NEW new \in Seq(Names), new # <<>>, NEW isdir, Renaming(v, old, new, isdir),
         Linked(v, w, Namei(v, old), Pdir(v, new), Last(new)),
         NEW b, Aside(v, b, old, new), Cleared(v, Seen(v), b, old, new)
  PROVE  /\ Aside(w, b, old, new)
         /\ Cleared(w, Without(w, NameAt(w, new)), b, old, new)
<1> DEFINE i == Namei(v, old)
           d == Pdir(v, new)
           n == Last(new)
           x == <<d, n, i>>
<1>1. i # 0
  BY DEF Renaming
<1>2. Rooted(v, i)
  BY <1>1, PathRooted
<1>3. NamesIn(w) = NamesIn(v) \union {x} /\ KindsIn(w) = KindsIn(v) /\ x \notin NamesIn(v)
  BY <1>2, SeenLinked
<1>4. /\ i \in Inos /\ d # 0 /\ v.entry[d][n] = 0 /\ w.entry = Written(v.entry, d, n, i)
      /\ DirsStay(v, w)
  BY NamesAre DEF Linked, DirsStay
<1>5. Pdir(w, new) = d /\ Namei(w, new) = i /\ LeadsOn(v, w)
  BY <1>4, NameMade
<1>6. Namei(w, old) = i
  BY <1>1, <1>5 DEF LeadsOn
<1>7. NameAt(w, new) = x
  BY <1>5 DEF NameAt
<1>8. Without(w, NameAt(w, new)) = Seen(v)
  BY <1>3, <1>7 DEF Without, Seen
<1> HIDE DEF i, d, n, x
<1>9. Aside(w, b, old, new)
  BY <1>5, <1>6 DEF Aside, i, d
<1>10. Cleared(w, Seen(v), b, old, new)
  BY <1>5, <1>6 DEF Cleared, i, d
<1> QED BY <1>8, <1>9, <1>10

LEMMA RenameLinkShown ==
  ASSUME Inv, TreeInv, Behind, Inv', CountsFit, RenameLink
  PROVE  Shown
<1> DEFINE v == volume
           w == volume'
           b == op.before
           old == op.old
           new == op.new
<1>1. /\ op.stage = "link"
      /\ \E g \in Grows : Do(Link(v, old, new, g), "unlink old", "failed")
  BY DEF RenameLink
<1>2. /\ new \in Seq(Names) /\ new # <<>> /\ old \in Seq(Names) /\ old # <<>>
      /\ new \in Seq(Components) /\ old \in Seq(Components)
  BY <1>1, PathsAreNames DEF Inv, InCall, OneName
<1>3. IsVolume(v) /\ IsVolume(w) /\ Renaming(v, old, new, op.isdir)
  BY <1>1, <1>2, VolumeIs, NextVolume DEF TreeInv
<1>4. \/ op' = Goto("unlink old") /\ Linked(v, w, Namei(v, old), Pdir(v, new), Last(new))
      \/ op' = Goto("failed") /\ w.entry = v.entry /\ w.kind = v.kind
  BY <1>1, <1>2, LinkTree
<1>5. Aside(v, b, old, new) /\ Cleared(v, Seen(v), b, old, new)
  BY <1>1, <1>2 DEF Behind
<1>6. CASE op' = Goto("failed") /\ w.entry = v.entry /\ w.kind = v.kind
  <2>1. Behind' /\ Outside' = Seen(w) /\ Outside = b
    BY <1>1, <1>6, EndsAre, OnEnd, AtRest DEF Outside
  <2> HIDE DEF v, w, b, old, new
  <2>2. Seen(w) = Seen(v)
    BY <1>6, SeenSame DEF SameWays
  <2>3. Seen(v) = b \/ \E u : Drops(b, Seen(v), u)
    BY <1>5 DEF Cleared, Clears
  <2>4. InTreeStep
    BY <2>1, <2>2, <2>3, Stutters, RemovesStep
  <2> QED BY <2>1, <2>4 DEF Shown
<1>7. CASE op' = Goto("unlink old") /\ Linked(v, w, Namei(v, old), Pdir(v, new), Last(new))
  <2>1. "unlink old" \notin Ends /\ "unlink old" # "idle"
    BY DEF Ends
  <2>2. /\ op'.stage = "unlink old" /\ op'.new = new /\ op'.old = old /\ op'.before = b
        /\ InTreeStep
    BY <2>1, <1>1, <1>7, Progress
  <2> HIDE DEF v, w, b, old, new
  <2>3. Aside(w, b, old, new) /\ Cleared(w, Without(w, NameAt(w, new)), b, old, new)
    BY <1>2, <1>3, <1>5, <1>7, ClearedTwice
  <2> QED BY <2>2, <2>3, BehindOld DEF Shown, w
<1> QED BY <1>4, <1>6, <1>7

(* The old name removed: all that is seen of a rename is done. *)
LEMMA SeenMoved ==
  ASSUME NEW v, IsVolume(v), NEW w, IsVolume(w), InUse(w), NEW old \in Seq(Names), old # <<>>,
         NEW new \in Seq(Names), new # <<>>, NEW isdir, Twice(v, old, new, isdir),
         w.entry = Written(v.entry, Pdir(v, old), Last(old), 0), w.kind = v.kind,
         NEW b, Aside(v, b, old, new), Cleared(v, Without(v, NameAt(v, new)), b, old, new)
  PROVE  Renames(b, Seen(w))
<1> DEFINE i == Namei(v, old)
           c == Pdir(v, old)
           m == Last(old)
           d == Pdir(v, new)
           n == Last(new)
           t == <<c, m, i>>
           x == <<d, n, i>>
           a == Without(v, x)
<1>1. i \notin {0, ROOT} /\ Namei(v, new) = i /\ ~(c = d /\ m = n)
  BY DEF Twice
<1>2. /\ c \in Inos /\ m \in Names /\ v.entry[c][m] = i /\ i \in Inos \ {ROOT}
  BY <1>1, NameOf
<1>3. /\ d = Namei(v, Dirname(new)) /\ Dirname(new) \in Seq(Names) /\ d \in Inos /\ d # 0
      /\ v.kind[d] = "dir" /\ n \in Names /\ v.entry[d][n] = i
  BY <1>1, NameOf, NamesAre
<1>4. Rooted(v, d)
  BY <1>3, PathRooted
<1>5. NameAt(v, new) = x
  BY <1>1 DEF NameAt
<1>6. Clears(b, a, d, n, i) /\ Aloof(b, d, i)
  BY <1>3, <1>5 DEF Aside, Cleared
<1>7. w.entry = Written(v.entry, c, m, 0)
  OBVIOUS
<1> HIDE DEF i, c, m, d, n
<1>8. t \in NamesIn(v) /\ x \in NamesIn(v) /\ t # x
  BY <1>1, <1>2, <1>3, NamesInAre, NamesAre
<1>9. SameOrFreed(v, w, i)
  BY DEF SameOrFreed
<1>10. /\ NamesIn(w) = NamesIn(v) \ {t}
       /\ KindsIn(w) = Lost(Seen(v), t)
  BY <1>2, <1>7, <1>9, SeenDrops
<1>11. KindsIn(w) = KindsIn(v)
  <2>1. x \in Seen(v).tree \ {t} /\ x[3] = t[3]
    BY <1>8, SeenFields
  <2> QED BY <2>1, <1>10, SeenFields DEF Lost
<1>12. a.kind = KindsIn(v) /\ a.tree = NamesIn(v) \ {x}
  BY DEF Without
<1>13. KindsIn(v)[d] = "dir" /\ DOMAIN KindsIn(v) = Inos
  BY <1>3, <1>4, KindsInAre
<1>14. Untaken(a, d, n)
  <2>1. ASSUME NEW u \in NamesIn(v), u[1] = d, u[2] = n PROVE u = x
    BY <2>1, <1>3, NamesInAre, TripleIs
  <2> QED BY <2>1, <1>12 DEF Untaken
<1> HIDE DEF a
<1>15. a.tree \subseteq b.tree /\ x \notin b.tree /\ b.kind[d] = "dir"
  <2>1. CASE a = b
    BY <2>1, <1>12, <1>13
  <2>2. ASSUME NEW u \in b.tree, u[3] # i, Drops(b, a, u)
        PROVE  a.tree \subseteq b.tree /\ x \notin b.tree /\ b.kind[d] = "dir"
    <3>1. a.tree = b.tree \ {u} /\ a.kind = Lost(b, u)
      BY <2>2 DEF Drops
    <3>2. x \notin b.tree
      BY <3>1, <2>2, <1>12
    <3>3. a.kind = b.kind \/ a.kind = [b.kind EXCEPT ![u[3]] = "free"]
      BY <3>1 DEF Lost
    <3>4. a.kind[d] = "dir" /\ d \in DOMAIN a.kind
      BY <1>3, <1>12, <1>13
    <3>5. b.kind[d] = "dir"
      BY <3>3, <3>4
    <3> QED BY <3>1, <3>2, <3>5
  <2> QED BY <2>1, <2>2, <1>6 DEF Clears
<1>16. /\ t \in b.tree \ NamesIn(w) /\ x \in NamesIn(w) \ b.tree
       /\ NamesIn(w) = (a.tree \ {t}) \union {x}
  BY <1>8, <1>10, <1>12, <1>15
<1>17. x[1] = d /\ x[2] = n /\ x[3] = i /\ t[3] = i
  OBVIOUS
<1> HIDE DEF t, x
<1>18. Moves(b, Seen(w), t, x)
  BY <1>6, <1>11, <1>12, <1>14, <1>15, <1>16, <1>17, SeenFields DEF Moves
<1> QED BY <1>16, <1>18, SeenFields DEF Renames

LEMMA BehindMoved ==
  ASSUME op'.stage \in Reparents, Renames(op'.before, Seen(volume'))
  PROVE  Behind'
  BY DEF Behind, Mkdirs, Rmdirs, Reparents

LEMMA RenamesStep ==
  ASSUME NEW w, IsVolume(w), Outside' = Seen(w), Renames(Outside, Seen(w))
  PROVE  InTreeStep
<1>1. PICK t \in Outside.tree, x \in NamesIn(w) : Moves(Outside, Seen(w), t, x)
  BY SeenFields DEF Renames
<1>2. x \in Triples
  BY NamesInAre
<1> QED BY <1>1, <1>2, MovesStep

LEMMA RenameUnlinkOldShown ==
  ASSUME Inv, TreeInv, Behind, CountsFit, RenameUnlinkOld
  PROVE  Shown
<1> DEFINE v == volume
           w == volume'
           b == op.before
           old == op.old
           new == op.new
<1>1. /\ op.stage = "unlink old" /\ IsVolume(v) /\ Inv'
      /\ new \in Seq(Names) /\ new # <<>> /\ old \in Seq(Names) /\ old # <<>>
      /\ Twice(v, old, new, op.isdir)
      /\ op' = Goto(IF op.isdir THEN "reparent" ELSE "done")
      /\ w.entry = Written(v.entry, Pdir(v, old), Last(old), 0) /\ w.kind = v.kind
  BY OldUnlinked
<1>2. IsVolume(w) /\ InUse(w)
  BY <1>1, NextVolume
<1>3. Aside(v, b, old, new) /\ Cleared(v, Without(v, NameAt(v, new)), b, old, new)
  BY <1>1 DEF Behind
<1>4. Renames(b, Seen(w))
  <2> HIDE DEF v, w, b, old, new
  <2> QED BY <1>1, <1>2, <1>3, SeenMoved
<1>5. CASE ~op.isdir
  <2>1. Behind' /\ Outside' = Seen(w) /\ Outside = b
    BY <1>1, <1>5, EndsAre, OnEnd, AtRest DEF Outside
  <2> QED BY <2>1, <1>2, <1>4, RenamesStep DEF Shown
<1>6. CASE op.isdir
  <2>1. op' = Goto("reparent") /\ "reparent" \notin Ends /\ "reparent" # "idle"
    BY <1>1, <1>6 DEF Ends
  <2>2. op'.stage = "reparent" /\ op'.before = b /\ InTreeStep
    BY <2>1, <1>1, Progress
  <2> QED BY <2>2, <1>4, BehindMoved DEF Shown, Reparents
<1> QED BY <1>5, <1>6

(* v6fs_reparentdir changes nothing that is seen. *)
LEMMA MovedOn ==
  ASSUME Inv, Behind, op.stage \in Reparents, op'.stage \in Reparents, op'.before = op.before,
         SameWays(volume, volume')
  PROVE  Shown
<1>1. op.stage # "idle" /\ op'.stage # "idle"
  BY DEF Reparents
<1>2. Outside' = Outside
  BY <1>1 DEF Outside
<1>3. Renames(op.before, Seen(volume'))
  BY SeenSame DEF Behind
<1> QED BY <1>2, <1>3, BehindMoved, Stutters DEF Shown

LEMMA MovedAll ==
  ASSUME Inv, Behind, Inv', op.stage \in Reparents, op' = Goto("done"),
         SameWays(volume, volume')
  PROVE  Shown
<1>1. Behind' /\ Outside' = Seen(volume')
  BY EndsAre, OnEnd, AtRest
<1>2. Outside = op.before /\ IsVolume(volume')
  BY NextVolume DEF Outside, Reparents
<1>3. Renames(op.before, Seen(volume'))
  BY SeenSame DEF Behind
<1> QED BY <1>1, <1>2, <1>3, RenamesStep DEF Shown

LEMMA ReparentShown ==
  ASSUME Inv, TreeInv, Behind, Inv', Reparent
  PROVE  Shown
<1>1. op.stage = "reparent" /\ op.stage \in Reparents /\ SameWays(volume, volume')
  BY DEF Reparent, Reparents, SameWays, volume
<1>2. IsVolume(volume) /\ Moving(volume, op.new)
  BY <1>1, InReparent
<1>3. PICK s : Moved = s /\ s \in Inos \ {ROOT} /\ entry[s][".."] \in Inos
  BY <1>2 DEF Moving, Moved, volume
<1> DEFINE old == entry[s][".."]
<1>4. old # 0 /\ s # 0
  BY <1>3, NamesAre
<1>5. \/ op' = Goto("done")
      \/ op' = [op EXCEPT !.stage = "reparent ..", !.parent = old]
  BY <1>3, <1>4 DEF Reparent
<1>6. CASE op' = Goto("done")
  BY <1>1, <1>6, MovedAll
<1>7. CASE op' = [op EXCEPT !.stage = "reparent ..", !.parent = old]
  <2>1. op'.stage = "reparent .." /\ op'.before = op.before
    BY <1>1, <1>7 DEF Inv, InCall
  <2>2. op'.stage \in Reparents
    BY <2>1 DEF Reparents
  <2> QED BY <2>1, <2>2, <1>1, MovedOn
<1> QED BY <1>5, <1>6, <1>7

LEMMA ReparentDotDotShown ==
  ASSUME Inv, TreeInv, Behind, ReparentDotDot
  PROVE  Shown
<1>1. /\ op.stage = "reparent .." /\ op.stage \in Reparents /\ op' = Goto("reparent +")
      /\ volume'.entry = Written(volume.entry, Moved, "..", NewParent)
      /\ volume'.kind = volume.kind
  BY DEF ReparentDotDot, Reparents, Written, volume
<1>2. "reparent +" \notin Ends /\ "reparent +" # "idle" /\ op.stage # "idle"
  BY <1>1 DEF Ends
<1>3. op'.stage = "reparent +" /\ op'.before = op.before
  BY <1>1, <1>2, Progress
<1>4. op'.stage \in Reparents
  BY <1>3 DEF Reparents
<1>5. IsVolume(volume) /\ Moved \in Inos
  BY <1>1, VolumeIs DEF Inv, Reparenting
<1>6. ".." \in DotNames
  BY DEF DotNames
<1>7. SameWays(volume, volume')
  BY <1>1, <1>5, <1>6, PutsSame DEF Puts
<1> QED BY <1>1, <1>3, <1>4, <1>7, MovedOn

LEMMA ReparentCountShown ==
  ASSUME Inv, TreeInv, Behind, Inv', CountsFit, ReparentCount
  PROVE  Shown
<1>1. /\ op.stage \in Reparents /\ op' = Goto("done")
  BY DEF ReparentCount, Reparents
<1>2. volume'.kind = volume.kind /\ volume'.entry = volume.entry
  BY CountedSame
<1> QED BY <1>1, <1>2, MovedAll DEF SameWays

LEMMA InitShown ==
  ASSUME Init
  PROVE  Behind /\ FT!Init
<1>1. op.stage = "idle"
  BY DEF Init, Idle
<1>2. Behind
  BY <1>1 DEF Behind, Mkdirs, Rmdirs, Reparents
<1>3. IsVolume(volume)
  BY InitInv, VolumeIs
<1>4. Outside = Seen(volume)
  BY <1>1, <1>3, VisibleIs DEF Outside
<1>5. ASSUME NEW d \in Inos, NEW n \in Names PROVE volume.entry[d][n] = 0
  BY NamesAre DEF Init, volume
<1>6. NamesIn(volume) = {}
  <2>1. ASSUME NEW t \in NamesIn(volume) PROVE FALSE
    BY <1>3, <1>5, NamesInAre, TripleIs, NamesAre
  <2> QED BY <2>1
<1>7. volume.kind = [i \in Inos |-> IF i = ROOT THEN "dir" ELSE "free"]
  BY DEF Init, volume
<1>8. KindsIn(volume) = [i \in Inos |-> IF i = ROOT THEN "dir" ELSE "free"]
  BY <1>7 DEF KindsIn, Rooted
<1> QED BY <1>2, <1>4, <1>6, <1>8, SeenFields DEF FT!Init

LEMMA NextShown ==
  ASSUME Inv, TreeInv, Behind, Inv', CountsFit, [Next]_vars
  PROVE  Shown
<1>1. CASE UNCHANGED vars
  <2>1. volume' = volume /\ op' = op /\ Visible' = Visible
    BY <1>1 DEF vars, volume, Visible, Tree
  <2>2. Outside' = Outside
    BY <2>1 DEF Outside
  <2>3. Behind'
    BY <2>1 DEF Behind
  <2> QED BY <2>2, <2>3, Stutters DEF Shown
<1>2. CASE Call
  <2>1. ASSUME NEW p \in Paths,
               Mknod(p) \/ UnlinkFile(p) \/ Mkdir(p) \/ Rmdir(p)
                 \/ \E q \in Paths : LinkFile(p, q) \/ Rename(p, q)
        PROVE  Shown
    BY <2>1, MknodShown, UnlinkFileShown, MkdirShown, RmdirShown, LinkFileShown, RenameShown
  <2>2. CASE MkdirDot \/ MkdirDotDot \/ UndoDotDot \/ UndoDot \/ Undo
    BY <2>2, MkdirDotShown, MkdirDotDotShown, UndoDotDotShown, UndoDotShown, UndoShown
  <2>3. CASE RmdirDotDot \/ RmdirDot \/ RmdirDir
    BY <2>3, RmdirDotDotShown, RmdirDotShown, RmdirDirShown
  <2>4. CASE RenameUnlinkNew \/ RenameLink \/ RenameUnlinkOld
    BY <2>4, RenameUnlinkNewShown, RenameLinkShown, RenameUnlinkOldShown
  <2>5. CASE Reparent \/ ReparentDotDot \/ ReparentCount
    BY <2>5, ReparentShown, ReparentDotDotShown, ReparentCountShown
  <2> QED BY <2>1, <2>2, <2>3, <2>4, <2>5, <1>2 DEF Call
<1> QED BY <1>1, <1>2 DEF Next

(* v6fs.c makes mkdir, rmdir and rename of system calls that fail one by   *)
(* one.  Seen from outside each of its calls still takes effect at once or *)
(* not at all, in a tree: no name is lost, no directory comes under itself *)
(* and nothing that a failed mkdir began is left; all that a failed rename *)
(* may have done is to remove what had the new name.                       *)
THEOREM NamespaceIsAFileTree == Spec /\ []CountsFit => IsAFileTree
<1>1. Init => Inv /\ TreeInv /\ Behind /\ FT!Init
  BY InitInv, InitTree, InitShown
<1>2. Inv /\ TreeInv /\ Behind /\ CountsFit /\ [Next]_vars =>
        Inv' /\ TreeInv' /\ Behind' /\ [FT!Next]_(FT!vars)
  BY NextInv, NextTree, NextShown DEF Shown, InTreeStep
<1> QED BY <1>1, <1>2, PTL DEF Spec, IsAFileTree, FT!Spec
=============================================================================
