----------------------------- MODULE MCNames211 -----------------------------
(* Model checking of Names211: inodes but the root, slots but the root's   *)
(* and names are symmetric.  Failed calls leave links behind, up to a few. *)
EXTENDS Names211, TLC

CONSTANT MaxSurplus      \* bound: links that no name accounts for

MCLinks(i) == Cardinality(Named(i))
   + (IF kind[i] = "dir" /\ nlink[i] > 0 THEN 1 + Cardinality({n \in Names : entry[i][n] # 0 /\ kind[entry[i][n]] = "dir"}) ELSE 0)
   + (IF i = ROOT THEN 1 ELSE 0)

MCFewLinks == FoldSet(LAMBDA i, n : n + nlink[i] - MCLinks(i), 0, Inos) <= MaxSurplus

MCSymmetry ==
  Permutations(Inos \ {ROOT}) \union Permutations(Slots \ {rootslot})
    \union Permutations(Names)
=============================================================================
