----------------------------- MODULE MCDirBlocks -----------------------------
(* Model checking of DirBlocks: names of three sizes; inodes, and names of *)
(* one size, are symmetric.                                                *)
EXTENDS DirBlocks

CONSTANTS na, nb, nc, nd

MCSize ==
  [n \in Names \union Dots |->
     CASE n \in {".", na} -> 2 [] n \in {"..", nb} -> 3 [] n \in {nc, nd} -> 4]

MCSymmetry == Permutations(Inos) \union Permutations({nc, nd})
==============================================================================
