----------------------------- MODULE MCNamespace -----------------------------
(***************************************************************************)
(* Instances of Namespace for TLC: the inodes but the root, and the names, *)
(* are interchangeable.                                                    *)
(***************************************************************************)
EXTENDS Namespace, TLC

CONSTANTS MaxUsedFull,     \* bound: inodes in use on a volume that may be full
          MaxSurplus       \* bound: links that its failed links left behind

MCSmallWhenFull ==
  full => /\ Cardinality({i \in Inos : kind[i] # "free"}) <= MaxUsedFull
          /\ FoldSet(LAMBDA i, n : n + nlink[i] - Cardinality(EntriesOf(i)), 0, Inos) <= MaxSurplus

MCSymmetry == Permutations(Inos \ {ROOT}) \union Permutations(Names)
==============================================================================
