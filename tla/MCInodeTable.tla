---------------------------- MODULE MCInodeTable ----------------------------
(* An instance of InodeTable for TLC: crashes and read errors of V6, read  *)
(* errors of the BSDs, whose superblock has more to it.                    *)
EXTENDS InodeTable

MCMayHappen ==
  [k \in Kernels |-> IF k = "v6" THEN {"crash", "read error"} ELSE {"read error"}]
=============================================================================
