------------------------------ MODULE MCFileIO ------------------------------
(* Model checking of FileIO: its blocks and its inodes are symmetric.      *)
EXTENDS FileIO, TLC

CONSTANTS b1, b2, i1, i2

MCBlocks == {b1, b2}

MCFlags == {{"r", "w"}}

MCInos == {i1, i2}

MCSymmetry == Permutations(MCBlocks) \union Permutations(MCInos)
=============================================================================
