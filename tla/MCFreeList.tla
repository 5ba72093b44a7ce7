----------------------------- MODULE MCFreeList ------------------------------
(***************************************************************************)
(* Small volumes for TLC: four data blocks with two slots in the           *)
(* superblock, so that the chain is empty, one and two index blocks long.  *)
(***************************************************************************)
EXTENDS FreeListBSD

(* Data that looks like an index block of a longer list.                   *)
MCJunk ==
  LET to(b) == [i \in Slots |-> b]
  IN {[n |-> NICFREE, f |-> to(s_fsize - 1)]}
==============================================================================
