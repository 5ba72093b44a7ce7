------------------------------- MODULE FreeSet -------------------------------
(***************************************************************************)
(* What the free-block allocator of a mounted volume promises its callers: *)
(* a set of free blocks, from which alloc takes any member and to which    *)
(* free returns one.  An allocation fails only when the set is empty, and  *)
(* a block handed out is nobody else's until it is freed.                  *)
(***************************************************************************)
CONSTANTS Blocks,        \* the data blocks of the volume
          NULL,          \* the answer of an allocation that fails (ENOSPC)
          NONE           \* the last operation was not an allocation

VARIABLES avail,         \* the free blocks
          result         \* the answer of the last operation

vars == <<avail, result>>

Init == avail = {} /\ result = NONE

Alloc(b) ==
  /\ b \in avail
  /\ avail' = avail \ {b}
  /\ result' = b

NoSpace ==
  /\ avail = {}
  /\ result' = NULL
  /\ UNCHANGED avail

Free(b) ==
  /\ b \notin avail
  /\ avail' = avail \union {b}
  /\ result' = NONE

(* Writing data, syncing, remounting or freeing a bad number frees nothing. *)
Other == result' = NONE /\ UNCHANGED avail

Next ==
  \/ \E b \in Blocks : Alloc(b) \/ Free(b)
  \/ NoSpace
  \/ Other

Spec == Init /\ [][Next]_vars
==============================================================================
