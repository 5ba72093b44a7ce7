----------------------------- MODULE BlockStore -----------------------------
(***************************************************************************)
(* What the buffer cache promises the filesystem code above it: a memory   *)
(* of blocks, mem, over a disk that follows it.  A read answers what was   *)
(* stored last; a write through that succeeds is on the disk when it       *)
(* returns; after a sync nothing is waiting to be written; a crash leaves  *)
(* what the disk holds.  In the step in which the disk refuses a write, and *)
(* in no other, the block falls back to what the disk holds; a read that   *)
(* the disk refuses answers an error and changes nothing.                  *)
(***************************************************************************)
CONSTANTS Blocks, Values,
          NONE,          \* the last step answers nothing
          OK, EIO,       \* the answers of a write through and a sync
          ReadsFail      \* the disk may refuse a read

VARIABLES mem,           \* what a read answers, for each block
          disk,          \* what a crash leaves, for each block
          answer         \* the last answer given, <<kind, block, value>>, or NONE;
                         \* <<"lost", b, EIO>> is a write that fails unheard

vars == <<mem, disk, answer>>

Init == \E v \in Values : /\ mem = [b \in Blocks |-> v]
                          /\ disk = mem
                          /\ answer = NONE

Read(b) ==
  /\ answer' = <<"read", b, mem[b]>>
  /\ UNCHANGED <<mem, disk>>

ReadFails(b) ==
  /\ ReadsFail
  /\ answer' = <<"read", b, EIO>>
  /\ UNCHANGED <<mem, disk>>

(* Stored in memory only (bdwrite). *)
Store(b, v) ==
  /\ mem' = [mem EXCEPT ![b] = v]
  /\ answer' = NONE
  /\ UNCHANGED disk

WriteThrough(b, v) ==
  /\ mem' = [mem EXCEPT ![b] = v]
  /\ disk' = [disk EXCEPT ![b] = v]
  /\ answer' \in {<<"write", b, OK>>, NONE}

(* A stored block reaches the disk in the cache's own time. *)
Flush(b) ==
  /\ disk' = [disk EXCEPT ![b] = mem[b]]
  /\ answer' = NONE
  /\ UNCHANGED mem

Lose(b) ==
  /\ mem' = [mem EXCEPT ![b] = disk[b]]
  /\ answer' \in {<<"write", b, EIO>>, <<"lost", b, EIO>>}
  /\ UNCHANGED disk

Sync ==
  /\ mem = disk
  /\ answer' \in {<<"sync", NONE, OK>>, <<"sync", NONE, EIO>>}
  /\ UNCHANGED <<mem, disk>>

Crash ==
  /\ mem' = disk
  /\ answer' = NONE
  /\ UNCHANGED disk

(* A step that concerns the cache alone. *)
Quiet == answer' = NONE /\ UNCHANGED <<mem, disk>>

Next ==
  \/ \E b \in Blocks : \/ Read(b) \/ ReadFails(b) \/ Flush(b) \/ Lose(b)
                       \/ \E v \in Values : Store(b, v) \/ WriteThrough(b, v)
  \/ Sync
  \/ Crash
  \/ Quiet

Spec == Init /\ [][Next]_vars
==============================================================================
