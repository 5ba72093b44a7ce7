------------------------------- MODULE Startup -------------------------------
(***************************************************************************)
(* main: the options of the command line, which fill the tables of id      *)
(* mappings, and then, with -o initfs, the free list of a new volume.      *)
(*                                                                         *)
(* The two do not meet: a table is of use when the first call comes.  So   *)
(* initfs is only followed from tables of few mappings.  The tables of     *)
(* user and of group ids are alike, and one is kept.                       *)
(***************************************************************************)
EXTENDS Integers, Sequences

CONSTANTS HostRange, Width, MaxFsid, DefaultHost, INC, MaxEntries,
          Releases, MaxSize, MaxN,
          MaxMapped      \* bound: mappings of a command line that has initfs

ASSUME StartupAssumption ==
  /\ HostRange \in Nat \ {0} /\ Width \in Nat \ {0} /\ Width % 2 = 0
  /\ MaxFsid \in 0 .. Width - 1 /\ Width < HostRange
  /\ MaxFsid < HostRange - Width \div 2  \* a negative id is none that is mapped
  /\ DefaultHost \in MaxFsid + 1 .. HostRange - 1
  /\ INC \in Nat \ {0} /\ MaxEntries \in Nat /\ MaxMapped \in Nat
  /\ Releases \subseteq {"v6", "v7"} /\ MaxSize \in Nat /\ MaxSize >= 4
  /\ MaxN \in Nat \ {0}

VARIABLES
  stage,                 \* "options", "initfs", "mounted", "exit"
  entries, room,
  release, n, m, low, size, phase, i, j, freed

Ids  == INSTANCE IdMap WITH size <- room
Mkfs == INSTANCE InitFreeList

ids  == <<entries, room>>
list == <<release, n, m, low, size, phase, i, j, freed>>

Init == stage = "options" /\ Ids!Init /\ Mkfs!Init

(* retrofuse_parsemapopt, for ids in range                                 *)
MapOption ==
  /\ stage = "options"
  /\ \E hostid \in Ids!HostIds, fsid \in 0 .. MaxFsid : Ids!AddIdMap(hostid, fsid)
  /\ UNCHANGED <<stage, list>>

(* An option that makes no sense, a mapping out of range, a missing        *)
(* argument, a call for help, parameters of initfs that do not fit, or a   *)
(* disk that cannot be opened.                                             *)
Leave == stage = "options" /\ stage' = "exit" /\ UNCHANGED <<ids, list>>

InitFs ==
  /\ stage = "options" /\ Len(entries) <= MaxMapped
  /\ stage' = "initfs" /\ Mkfs!Begin /\ UNCHANGED ids

FreeNext == stage = "initfs" /\ Mkfs!Next /\ UNCHANGED <<stage, ids>>

(* The volume is mounted when it is there; any step to that may fail.      *)
Mount ==
  /\ stage = "options" \/ (stage = "initfs" /\ phase = "done")
  /\ stage' \in {"mounted", "exit"} /\ UNCHANGED <<ids, list>>

Next == MapOption \/ Leave \/ InitFs \/ FreeNext \/ Mount

Spec == Init /\ [][Next]_<<stage, ids, list>>

-----------------------------------------------------------------------------
(* The properties of the two, of this program.                             *)

(* No mapping is written outside the memory of its table.                  *)
TypeOK == Ids!TypeOK

(* What chown stores is what stat shows, for every id there is.            *)
IdsAgree == Ids!IdsAgree

(* mkfs frees each data block once, but for the one left out.              *)
FreedOnce == Mkfs!FreedOnce
==============================================================================
