-------------------------------- MODULE IdMap --------------------------------
(***************************************************************************)
(* The table that relates the user (or group) ids of the host to those of  *)
(* a filesystem: idmap.c, and the inline functions by which each           *)
(* filesystem narrows what the table answers to the type its inodes keep   *)
(* an id in and widens it again.                                           *)
(*                                                                         *)
(* The table is filled while the command line is read; the answers then    *)
(* follow from it.                                                         *)
(***************************************************************************)
EXTENDS Integers, Sequences, SequencesExt

CONSTANTS HostRange,     \* host ids are below this (2^32)
          Width,         \* what an inode keeps, a signed type, has this many values
          MaxFsid,       \* maxfsid, and defaultfsid
          DefaultHost,   \* defaulthostid, nobody (65534)
          INC,           \* MAP_SIZE_INC (128)
          MaxEntries     \* bound: mappings of a command line

HostIds == 0 .. HostRange - 1

VARIABLES entries,       \* <<host id, filesystem id>>; its length is entrycount
          size           \* entries there is memory for

RoomAtMultiple == (Len(entries) + 1) % INC = 0      \* mutant: one entry late

NeedsRoom == Len(entries) % INC = 0

(* idmap_addidmap.  retrofuse_parsemapopt lets no greater fsid through. *)
AddIdMap(hostid, fsid) ==
  /\ Len(entries) < MaxEntries
  /\ fsid <= MaxFsid
  /\ size' = IF NeedsRoom THEN Len(entries) + INC ELSE size
  /\ entries' = Append(entries, <<hostid, fsid>>)

Init == entries = <<>> /\ size = 0

-----------------------------------------------------------------------------
(* The first entry whose k-th part is id, or 0 *)
First(k, id) == SelectInSeq(entries, LAMBDA e : e[k] = id)

(* idmap_tofsid *)
ToFsid(hostid) ==
  CASE First(1, hostid) # 0                              -> entries[First(1, hostid)][2]
    [] First(1, hostid) = 0 /\ hostid \in 0 .. MaxFsid   -> hostid
    [] OTHER                                             -> MaxFsid

(* Mutant: the id that stands for nobody is an id like others. *)
ToHostidMax(fsid) ==
  CASE First(2, fsid) # 0                                -> entries[First(2, fsid)][1]
    [] First(2, fsid) = 0 /\ fsid \in 0 .. MaxFsid       -> fsid
    [] OTHER                                             -> DefaultHost

(* idmap_tohostid *)
ToHostid(fsid) ==
  CASE First(2, fsid) # 0                                -> entries[First(2, fsid)][1]
    [] First(2, fsid) = 0 /\ fsid \in 0 .. MaxFsid - 1   -> fsid
    [] OTHER                                             -> DefaultHost

(* v6fs_maphostuid and its like narrow the answer to what an inode keeps;  *)
(* v6fs_mapv6uid and its like widen that, sign and all.                    *)
Narrow(fsid) == IF fsid >= Width \div 2 THEN fsid - Width ELSE fsid
Widen(n) == n % HostRange

(* The owner stat shows of a file that hostid made *)
Shown(hostid) == ToHostid(Widen(Narrow(ToFsid(hostid))))

-----------------------------------------------------------------------------
(* Properties.                                                             *)

(* No entry is written outside the memory there is for it. *)
TypeOK ==
  /\ entries \in Seq(HostIds \X (0 .. MaxFsid))
  /\ Len(entries) <= size

(* What an inode keeps as it is.  V6's maxfsid is 255, and its inodes keep *)
(* a signed char: the ids from 128 on come back as ids there are not.      *)
Keeps(fsid) == fsid < Width \div 2

(* The usage text of v6fuse.c, "The id mapping applies both ways": a       *)
(* mapping that no earlier one has a part of gives a file that its host id *)
(* made its filesystem id, and shows that host id as the owner -- if the   *)
(* inode keeps the id.                                                     *)
AppliesBothWays ==
  \A i \in 1 .. Len(entries) :
    LET h == entries[i][1]
        f == entries[i][2] IN
    (\A j \in 1 .. i - 1 : entries[j][1] # h /\ entries[j][2] # f) =>
      ToFsid(h) = f /\ (Keeps(f) => Shown(h) = h)

(* An id that no mapping names, on either side, is the same on both sides  *)
(* if the filesystem can keep it, and is shown as nobody if it cannot --   *)
(* unless a mapping has taken the id that stands for nobody.               *)
OthersUnchanged ==
  \A h \in HostIds :
    First(1, h) = 0 /\ First(2, h) = 0 /\ First(2, MaxFsid) = 0 =>
      Shown(h) = IF h < MaxFsid /\ Keeps(h) THEN h ELSE DefaultHost

(* Both: what chown stores is what stat shows, for every id there is. *)
IdsAgree == AppliesBothWays /\ OthersUnchanged
=============================================================================
