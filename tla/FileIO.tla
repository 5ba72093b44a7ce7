------------------------------- MODULE FileIO -------------------------------
(***************************************************************************)
(* Open files: the calls of v6fs.c, v7fs.c, bsd29fs.c and bsd211fs.c that  *)
(* open, close, read, write and truncate files, over open1 and rdwr (sys2),*)
(* getf, falloc and closef (fio.c), readi and writei (rdwri.c) and         *)
(* iput; in 2.11BSD over copen, rwuio, rwip and itrunc.                    *)
(*                                                                         *)
(* kernel says whose they are.  They differ in what a hole is: V6's bmap   *)
(* allocates the block it is asked for even to read it, the others only to *)
(* write; in the width of offsets and sizes; in what writei does at bmap's *)
(* 0 for a block beyond the largest file: V6's and 2.11BSD's stop, V7's    *)
(* and 2.9BSD's go on; and in where a file can be cut: at 0, or anywhere   *)
(* in 2.11BSD, which also looks for a descriptor first.                    *)
(*                                                                         *)
(* A read or write is a record, call: a loop of rdwr calls of at most      *)
(* Chunk bytes each, and each of those a loop over blocks that may find    *)
(* the volume full, the file too big or the disk unreadable.  Where a      *)
(* file's block numbers are kept is FileMap's matter: here it has a map    *)
(* from logical blocks to blocks.  NFILE is larger than NOFILE, and with   *)
(* one process no file structure is shared: a descriptor stands for its.   *)
(***************************************************************************)
EXTENDS Integers, FiniteSets, Sequences, FiniteSetsExt, Functions

CONSTANTS Kernels,       \* the kernels looked at: "v6", "v7", "29", "211"
          Inos, Names,
          NOFILE,        \* descriptors (15 in V6, 20 in V7)
          Blocks,        \* the data blocks
          BSIZE,         \* bytes of a block (512)
          BnRange,       \* what V6's int16_t block number wraps at (65536)
          MaxBlocks,     \* blocks of the largest V7 file
          MaxSeek,       \* the largest offset (INT32_MAX)
          Chunk,         \* bytes of one rdwr (65535, not a multiple of BSIZE)
          Bytes,         \* what is written
          MaxCount,      \* bound: the longest call
          Flags,         \* bound: the modes files are opened with
          ReadFails,     \* the disk may fail to read
          Wide           \* calls are made beyond the reach of the numbers

ASSUME FileIOAssumption ==
  /\ Kernels \subseteq {"v6", "v7", "29", "211"}
  /\ IsFiniteSet(Inos) /\ 0 \notin Inos /\ IsFiniteSet(Blocks) /\ 0 \notin Blocks
  /\ {NOFILE, BSIZE, BnRange, MaxBlocks, Chunk, MaxCount} \subseteq Nat \ {0}
  /\ BnRange % 2 = 0 /\ MaxSeek \in Nat /\ MaxSeek >= MaxBlocks * BSIZE
  /\ Bytes \subseteq Nat /\ Flags \subseteq SUBSET {"r", "w"}
  /\ ReadFails \in BOOLEAN /\ Wide \in BOOLEAN

FDs == 0 .. NOFILE - 1
Bns == 0 .. Max({BnRange \div 2, MaxBlocks}) - 1

(* A V6 size has 24 bits; a V6 block number 15 and a sign. *)
SizeRange == (BnRange \div 2) * BSIZE

VARIABLES
  kernel,
  name,      \* the inode of each name, 0 if none
  inode,     \* i_mode # 0, i_nlink, i_count, i_size, i_addr
  data,      \* the contents of each block
  avail,     \* the free blocks
  ofile,     \* u_ofile and the file structures: inode and f_flag
  call       \* the read or write in progress, f_offset with it

vars == <<kernel, name, inode, data, avail, ofile, call>>

ZeroBlock == [k \in 0 .. BSIZE - 1 |-> 0]
NoBlocks == [bn \in Bns |-> 0]
FreeInode == [used |-> FALSE, nlink |-> 0, count |-> 0, size |-> 0, addr |-> NoBlocks]
Closed == [ino |-> 0, flag |-> {}]
Idle == [stage |-> "idle", op |-> "none", fd |-> 0, left |-> 0, count |-> 0,
         f_offset |-> 0, offset |-> 0, byte |-> 0, got |-> <<>>, ok |-> TRUE, before |-> <<>>,
         at |-> 0]

-----------------------------------------------------------------------------
(* Inodes.                                                                 *)
BlocksOf(ip) == Range(ip.addr) \ {0}

(* itrunc *)
Trunc(ip) == [ip EXCEPT !.size = 0, !.addr = NoBlocks]

IputKeepsBlocks(I, A, i) ==    \* mutant: the blocks of a removed file are kept
  /\ inode' = [I EXCEPT ![i] = IF @.nlink <= 0 /\ @.count = 1 THEN FreeInode
                               ELSE [@ EXCEPT !.count = @ - 1]]
  /\ avail' = A

(* iput of inode i, the inodes being I and the free blocks A *)
Iput(I, A, i) ==
  \/ /\ I[i].count = 1 /\ I[i].nlink <= 0
     /\ inode' = [I EXCEPT ![i] = FreeInode]
     /\ avail' = A \union BlocksOf(I[i])
  \/ /\ ~(I[i].count = 1 /\ I[i].nlink <= 0)
     /\ inode' = [I EXCEPT ![i].count = @ - 1]
     /\ avail' = A

Iget(i) == [inode EXCEPT ![i].count = @ + 1]

-----------------------------------------------------------------------------
(* The calls on names.                                                     *)
Mknod(n, i) ==
  /\ call = Idle
  /\ name[n] = 0 /\ ~inode[i].used
  /\ name' = [name EXCEPT ![n] = i]
  /\ inode' = [inode EXCEPT ![i].used = TRUE, ![i].nlink = 1]
  /\ UNCHANGED <<kernel, data, avail, ofile, call>>

Unlink(n) ==
  /\ call = Idle
  /\ name[n] # 0
  /\ name' = [name EXCEPT ![n] = 0]
  /\ Iput([Iget(name[n]) EXCEPT ![name[n]].nlink = @ - 1], avail, name[n])
  /\ UNCHANGED <<kernel, data, ofile, call>>

(* v6fs_truncate: any length but 0 is refused before anything is done.     *)
Truncate(n) ==
  /\ kernel # "211"
  /\ call = Idle
  /\ name[n] # 0
  /\ LET i == name[n] IN
       Iput([Iget(i) EXCEPT ![i] = Trunc(@)], avail \union BlocksOf(inode[i]), i)
  /\ UNCHANGED <<kernel, name, data, ofile, call>>

(* 2.11BSD's itrunc of an inode to a length.  The block at which it cuts   *)
(* is cleared from there on, "in case it ever become accessable again".    *)
BlockAt(ip, bn) == IF bn \in Bns THEN ip.addr[bn] ELSE 0

TailKept(b, from) == data      \* mutant: the tail is not cleared

TailCleared(b, from) ==
  [data EXCEPT ![b] = [k \in 0 .. BSIZE - 1 |-> IF k < from THEN @[k] ELSE 0]]

(* The block the new end is in, which must be there: the last byte of a    *)
(* file that grows, or the bytes left of a block that is cut.              *)
EndBlock(ip, len) == IF ip.size < len THEN (len - 1) \div BSIZE ELSE len \div BSIZE

NeedsEnd(ip, len) == ip.size < len \/ (ip.size > len /\ len % BSIZE # 0)

Cut(ip, len) ==
  [ip EXCEPT !.size = len,
             !.addr = [bn \in Bns |-> IF ip.size <= len \/ bn * BSIZE < len
                                     THEN @[bn] ELSE 0]]

(* itrunc allocates that block, b, when there is none; when it cannot,     *)
(* cannot read the one there is, or there can be none so far out, it       *)
(* changes nothing.                                                        *)
TruncateTo(n, len) ==
  /\ kernel = "211"
  /\ call = Idle
  /\ name[n] # 0
  /\ \E b \in avail \union {0} :
       LET i == name[n]
           old == inode[i]
           end == EndBlock(old, len)
           ended == IF b = 0 THEN old ELSE [old EXCEPT !.addr[end] = b] IN
         /\ NeedsEnd(old, len) => end < MaxBlocks
         /\ b # 0 <=> NeedsEnd(old, len) /\ BlockAt(old, end) = 0
         /\ inode' = [inode EXCEPT ![i] = Cut(ended, len)]
         /\ avail' = (avail \ {b}) \union (BlocksOf(ended) \ BlocksOf(Cut(ended, len)))
         /\ data' = IF b # 0 THEN [data EXCEPT ![b] = ZeroBlock]
                    ELSE IF NeedsEnd(old, len) /\ old.size > len
                         THEN TailCleared(old.addr[end], len % BSIZE)
                         ELSE data
  /\ UNCHANGED <<kernel, name, ofile, call>>

-----------------------------------------------------------------------------
(* open and close.                                                         *)
Unused == {fd \in FDs : ofile[fd] = Closed}

OpenKeepsCount(n, flag, trunc, granted) ==   \* mutant: a failed open keeps its inode
  /\ call = Idle
  /\ name[n] # 0
  /\ inode' = Iget(name[n])
  /\ ofile' = IF granted /\ Unused # {}
              THEN [ofile EXCEPT ![Min(Unused)] =
                      [ino |-> name[n], flag |-> flag]]
              ELSE ofile
  /\ UNCHANGED <<kernel, name, data, avail, call>>

(* open1: the file is emptied before a descriptor is looked for; whoever   *)
(* got no file gives the inode back.                                       *)
Open(n, flag, trunc, granted) ==
  /\ kernel # "211"
  /\ call = Idle
  /\ name[n] # 0
  /\ LET i == name[n]
         empties == trunc /\ granted
         I == IF empties THEN [Iget(i) EXCEPT ![i] = Trunc(@)] ELSE Iget(i)
         A == IF empties THEN avail \union BlocksOf(inode[i]) ELSE avail IN
       \/ /\ granted /\ Unused # {}
          /\ ofile' = [ofile EXCEPT ![Min(Unused)] =
                         [ino |-> i, flag |-> flag]]
          /\ inode' = I /\ avail' = A
       \/ /\ ~granted \/ Unused = {}
          /\ Iput(I, A, i)
          /\ UNCHANGED ofile
  /\ UNCHANGED <<kernel, name, data, call>>

(* copen has a descriptor before it looks for the file: an open that fails *)
(* changes nothing, and bsd211fs_open passes no more than the access mode. *)
OpenDescriptorFirst(n, flag, granted) ==
  /\ kernel = "211"
  /\ call = Idle
  /\ name[n] # 0 /\ Unused # {}
  /\ \/ /\ granted
        /\ ofile' = [ofile EXCEPT ![Min(Unused)] = [ino |-> name[n], flag |-> flag]]
        /\ inode' = Iget(name[n]) /\ UNCHANGED avail
     \/ /\ ~granted
        /\ Iput(Iget(name[n]), avail, name[n])
        /\ UNCHANGED ofile
  /\ UNCHANGED <<kernel, name, data, call>>

Close(fd) ==
  /\ call = Idle
  /\ ofile[fd] # Closed
  /\ ofile' = [ofile EXCEPT ![fd] = Closed]
  /\ Iput(inode, avail, ofile[fd].ino)
  /\ UNCHANGED <<kernel, name, data, call>>

-----------------------------------------------------------------------------
(* The contents of an inode, as a read of its bytes finds them.            *)
ByteAt(ip, k) ==
  LET b == IF k \div BSIZE \in Bns THEN ip.addr[k \div BSIZE] ELSE 0
  IN IF b = 0 THEN 0 ELSE data[b][k % BSIZE]

Text(i) == [k \in 1 .. inode[i].size |-> ByteAt(inode[i], k - 1)]

(* What wraps: a V6 size that reaches 24 bits, and an offset past the last *)
(* block number; in the BSDs, a write past the largest offset.             *)
Wraps(op, off, n) ==
  \/ /\ kernel = "v6"
     /\ off < SizeRange => off + n >= SizeRange
     /\ off >= SizeRange => off >= 2 * SizeRange
  \/ kernel \in {"29", "211"} /\ op = "write" /\ off <= MaxSeek /\ off + n > MaxSeek

Finish(c, ok) == [c EXCEPT !.stage = "done", !.ok = ok, !.left = 0, !.count = 0]

Needs(op) == IF op = "read" THEN "r" ELSE "w"

(* The loop of v6fs_read and v6fs_write: the next rdwr of call c, if any.  *)
Rdwr(c) ==
  CASE c.left = 0 -> Finish(c, TRUE)
    [] c.left > 0 /\ Needs(c.op) \notin ofile[c.fd].flag -> Finish(c, FALSE)
    [] c.left > 0 /\ Needs(c.op) \in ofile[c.fd].flag ->
         [c EXCEPT !.count = Min({c.left, Chunk}), !.offset = c.f_offset]

(* rdwr is done: f_offset moves by what was moved. *)
Advance(c) ==
  Rdwr([c EXCEPT !.left = @ - (c.offset - c.f_offset), !.f_offset = c.offset])

(* pread and pwrite: the seek, then the read or write.  The seek sets      *)
(* f_offset, which nothing looks at between calls.                         *)
Begin(op, fd, off, n, byte) ==
  /\ call = Idle
  /\ ofile[fd] # Closed
  /\ Wide \/ ~Wraps(op, off, n)
  /\ LET c == [Idle EXCEPT !.stage = "rw", !.op = op, !.fd = fd, !.left = n,
                           !.byte = byte, !.before = Text(ofile[fd].ino), !.at = off] IN
       call' = IF off > MaxSeek THEN Finish(c, FALSE)
               ELSE Rdwr([c EXCEPT !.f_offset = off])
  /\ UNCHANGED <<kernel, name, inode, data, avail, ofile>>

fp == ofile[call.fd]
ip == inode[fp.ino]

-----------------------------------------------------------------------------
(* One block of readi or writei.                                           *)
Bn(off) == IF kernel = "v6" THEN (off \div BSIZE) % BnRange ELSE off \div BSIZE
TooBig(off) == Bn(off) >= IF kernel = "v6" THEN BnRange \div 2 ELSE MaxBlocks

On == call.offset % BSIZE
BlockRest == Min({BSIZE - On, call.count})
ToRead == Min({BlockRest, ip.size - call.offset})
AtEnd == call.offset >= ip.size

Mapped == IF TooBig(call.offset) THEN 0 ELSE ip.addr[Bn(call.offset)]

Reading == call.stage = "rw" /\ call.op = "read" /\ call.count > 0 /\ ~AtEnd
Writing == call.stage = "rw" /\ call.op = "write" /\ call.count > 0

(* bmap gives the file block b with what it held.                          *)
AllocUncleared(b) ==
  /\ inode' = [inode EXCEPT ![fp.ino].addr[Bn(call.offset)] = b]
  /\ avail' = avail \ {b}
  /\ UNCHANGED data

(* bmap gives the file block b, which alloc has cleared. *)
Alloc(b) ==
  /\ inode' = [inode EXCEPT ![fp.ino].addr[Bn(call.offset)] = b]
  /\ avail' = avail \ {b}
  /\ data' = [data EXCEPT ![b] = ZeroBlock]

(* n bytes moved: the loop goes on *)
Moved(n) == [call EXCEPT !.offset = @ + n, !.count = @ - n]

ReadBlock ==
  /\ Reading /\ Mapped # 0
  /\ call' = [Moved(ToRead) EXCEPT
                !.got = @ \o [k \in 1 .. ToRead |-> data[Mapped][On + k - 1]]]
  /\ UNCHANGED <<kernel, name, inode, data, avail, ofile>>

(* V6 fills the hole it is to read, the others do not. *)
FillHole(b) ==
  /\ Reading /\ Mapped = 0 /\ ~TooBig(call.offset)
  /\ kernel = "v6"
  /\ Alloc(b)
  /\ UNCHANGED <<kernel, name, ofile, call>>

ReadHole ==
  /\ Reading /\ Mapped = 0 /\ ~TooBig(call.offset)
  /\ kernel # "v6"
  /\ call' = [Moved(ToRead) EXCEPT !.got = @ \o [k \in 1 .. ToRead |-> 0]]
  /\ UNCHANGED <<kernel, name, inode, data, avail, ofile>>

(* No block for the hole, a file too big, or a disk that does not read.    *)
ReadError ==
  /\ Reading
  /\ \/ Mapped = 0 /\ ~TooBig(call.offset) /\ kernel = "v6" /\ avail = {}
     \/ TooBig(call.offset)
     \/ Mapped # 0 /\ ReadFails
  /\ call' = Finish(call, FALSE)
  /\ UNCHANGED <<kernel, name, inode, data, avail, ofile>>

(* readi is done when the count is, or at the end of the file; then a read *)
(* that moved nothing ends the loop of v6fs_read.                          *)
ReadEnd ==
  /\ call.stage = "rw" /\ call.op = "read"
  /\ call.count = 0 \/ AtEnd
  /\ call' = IF call.offset = call.f_offset THEN Finish(call, TRUE) ELSE Advance(call)
  /\ UNCHANGED <<kernel, name, inode, data, avail, ofile>>

(* The size after a write up to off: V6 keeps 24 bits of it. *)
SizeUpto(off) ==
  IF off <= ip.size THEN ip.size ELSE IF kernel = "v6" THEN off % SizeRange ELSE off

(* rwip has a block cleared only when it will not write all of it. *)
AllocToWrite(b) ==
  /\ Writing /\ Mapped = 0 /\ ~TooBig(call.offset)
  /\ IF kernel = "211" /\ BlockRest = BSIZE THEN AllocUncleared(b) ELSE Alloc(b)
  /\ UNCHANGED <<kernel, name, ofile, call>>

WriteBlock ==
  /\ Writing /\ Mapped # 0
  /\ data' = [data EXCEPT ![Mapped] =
                [k \in 0 .. BSIZE - 1 |-> IF k >= On /\ k < On + BlockRest THEN call.byte
                                          ELSE @[k]]]
  /\ inode' = [inode EXCEPT ![fp.ino].size = SizeUpto(call.offset + BlockRest)]
  /\ call' = Moved(BlockRest)
  /\ UNCHANGED <<kernel, name, avail, ofile>>

(* bmap's 0 or -1 ends writei and rwip. *)
WriteStops ==
  /\ Writing /\ Mapped = 0
  /\ \/ ~TooBig(call.offset) /\ avail = {}
     \/ TooBig(call.offset) /\ kernel \in {"v6", "211"}
  /\ call' = Finish(call, FALSE)
  /\ UNCHANGED <<kernel, name, inode, data, avail, ofile>>

(* writei goes on to move the bytes and the size, though the block of a    *)
(* part of one could not be read or, in V7, bmap's 0 was an error: only    *)
(* the buffer is not written.  rwip moves the size before it reads.        *)
WriteMisses ==
  /\ Writing
  /\ \/ Mapped # 0 /\ BlockRest < BSIZE /\ ReadFails
     \/ TooBig(call.offset) /\ kernel \in {"v7", "29"}
  /\ inode' = [inode EXCEPT ![fp.ino].size = SizeUpto(call.offset + BlockRest)]
  /\ call' = Finish(call, FALSE)
  /\ UNCHANGED <<kernel, name, data, avail, ofile>>

WriteEnd ==
  /\ call.stage = "rw" /\ call.op = "write" /\ call.count = 0
  /\ call' = Advance(call)
  /\ UNCHANGED <<kernel, name, inode, data, avail, ofile>>

Return ==
  /\ call.stage = "done"
  /\ call' = Idle
  /\ UNCHANGED <<kernel, name, inode, data, avail, ofile>>

-----------------------------------------------------------------------------
Init ==
  /\ kernel \in Kernels
  /\ name = [n \in Names |-> 0]
  /\ inode = [i \in Inos |-> FreeInode]
  /\ data = [b \in Blocks |-> ZeroBlock]
  /\ avail = Blocks
  /\ ofile = [fd \in FDs |-> Closed]
  /\ call = Idle

Next ==
  \/ \E n \in Names : \/ Unlink(n) \/ Truncate(n)
                      \/ \E i \in Inos : Mknod(n, i)
                      \/ \E len \in 0 .. MaxSeek : TruncateTo(n, len)
                      \/ \E flag \in Flags, granted \in BOOLEAN :
                           \/ OpenDescriptorFirst(n, flag, granted)
                           \/ \E t \in BOOLEAN : Open(n, flag, t, granted)
  \/ \E fd \in FDs : \/ Close(fd)
                     \/ \E off \in 0 .. MaxSeek + 1, n \in 1 .. MaxCount :
                          \/ Begin("read", fd, off, n, 0)
                          \/ \E byte \in Bytes : Begin("write", fd, off, n, byte)
  \/ ReadBlock \/ ReadHole \/ ReadError \/ ReadEnd
  \/ WriteBlock \/ WriteStops \/ WriteMisses \/ WriteEnd \/ Return
  \/ \E b \in avail : FillHole(b) \/ AllocToWrite(b)

Spec == Init /\ [][Next]_vars

-----------------------------------------------------------------------------
(* Properties.                                                             *)

(* However calls ended, an inode is held once for each descriptor that is  *)
(* open on it, and is in use just as long as it has a name or a holder.    *)
HeldByDescriptors ==
  \A i \in Inos :
    /\ inode[i].count = Cardinality({fd \in FDs : ofile[fd].ino = i})
    /\ inode[i].used <=> inode[i].nlink > 0 \/ inode[i].count > 0

(* At every step of every call, also of reads that fill holes and of       *)
(* writes that fail, a block is free or in one place of one file.          *)
BlocksOwnedOnce ==
  /\ avail = Blocks \ UNION {BlocksOf(inode[i]) : i \in Inos}
  /\ \A i, j \in Inos, a, b \in Bns :
       inode[i].addr[a] # 0 /\ inode[i].addr[a] = inode[j].addr[b] => i = j /\ a = b

(* Seen from the outside, open files are a FileStore: each call happens    *)
(* all at once, when it answers.                                           *)
Outside ==
  [i \in Inos |-> IF call.stage = "rw" /\ fp.ino = i THEN call.before
                  ELSE Text(i)]

Answered ==
  IF call.stage = "done"
  THEN [ok |-> call.ok, of |-> call.op, got |-> IF call.ok THEN call.got ELSE <<>>]
  ELSE [ok |-> TRUE, of |-> "none", got |-> <<>>]

FS == INSTANCE FileStore
        WITH text <- Outside, open <- ofile, answer <- Answered, MaxOff <- MaxSeek + 1

IsAFileStore == FS!Spec
=============================================================================
