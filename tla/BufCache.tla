------------------------------ MODULE BufCache ------------------------------
(***************************************************************************)
(* The buffer caches of the V6, V7, 2.9BSD and 2.11BSD kernels (dmr/bio.c, *)
(* dev/bio.c, ufs_bio.c), over the synchronous disk of the adapters'       *)
(* strategy routines and dskio.c.                                          *)
(*                                                                         *)
(* One thread runs the kernel, so a call of the cache runs to its end      *)
(* before the next one starts, and the only other actor is a crash, which  *)
(* may come between any two disk operations of a call.  sleep() returns at *)
(* once in this port: a getblk that meets a busy buffer, or no available   *)
(* buffer at all, goes round its loop for ever.  Here it has no step.      *)
(*                                                                         *)
(* A call is a record; the calls that do at most one disk operation and    *)
(* cannot loop (bwrite, bdwrite, bawrite, brelse) are single actions.      *)
(*                                                                         *)
(* kernel says whose cache it is.  V7 and the BSDs mark a buffer B_AGE that *)
(* was written late, to reuse it first; 2.11BSD keeps those on a queue of  *)
(* their own, aged, with the buffers that hold nothing (B_INVAL, B_ERROR).  *)
(* The BSDs find a buffer by the hash chain of its block, and count disk    *)
(* blocks, of which two are one block of the volume.                        *)
(***************************************************************************)
EXTENDS Integers, FiniteSets, Sequences, SequencesExt, Functions

CONSTANTS Kernels,       \* of "v6", "v7", "29", "211"
          Bufs,          \* the buffer headers buf[NBUF]
          FSize,         \* blocks of the volume, its superblock's s_fsize
          BlknoRange,    \* the block numbers V6's b_blkno can hold, 2^16
          BUFHSZ,        \* hash chains of the BSDs
          ImageSize,     \* blocks of the image file or device, 0 if unknown
          Values,        \* contents of a block
          Zero,          \* the content of a block nobody has written
          NULL,          \* no buffer
          NONE,          \* no answer, no block
          OK, EIO,       \* the values of u_error
          MayFail,       \* which disk operations may fail: {"read", "write"}
          MaxHeld        \* buffers the filesystem code holds at once

ASSUME BufCacheAssumption ==
  /\ Kernels \subseteq {"v6", "v7", "29", "211"}
  /\ IsFiniteSet(Bufs) /\ NULL \notin Bufs /\ BUFHSZ \in Nat \ {0}
  /\ FSize \in Nat \ {0} /\ ImageSize \in Nat
  /\ BlknoRange \in Nat /\ BlknoRange % 2 = 0 /\ FSize <= BlknoRange
  /\ Zero \in Values /\ EIO \notin Values /\ OK # EIO
  /\ MayFail \subseteq {"read", "write"}
  /\ MaxHeld \in Nat \ {0} /\ MaxHeld < Cardinality(Bufs)
  /\ Cardinality(Bufs) >= 2

Blocks == 0 .. FSize - 1

ASSUME NoneIsNoBlock == NONE \notin Blocks /\ NONE \notin Values

Flags == {"BUSY", "DONE", "ERROR", "DELWRI", "AGE", "INVAL"}

VARIABLES
  kernel,    \* the kernel, which stays
  dev,       \* b_dev: "root", or "none" for NODEV or a minor of -1
  blkno,     \* b_blkno
  flags,     \* b_flags, but for what lives only inside one step: B_ASYNC,
             \* B_READ and B_WANTED
  data,      \* the bytes at b_addr
  chain,     \* the buffers of each hash chain
  av,        \* the available list, the next to be reused first (2.11BSD: BQ_LRU)
  aged,      \* 2.11BSD's BQ_AGE
  disk,      \* the image file
  call,      \* the cache's call in progress
  held,      \* the buffers the filesystem code holds
  u_error,   \* u.u_error
  answer     \* what the last step answered, or lost in silence

header == <<kernel, dev, blkno, flags, data, chain>>
queues == <<av, aged>>
vars == <<header, queues, disk, call, held, u_error, answer>>

BSD == kernel \in {"29", "211"}

Idle == [op |-> "idle", stage |-> "idle", want |-> NONE, ahead |-> NONE,
         rbp |-> NULL, rabp |-> NULL]

-----------------------------------------------------------------------------
(* Block b of the volume, in the units of b_blkno, and back                *)
Fsbtodb(b) == IF BSD THEN 2 * b ELSE b
Dbtofsb(b) == IF BSD THEN b \div 2 ELSE b

BlockOf(x) == Dbtofsb(blkno[x])

(* The virtual disk.                                                       *)

(* dsk_getsize() once v6fs_init has compared the image with the superblock *)
VirtualSize ==
  IF ImageSize = 0 \/ ImageSize > FSize THEN FSize ELSE ImageSize

(* Outside the disk, dsk_read and dsk_write return 0 and do nothing. *)
OnDisk(b) == b < VirtualSize

(* What becomes of a write nobody waits for: the code forgets its failure. *)
Unheard(b, ok) == IF ok THEN NONE ELSE <<"lost", b, EIO>>

(* What an operation on block b may come back with. *)
Outcomes(way, b) == {TRUE} \union (IF OnDisk(b) /\ way \in MayFail THEN {FALSE} ELSE {})

DskRead(b, old, ok) == IF OnDisk(b) /\ ok THEN disk[b] ELSE old

DskWrite(b, v, ok) == IF OnDisk(b) /\ ok THEN [disk EXCEPT ![b] = v] ELSE disk

-----------------------------------------------------------------------------
(* The pieces the entry points are made of.                                *)

(* Block b as incore and getblk receive it, in an int16_t; b_blkno is a    *)
(* uint16_t, and the comparison of the two promotes both to int.           *)
Int16(b) == IF b >= BlknoRange \div 2 THEN b - BlknoRange ELSE b

(* What getblk and incore compare with b_blkno, and the chain they search. *)
Sought(b) == IF kernel = "v6" THEN Int16(b) ELSE Fsbtodb(b)
HashOf(b) == IF BSD THEN b % BUFHSZ ELSE 0

(* Mutant: only a buffer that was read counts as holding its block. *)
HoldersRead(b) ==
  {x \in chain[HashOf(b)] : dev[x] = "root" /\ blkno[x] = Sought(b) /\ "DONE" \in flags[x]}

Holders(b) ==
  {x \in chain[HashOf(b)] :
     dev[x] = "root" /\ blkno[x] = Sought(b) /\ "INVAL" \notin flags[x]}

Incore(b) == Holders(b) # {}

IsDirty(x) == "DELWRI" \in flags[x]

(* geterror: a failed buffer sets the operation's error, nothing clears it *)
GetError(failed) == IF failed THEN EIO ELSE u_error

(* iodone after a strategy call that set B_ERROR or did not *)
IoDone(f, ok) == f \union {"DONE"} \union (IF ok THEN {} ELSE {"ERROR"})

ReleasedDevKept(x, f) == dev[x]       \* mutant: an error changes nothing

(* brelse: the buffer loses its block if it failed ...                     *)
ReleasedDev(x, f) == IF "ERROR" \in f THEN "none" ELSE dev[x]
ReleasedFlags(f) == f \ {"BUSY", "AGE"}

(* The buffer is in the chain of its block.  (bunhash of 2.9BSD panics if  *)
(* it is not; here it has no step.)                                        *)
Hashed(x) == kernel = "29" => x \in chain[HashOf(BlockOf(x))]

(* bunhash of 2.9BSD; in the others the buffer stays in its chain.         *)
Unhash(x) ==
  IF kernel = "29"
  THEN /\ dev[x] = "root" => Hashed(x)
       /\ chain' = [h \in DOMAIN chain |-> chain[h] \ {x}]
  ELSE UNCHANGED chain

(* ... and goes to the tail of the list, or where it is reused first: the  *)
(* head, or 2.11BSD's other queue.                                         *)
Reusable(f) == f \intersect {"ERROR", "INVAL"} # {}

Requeue(x, f, list, first) ==
  CASE kernel = "211" /\ Reusable(f) -> av' = list /\ aged' = <<x>> \o first
    [] kernel = "211" /\ ~Reusable(f) /\ "AGE" \in f -> av' = list /\ aged' = Append(first, x)
    [] kernel # "211" /\ "AGE" \in f -> av' = <<x>> \o list /\ aged' = first
    [] OTHER -> av' = Append(list, x) /\ aged' = first

(* brelse with flags f; late is set after it *)
BrelseThen(x, f, list, first, late) ==
  /\ dev' = [dev EXCEPT ![x] = ReleasedDev(x, f)]
  /\ IF "ERROR" \in f THEN Unhash(x) ELSE UNCHANGED chain
  /\ flags' = [flags EXCEPT ![x] = ReleasedFlags(f) \union late]
  /\ Requeue(x, f, list, first)
  /\ UNCHANGED kernel

Brelse(x, f) == BrelseThen(x, f, av, aged, {})

WriteFlagsDirty(f) == f \ {"DONE", "ERROR"}       \* mutant: still dirty

(* The flags with which bwrite calls the strategy routine *)
WriteFlags(f) ==
  f \ ({"DONE", "ERROR", "DELWRI"} \union IF kernel = "v7" THEN {"AGE"} ELSE {})

(* bwrite of content v, up to the brelse that ends it; list and first are  *)
(* what is available meanwhile.  A delayed write that nobody waits for     *)
(* marks the buffer B_AGE, which has been released by then.                *)
WriteAndRelease(x, v, list, first, ok, waits) ==
  /\ disk' = DskWrite(BlockOf(x), v, ok)
  /\ BrelseThen(x, IoDone(WriteFlags(flags[x]), ok), list, first,
                IF ~waits /\ IsDirty(x) /\ kernel # "v6" THEN {"AGE"} ELSE {})

WithoutNone(list, x) == list          \* mutant: the busy buffer stays

(* notavail *)
Without(list, x) == RemoveFirst(list, x)

(* getnewbuf's choice: the oldest of BQ_AGE, or else of the list. *)
HasFree == av # <<>> \/ aged # <<>>
Oldest == Head(aged \o av)

-----------------------------------------------------------------------------
(* The filesystem code starts an operation of its own (every v6fs_ entry   *)
(* clears u_error), or calls the cache.  It holds at most MaxHeld buffers, *)
(* never asks for a block it holds, reads ahead and syncs with none held.  *)

MayAsk(b) ==
  /\ call = Idle
  /\ Cardinality(held) < MaxHeld
  /\ \A x \in held : dev[x] = "root" => BlockOf(x) # b

Begin ==
  /\ call = Idle /\ held = {} /\ u_error # OK
  /\ u_error' = OK
  /\ answer' = NONE
  /\ UNCHANGED <<header, queues, disk, call, held>>

Enter(c) ==
  /\ call' = c
  /\ answer' = NONE
  /\ UNCHANGED <<header, queues, disk, held, u_error>>

CallBread(b) ==
  MayAsk(b) /\ Enter([Idle EXCEPT !.op = "bread", !.stage = "get", !.want = b])

CallGetblk(b) ==
  MayAsk(b) /\ Enter([Idle EXCEPT !.op = "getblk", !.stage = "get", !.want = b])

(* breada gets no buffer for a block that is in core, until the read-ahead *)
(* is over.  A read-ahead block of 0 means none.                           *)
CallBreada(b, r) ==
  /\ MayAsk(b) /\ held = {} /\ b # r
  /\ Enter([Idle EXCEPT !.op = "breada", !.want = b, !.ahead = r,
                        !.stage = IF Incore(b) THEN "ahead" ELSE "get"])

(* geteblk, for a hole that is read or (V7, 2.9BSD) the superblock: no     *)
(* block.                                                                  *)
CallGeteblk ==
  /\ kernel # "v6" /\ call = Idle /\ Cardinality(held) < MaxHeld
  /\ Enter([Idle EXCEPT !.op = "geteblk", !.stage = "get"])

(* v6fs_sync, v7fs_sync, bsd29fs_sync, bsd211fs_sync                       *)
CallSync ==
  /\ call = Idle /\ held = {}
  /\ call' = [Idle EXCEPT !.op = "sync", !.stage = "flush"]
  /\ u_error' = OK
  /\ answer' = NONE
  /\ UNCHANGED <<header, queues, disk, held>>

(* bsd211fs_sync returns before it looks at the buffers when the           *)
(* superblock is not modified (fs_fmod), which this module does not know.  *)
CallSyncUnmodified ==
  /\ kernel = "211" /\ call = Idle /\ held = {}
  /\ answer' = NONE
  /\ UNCHANGED <<header, queues, disk, call, held, u_error>>

(* bsd211fs_fsync, of a file of one block, or of one so large that the     *)
(* whole pool is flushed                                                   *)
CallFsync(b) ==
  /\ kernel = "211" /\ call = Idle /\ held = {}
  /\ \E stage \in {"blkflush", "pool"} :
       call' = [Idle EXCEPT !.op = "fsync", !.stage = stage, !.want = b]
  /\ u_error' = OK
  /\ answer' = NONE
  /\ UNCHANGED <<header, queues, disk, held>>

-----------------------------------------------------------------------------
(* The steps of a call.                                                    *)

(* The block getblk is looking for, while it is looking.  The read-ahead   *)
(* looks only for a block that is not in core.                             *)
Looking(b) ==
  \/ call.stage = "get" /\ b = call.want
  \/ call.stage = "ahead" /\ b = call.ahead /\ b # 0 /\ ~Incore(b)

(* The call returns x to the filesystem code. *)
Reads(op) == op \in {"bread", "breada"}

Return(x, f, d) ==
  /\ call' = Idle
  /\ held' = held \union {x}
  /\ answer' = IF Reads(call.op) THEN <<"read", call.want, IF "ERROR" \in f THEN EIO ELSE d>>
               ELSE NONE
  /\ u_error' = IF Reads(call.op) THEN GetError("ERROR" \in f) ELSE u_error

(* getblk finds the block, and bread finds it read *)
GetHit(x) ==
  /\ call.stage = "get" /\ call.want # NONE /\ x \in Holders(call.want)
  /\ "BUSY" \notin flags[x]
  /\ av' = Without(av, x) /\ aged' = Without(aged, x)
  /\ flags' = [flags EXCEPT ![x] = @ \union {"BUSY"}]
  /\ \/ /\ call.op = "getblk" \/ "DONE" \in flags[x]
        /\ Return(x, flags[x], data[x])
     \/ /\ call.op # "getblk" /\ "DONE" \notin flags[x]
        /\ call' = [call EXCEPT !.stage = "read", !.rbp = x]
        /\ answer' = NONE
        /\ UNCHANGED <<held, u_error>>
  /\ UNCHANGED <<kernel, dev, blkno, data, chain, disk>>

(* getblk meets a dirty buffer at the head of the list: it writes it, does *)
(* not look at the error, and starts over                                  *)
Wanting ==
  \/ call.op = "geteblk"
  \/ \E b \in Blocks : Looking(b) /\ ~Incore(b)

WriteHead(ok) ==
  /\ Wanting
  /\ HasFree /\ IsDirty(Oldest)
  /\ ok \in Outcomes("write", BlockOf(Oldest))
  /\ WriteAndRelease(Oldest, data[Oldest], Without(av, Oldest), Without(aged, Oldest), ok, FALSE)
  /\ answer' = Unheard(BlockOf(Oldest), ok)
  /\ UNCHANGED <<blkno, data, call, held, u_error>>

(* getblk reassigns the oldest available buffer                            *)
TakeHead ==
  \E b \in Blocks :
    /\ Looking(b) /\ ~Incore(b)
    /\ HasFree /\ ~IsDirty(Oldest)
    /\ LET x == Oldest IN
         /\ av' = Without(av, x) /\ aged' = Without(aged, x)
         /\ flags' = [flags EXCEPT ![x] = {"BUSY"}]
         /\ dev' = [dev EXCEPT ![x] = "root"]
         /\ blkno' = [blkno EXCEPT ![x] = Fsbtodb(b)]
         /\ dev[x] = "root" => Hashed(x)
         /\ chain' = [h \in DOMAIN chain |->
                        IF h = HashOf(b) THEN chain[h] \union {x} ELSE chain[h] \ {x}]
         /\ CASE call.op = "getblk" -> Return(x, {}, data[x])
              [] call.stage = "ahead" ->
                   /\ call' = [call EXCEPT !.stage = "readahead", !.rabp = x]
                   /\ answer' = NONE
                   /\ UNCHANGED <<held, u_error>>
              [] OTHER ->
                   /\ call' = [call EXCEPT !.stage = "read", !.rbp = x]
                   /\ answer' = NONE
                   /\ UNCHANGED <<held, u_error>>
    /\ UNCHANGED <<kernel, data, disk>>

TakeEmpty ==
  /\ call.op = "geteblk"
  /\ HasFree /\ ~IsDirty(Oldest)
  /\ LET x == Oldest IN
       /\ av' = Without(av, x) /\ aged' = Without(aged, x)
       /\ flags' = [flags EXCEPT ![x] = {"BUSY"} \union IF kernel = "211" THEN {"INVAL"} ELSE {}]
       /\ dev' = [dev EXCEPT ![x] = "none"]
       /\ dev[x] = "root" => Hashed(x)
       /\ chain' = [h \in DOMAIN chain |-> chain[h] \ {x}]
       /\ Return(x, {}, data[x])
  /\ UNCHANGED <<kernel, blkno, data, disk>>

(* bread reads its block and returns it; breada leaves the error for later *)
Read(ok) ==
  /\ call.stage = "read"
  /\ LET x == call.rbp IN
       /\ ok \in Outcomes("read", BlockOf(x))
       /\ data' = [data EXCEPT ![x] = DskRead(BlockOf(x), @, ok)]
       /\ flags' = [flags EXCEPT ![x] = IoDone(@, ok)]
       /\ \/ call.op = "bread" /\ Return(x, flags'[x], data'[x])
          \/ /\ call.op = "breada"
             /\ call' = [call EXCEPT !.stage = "ahead"]
             /\ answer' = NONE
             /\ UNCHANGED <<held, u_error>>
  /\ UNCHANGED <<kernel, dev, blkno, chain, queues, disk>>

(* breada's asynchronous read of the block ahead: iodone releases it, and  *)
(* nobody asks whether it failed                                           *)
ReadAhead(ok) ==
  /\ call.stage = "readahead"
  /\ LET x == call.rabp IN
       /\ ok \in Outcomes("read", BlockOf(x))
       /\ data' = [data EXCEPT ![x] = DskRead(BlockOf(x), @, ok)]
       /\ Brelse(x, IoDone(flags[x], ok))
  /\ call' = [call EXCEPT !.stage = "wait", !.rabp = NULL]
  /\ answer' = NONE
  /\ UNCHANGED <<blkno, disk, held, u_error>>

NoReadAhead ==
  /\ call.stage = "ahead"
  /\ call.ahead = 0 \/ Incore(call.ahead)
  /\ call' = [call EXCEPT !.stage = "wait"]
  /\ answer' = NONE
  /\ UNCHANGED <<header, queues, disk, held, u_error>>

(* Mutant: breada does not check that it has read its own block. *)
WaitUnchecked ==
  /\ call.stage = "wait"
  /\ call' = Idle
  /\ held' = held \union {call.rbp}
  /\ answer' = NONE
  /\ UNCHANGED <<header, queues, disk, u_error>>

(* breada waits for its own block, or reads it now if it was in core: the  *)
(* read-ahead may have taken its buffer since                              *)
Wait ==
  /\ call.stage = "wait"
  /\ \/ /\ call.rbp # NULL
        /\ Return(call.rbp, flags[call.rbp], data[call.rbp])
     \/ /\ call.rbp = NULL
        /\ call' = [Idle EXCEPT !.op = "bread", !.stage = "get", !.want = call.want]
        /\ answer' = NONE
        /\ UNCHANGED <<held, u_error>>
  /\ UNCHANGED <<header, queues, disk>>

(* bflush writes the first dirty buffer of the list (in 2.11BSD, BQ_AGE    *)
(* after it) and starts over, again without looking at the error           *)
FirstDirty(x) ==
  LET q == av \o aged IN
  \E i \in 1 .. Len(q) : x = q[i] /\ IsDirty(x) /\ \A j \in 1 .. i - 1 : ~IsDirty(q[j])

FlushOne(x, ok) ==
  /\ call.stage = "flush" /\ FirstDirty(x)
  /\ ok \in Outcomes("write", BlockOf(x))
  /\ WriteAndRelease(x, data[x], Without(av, x), Without(aged, x), ok, FALSE)
  /\ answer' = Unheard(BlockOf(x), ok)
  /\ UNCHANGED <<blkno, data, call, held, u_error>>

(* blkflush writes the dirty buffers of a block, but syncip has already    *)
(* converted the number it gives it, and another block is looked for: the  *)
(* file's stays dirty.  A large file's syncip writes every dirty buffer of *)
(* the device, and so does what a sync does.                               *)
ToFsync(x) ==
  /\ IsDirty(x)
  /\ call.stage = "blkflush" => x \in Holders(Fsbtodb(call.want))

FsyncOne(x, ok) ==
  /\ call.op = "fsync" /\ ToFsync(x) /\ "BUSY" \notin flags[x]
  /\ ok \in Outcomes("write", BlockOf(x))
  /\ WriteAndRelease(x, data[x], Without(av, x), Without(aged, x), ok, TRUE)
  /\ u_error' = GetError(~ok)
  /\ answer' = Unheard(BlockOf(x), ok)
  /\ UNCHANGED <<blkno, data, call, held>>

Fsynced ==
  /\ call.op = "fsync" /\ \A x \in Bufs : ~ToFsync(x)
  /\ call' = Idle
  /\ answer' = IF call.stage = "pool" THEN <<"sync", NONE, u_error>> ELSE NONE
  /\ UNCHANGED <<header, queues, disk, held, u_error>>

Flushed ==
  /\ call.stage = "flush"
  /\ \A x \in Bufs : ~FirstDirty(x)
  /\ call' = Idle
  /\ answer' = <<"sync", NONE, u_error>>
  /\ UNCHANGED <<header, queues, disk, held, u_error>>

-----------------------------------------------------------------------------
(* What the filesystem code does with a buffer it holds.                   *)

(* It gives x back with content v. *)
GiveBack(x, v) ==
  /\ call = Idle /\ x \in held /\ dev[x] = "root"
  /\ held' = held \ {x}
  /\ data' = [data EXCEPT ![x] = v]
  /\ UNCHANGED <<blkno, call>>

Release(x) ==
  /\ call = Idle /\ x \in held
  /\ held' = held \ {x}
  /\ Brelse(x, flags[x])
  /\ answer' = NONE
  /\ UNCHANGED <<blkno, data, disk, call, u_error>>

(* bwrite waits: its error is the operation's *)
Bwrite(x, v, ok) ==
  /\ GiveBack(x, v)
  /\ ok \in Outcomes("write", BlockOf(x))
  /\ WriteAndRelease(x, v, av, aged, ok, TRUE)
  /\ u_error' = GetError(~ok)
  /\ answer' = <<"write", BlockOf(x), IF ok THEN OK ELSE EIO>>

Bdwrite(x, v) ==
  /\ GiveBack(x, v)
  /\ Brelse(x, flags[x] \union {"DELWRI", "DONE"})
  /\ answer' = NONE
  /\ UNCHANGED <<disk, u_error>>

(* bawrite asks for the error only of a buffer that was not dirty already, *)
(* in the BSDs of none                                                     *)
Bawrite(x, v, ok) ==
  /\ GiveBack(x, v)
  /\ ok \in Outcomes("write", BlockOf(x))
  /\ WriteAndRelease(x, v, av, aged, ok, FALSE)
  /\ u_error' = GetError(~ok /\ ~IsDirty(x) /\ ~BSD)
  /\ answer' = Unheard(BlockOf(x), ok)

-----------------------------------------------------------------------------
(* The process dies, and binit starts the next one with every header free. *)
Order == CHOOSE s \in [1 .. Cardinality(Bufs) -> Bufs] : IsInjective(s)

NoChains == [h \in IF BSD THEN 0 .. BUFHSZ - 1 ELSE {0} |-> {}]

(* binit releases them, buffers without a block; 2.11BSD's are invalid and *)
(* go on BQ_AGE.                                                           *)
AllFree(list, first) ==
  IF kernel = "211" THEN list = <<>> /\ first = Order ELSE list = Order /\ first = <<>>

BinitFlags == IF kernel = "211" THEN {"INVAL"} ELSE {}

Crash ==
  /\ dev' = [x \in Bufs |-> "none"]
  /\ blkno' = [x \in Bufs |-> 0]
  /\ flags' = [x \in Bufs |-> BinitFlags]
  /\ data' = [x \in Bufs |-> Zero]
  /\ chain' = NoChains
  /\ AllFree(av', aged')
  /\ call' = Idle /\ held' = {} /\ u_error' = OK /\ answer' = NONE
  /\ UNCHANGED <<kernel, disk>>

Init ==
  /\ kernel \in Kernels
  /\ dev = [x \in Bufs |-> "none"]
  /\ blkno = [x \in Bufs |-> 0]
  /\ flags = [x \in Bufs |-> BinitFlags]
  /\ data = [x \in Bufs |-> Zero]
  /\ chain = NoChains
  /\ AllFree(av, aged)
  /\ disk = [b \in Blocks |-> Zero]
  /\ call = Idle /\ held = {} /\ u_error = OK /\ answer = NONE

Step ==
  \/ \E x \in Bufs : GetHit(x)
  \/ TakeHead \/ TakeEmpty
  \/ NoReadAhead
  \/ Wait
  \/ Flushed \/ Fsynced
  \/ \E ok \in BOOLEAN : \/ WriteHead(ok) \/ Read(ok) \/ ReadAhead(ok)
                         \/ \E x \in Bufs : FlushOne(x, ok) \/ FsyncOne(x, ok)

Client ==
  \/ Begin
  \/ CallSync \/ CallSyncUnmodified \/ CallGeteblk
  \/ \E b \in Blocks : \/ CallBread(b) \/ CallGetblk(b) \/ CallFsync(b)
                        \/ \E r \in Blocks : CallBreada(b, r)
  \/ \E x \in Bufs : Release(x)
  \/ \E x \in Bufs, v \in Values :
       \/ Bdwrite(x, v)
       \/ \E ok \in BOOLEAN : Bwrite(x, v, ok) \/ Bawrite(x, v, ok)

Next == Step \/ Client \/ Crash

Spec == Init /\ [][Next]_vars

(* The one thread runs a call to its end; nothing makes the filesystem     *)
(* code call.                                                              *)
FairSpec == Spec /\ WF_vars(Step)

-----------------------------------------------------------------------------
(* Properties.                                                             *)

TypeOK ==
  /\ dev \in [Bufs -> {"root", "none"}]
  /\ kernel \in Kernels
  /\ blkno \in [Bufs -> {Fsbtodb(b) : b \in Blocks}]
  /\ flags \in [Bufs -> SUBSET Flags]
  /\ data \in [Bufs -> Values]
  /\ chain \in [DOMAIN NoChains -> SUBSET Bufs]
  /\ av \in Seq(Bufs) /\ aged \in Seq(Bufs) /\ (kernel # "211" => aged = <<>>)
  /\ disk \in [Blocks -> Values]
  /\ call \in [op : {"idle", "bread", "getblk", "breada", "geteblk", "sync", "fsync"},
               stage : {"idle", "get", "read", "ahead", "readahead", "wait", "flush",
                        "blkflush", "pool"},
               want : Blocks \union {NONE}, ahead : Blocks \union {NONE},
               rbp : Bufs \union {NULL}, rabp : Bufs \union {NULL}]
  /\ held \subseteq Bufs
  /\ u_error \in {OK, EIO}
  /\ answer = NONE \/ answer \in {"read", "write", "lost", "sync"}
                                   \X (Blocks \union {NONE}) \X (Values \union {OK, EIO})

(* buf.h: "A buffer is on the available list ... if and only if it is not  *)
(* marked BUSY", and a busy one is in somebody's hands: those of the       *)
(* filesystem code or of the call in progress.  A buffer on the list twice *)
(* or on neither side would be given to two callers, or to none ever again. *)
InHand == held \union ({call.rbp, call.rabp} \ {NULL})

AvailableIffNotBusy ==
  LET q == av \o aged IN
  /\ \A x \in Bufs : (\E i \in 1 .. Len(q) : q[i] = x) <=> "BUSY" \notin flags[x]
  /\ \A i, j \in 1 .. Len(q) : q[i] = q[j] => i = j
  /\ \A x \in Bufs : "BUSY" \in flags[x] <=> x \in InHand

(* No block is in two buffers, whatever the disk does: two copies would    *)
(* be read and written independently.  And the buffer of a block is in the *)
(* one chain in which getblk looks for it, whatever was in it before:      *)
(* bunhash, which panics when it is not, looks there too.                  *)
OneBufferPerBlock ==
  /\ \A x, y \in Bufs : dev[x] = "root" /\ dev[y] = "root" /\ blkno[x] = blkno[y] => x = y
  /\ \A x \in Bufs : dev[x] = "root" => \A h \in DOMAIN chain :
       x \in chain[h] <=> h = HashOf(BlockOf(x))

(* No dirty buffer outlives its claim to a block: written later, it would  *)
(* overwrite what has since been stored there through another buffer.      *)
DirtyKeepsItsBlock == \A x \in Bufs : IsDirty(x) => dev[x] = "root" /\ "DONE" \in flags[x]

(* What a read of block b would answer now. *)
View(b) ==
  LET valid == {x \in Holders(b) : "DONE" \in flags[x] /\ "ERROR" \notin flags[x]}
  IN IF valid = {} THEN disk[b] ELSE data[CHOOSE x \in valid : TRUE]

Store == INSTANCE BlockStore
           WITH mem <- [b \in Blocks |-> View(b)],
                ReadsFail <- ("read" \in MayFail)

(* Whatever the cache keeps, evicts, reads ahead and delays, its callers   *)
(* see a memory of blocks: they read what was stored last, a bwrite that   *)
(* succeeds and a sync that ends have put it on the disk, a crash leaves   *)
(* the disk.  A stored block is lost only in the step in which the disk    *)
(* refuses to write it, and then to what the disk holds.                   *)
CacheIsAStore == Store!Spec

(* Every call returns: no getblk loops for ever on a busy buffer, an empty *)
(* list or a dirty head, no bflush on a buffer that stays dirty.           *)
EveryCallReturns == call.op # "idle" ~> call.op = "idle"
=============================================================================
