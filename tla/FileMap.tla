------------------------------ MODULE FileMap ------------------------------
(***************************************************************************)
(* The block map of one file: bmap and itrunc of V6 (ken/subr.c,           *)
(* ken/iget.c), of V7 and 2.9BSD (sys/subr.c, sys/iget.c), and of 2.11BSD  *)
(* (ufs_bmap.c, ufs_inode.c), where itrunc may keep the front of the file. *)
(*                                                                         *)
(* A small V6 file has its blocks in i_addr.  When it outgrows them,       *)
(* i_addr becomes a table of indirect blocks, the last of them doubly      *)
(* indirect.  In the later kernels the last three addresses lead to one,   *)
(* two and three levels of indirect blocks.                                *)
(*                                                                         *)
(* bmap allocates as it goes down, one block at a time, and any of those   *)
(* allocations may find the volume full: a call is a record, and each of   *)
(* its steps allocates at most once.                                       *)
(*                                                                         *)
(* alloc returns a cleared buffer that the cache does not count as read.   *)
(* V7 writes it at once.  V6 may release that of an indirect block without *)
(* having written it (brelse, when the next block of the path could not be *)
(* allocated): the next bread of the block finds zeros if the cache had    *)
(* read the block before alloc cleared its buffer, and else what the block *)
(* last held: the buffer is forgotten, and the file then leads to blocks   *)
(* it was never given.                                                     *)
(***************************************************************************)
EXTENDS Integers, Sequences

CONSTANTS Kernels,       \* of "v6", "v7" (2.9BSD too) and "211"
          NADDR,         \* entries of i_addr of each kernel (8, 13 and 7)
          PER,           \* entries of an indirect block (256; V7: 128)
          BnRange,       \* what an int16_t block number wraps at (65536)
          MaxL,          \* bound: the last logical block asked for
          Blocks,        \* the blocks of this file and the free ones
          Others,        \* the blocks of the other files
          Junk           \* what file data reads as when taken for block numbers

Entries == [0 .. PER - 1 -> Blocks \union Others \union {0}]

NoEntries == [j \in 0 .. PER - 1 |-> 0]

ASSUME FileMapAssumption ==
  /\ Kernels \subseteq {"v6", "v7", "211"} /\ NADDR \in [Kernels -> Nat \ {0}]
  /\ \A k \in Kernels : IF k = "v6" THEN NADDR[k] \in 2 .. PER ELSE NADDR[k] > 3
  /\ PER \in Nat \ {0} /\ BnRange \in Nat \ {0} /\ BnRange % 2 = 0 /\ MaxL \in Nat
  /\ "v6" \in Kernels => (BnRange \div 2 - 1) \div PER - (NADDR["v6"] - 1) < PER
  /\ Blocks \intersect Others = {} /\ 0 \notin Blocks \union Others
  /\ Junk \subseteq Entries /\ Junk # {}

Asked == 0 .. MaxL

VARIABLES
  kernel,    \* the kernel, which stays
  i_addr,    \* the inode's addresses
  ilarg,     \* V6: its ILARG bit
  content,   \* what a bread of each block finds, if taken for an indirect one
  avail,     \* the free blocks
  call,      \* the call of bmap in progress
  seen,      \* history: the block bmap last answered for each logical block, or
             \* for another that V6 takes for the same
  forgot     \* history: a cleared indirect block has been forgotten

vars == <<kernel, i_addr, ilarg, content, avail, call, seen, forgot>>

Naddr == NADDR[kernel]
V6 == kernel = "v6"

(* level: how many block numbers of the path have been followed, plus one  *)
Idle == [bn |-> 0, write |-> FALSE, level |-> 0, bp |-> 0,
         buf |-> NoEntries, fresh |-> FALSE]

-----------------------------------------------------------------------------
(* Block numbers.                                                          *)

(* V6's lshift(u_offset, -9), kept in 16 bits: logical block l as bmap     *)
(* sees it; a negative one is too big                                      *)
Bn(l) == IF V6 THEN l % BnRange ELSE l

TooBig(bn) ==
  IF V6 THEN bn >= BnRange \div 2
  ELSE bn - (Naddr - 3) >= PER + PER * PER + PER * PER * PER

LargePath(bn) ==
  IF bn \div PER < Naddr - 1 THEN <<bn \div PER, bn % PER>>
  ELSE <<Naddr - 1, bn \div PER - (Naddr - 1), bn % PER>>

(* n blocks into the direct addresses' successors *)
IndirectPath(n) ==
  IF n < PER THEN <<Naddr - 3, n>>
  ELSE IF n - PER < PER * PER
  THEN <<Naddr - 2, (n - PER) \div PER, (n - PER) % PER>>
  ELSE LET m == n - PER - PER * PER IN
       <<Naddr - 1, m \div (PER * PER), (m \div PER) % PER, m % PER>>

(* Where the number of block bn is kept: which address, and which entries  *)
(* of the indirect blocks                                                  *)
Path(bn) ==
  CASE V6 /\ ilarg -> LargePath(bn)
    [] ~V6 /\ bn >= Naddr - 3 -> IndirectPath(bn - (Naddr - 3))
    [] OTHER -> <<bn>>

(* How many levels of indirect blocks address i leads to *)
Levels(i) ==
  IF V6 THEN (IF ~ilarg THEN 0 ELSE IF i = Naddr - 1 THEN 2 ELSE 1)
  ELSE IF i < Naddr - 3 THEN 0 ELSE i - (Naddr - 4)

(* The places of the map: an address, and then an entry of each indirect   *)
(* block on the way                                                        *)
Paths ==
  UNION {{<<i>> \o t : t \in UNION {[1 .. k -> 0 .. PER - 1] : k \in 0 .. Levels(i)}} :
           i \in 0 .. Naddr - 1}

(* The block number that a path of one to four steps leads to: 0 as soon   *)
(* as one on the way is                                                    *)
Followed(cont, b, p, k) == IF k > Len(p) \/ b = 0 THEN b ELSE cont[b][p[k]]
Leads(addr, cont, p) ==
  Followed(cont, Followed(cont, Followed(cont, addr[p[1]], p, 2), p, 3), p, 4)

At(p) == Leads(i_addr, content, p)

-----------------------------------------------------------------------------
(* bmap.                                                                   *)

(* V6 allocates for reads too. *)
Ask(l, write) ==
  /\ call = Idle /\ ~TooBig(Bn(l)) /\ (V6 => write)
  /\ call' = [Idle EXCEPT !.bn = Bn(l), !.write = write, !.level = 1]
  /\ UNCHANGED <<kernel, i_addr, ilarg, content, avail, seen, forgot>>

(* bmap answers block b, or 0 (V7: -1) when there is none. *)
Answer(b) ==
  /\ call' = Idle
  /\ seen' = IF b = 0 THEN seen
             ELSE [l \in Asked |-> IF Bn(l) = call.bn THEN b ELSE seen[l]]

Outgrown == V6 /\ ~ilarg /\ call.bn >= Naddr

(* The block number the call has come to *)
Here == call.level > 0 /\ ~Outgrown
Nb == LET p == Path(call.bn)[call.level] IN IF call.level = 1 THEN i_addr[p] ELSE call.buf[p]
Last == call.level = Len(Path(call.bn))

Found ==
  /\ Here /\ Last /\ Nb # 0
  /\ Answer(Nb)
  /\ UNCHANGED <<kernel, i_addr, ilarg, content, avail, forgot>>

Down ==
  /\ Here /\ ~Last /\ Nb # 0
  /\ call' = [call EXCEPT !.level = @ + 1, !.bp = Nb, !.buf = content[Nb], !.fresh = FALSE]
  /\ UNCHANGED <<kernel, i_addr, ilarg, content, avail, seen, forgot>>

ConvertReversed(b) ==          \* mutant: the addresses change places
  /\ Outgrown
  /\ content' = [content EXCEPT ![b] =
       [j \in 0 .. PER - 1 |-> IF j < Naddr THEN i_addr[Naddr - 1 - j] ELSE 0]]
  /\ i_addr' = [i \in 0 .. Naddr - 1 |-> IF i = 0 THEN b ELSE 0]
  /\ ilarg' = TRUE
  /\ avail' = avail \ {b}
  /\ UNCHANGED <<kernel, call, seen, forgot>>

(* The V6 file outgrows i_addr: its addresses move to an indirect block. *)
Convert(b) ==
  /\ Outgrown
  /\ content' = [content EXCEPT ![b] =
       [j \in 0 .. PER - 1 |-> IF j < Naddr THEN i_addr[j] ELSE 0]]
  /\ i_addr' = [i \in 0 .. Naddr - 1 |-> IF i = 0 THEN b ELSE 0]
  /\ ilarg' = TRUE
  /\ avail' = avail \ {b}
  /\ UNCHANGED <<kernel, call, seen, forgot>>

(* Block b is entered where the call has come to: as a data block, written *)
(* by the caller, or as the next indirect block, whose buffer V6 keeps.    *)
Enter(b) ==
  /\ Here /\ Nb = 0 /\ call.write
  /\ LET p == Path(call.bn)[call.level]
         entered == IF call.level = 1 THEN content
                    ELSE [content EXCEPT ![call.bp] = [call.buf EXCEPT ![p] = b]] IN
     /\ i_addr' = IF call.level = 1 THEN [i_addr EXCEPT ![p] = b] ELSE i_addr
     /\ \E e \in IF Last THEN Junk ELSE {IF V6 THEN content[b] ELSE NoEntries} :
          content' = [entered EXCEPT ![b] = e]
  /\ IF Last THEN Answer(b)
     ELSE /\ call' = [call EXCEPT !.level = @ + 1, !.bp = b, !.buf = NoEntries, !.fresh = V6]
          /\ UNCHANGED seen
  /\ avail' = avail \ {b}
  /\ UNCHANGED <<kernel, ilarg, forgot>>

(* V7: a read comes to a block that was never written. *)
Hole ==
  /\ Here /\ Nb = 0 /\ ~call.write
  /\ Answer(0)
  /\ UNCHANGED <<kernel, i_addr, ilarg, content, avail, forgot>>

(* A cleared buffer that was not written is released. *)
Brelse ==
  \/ call.fresh /\ content' = [content EXCEPT ![call.bp] = call.buf] /\ UNCHANGED forgot
  \/ /\ UNCHANGED content
     /\ forgot' = (forgot \/ (call.fresh /\ content[call.bp] # call.buf))

(* alloc finds no block: bmap releases what it holds and answers none.     *)
NoSpace ==
  /\ avail = {}
  /\ Outgrown \/ (Here /\ Nb = 0 /\ call.write)
  /\ Brelse
  /\ Answer(0)
  /\ UNCHANGED <<kernel, i_addr, ilarg, avail>>

-----------------------------------------------------------------------------
(* itrunc.                                                                 *)

(* V6 and V7: every block the inode leads to is freed. *)
FreedTwoLevels ==              \* mutant: what two levels lead to is kept
  {At(p) : p \in {q \in Paths : Len(q) <= 2}} \ {0}

Freed == {At(p) : p \in Paths} \ {0}

Itrunc ==
  /\ call = Idle /\ kernel # "211"
  /\ avail' = avail \union Freed
  /\ i_addr' = [i \in 0 .. Naddr - 1 |-> 0]
  /\ ilarg' = FALSE
  /\ seen' = [l \in Asked |-> 0]
  /\ UNCHANGED <<kernel, content, call, forgot>>

(* 2.11BSD: the blocks after last are freed, last being -1 for all of      *)
(* them.  (A length within a block has bmap find that block first.)        *)

LastiblockNaive(last, level) ==  \* mutant: the level's own blocks are not taken off
  last - (Naddr - 3) - IF level = 0 THEN 0 ELSE PER

(* lastiblock: the last block to keep, of those under address NADDR - 3 +  *)
(* level                                                                   *)
Lastiblock(last, level) ==
  last - (Naddr - 3) - CASE level = 0 -> 0 [] level = 1 -> PER [] level = 2 -> PER + PER * PER

EdgeUnreduced(lastbn, level) ==  \* mutant: lastbn is passed down as it is
  CASE level = 0 -> <<lastbn>>
    [] level = 1 -> <<lastbn \div PER, lastbn>>
    [] level = 2 -> <<lastbn \div (PER * PER), lastbn \div PER, lastbn>>

(* indirtrunc's last in each of its nested calls, each with what is left   *)
(* of lastbn by the one before: the entries on the way to the last block   *)
Edge(lastbn, level) ==
  CASE level = 0 -> <<lastbn>>
    [] level = 1 -> <<lastbn \div PER, lastbn % PER>>
    [] level = 2 -> LET rest == lastbn % (PER * PER) IN
                    <<lastbn \div (PER * PER), rest \div PER, rest % PER>>

(* The levels are cut from the third on, until one keeps some block. *)
Reached(i, last) ==
  \A j \in i + 1 .. Naddr - 1 : j >= Naddr - 3 => Lastiblock(last, j - (Naddr - 3)) < 0

(* Some entry of path p, after address p[1], comes after that on the way   *)
(* to the last block, where they first part.                               *)
After(p, edge) ==
  \E k \in 2 .. Len(p) : p[k] > edge[k - 1] /\ \A m \in 2 .. k - 1 : p[m] = edge[m - 1]

(* What place p holds is freed: it comes after that of the last block. *)
CutOff(p, last) ==
  LET level == p[1] - (Naddr - 3)
      lastbn == Lastiblock(last, level) IN
  IF level < 0 THEN p[1] > last
  ELSE Reached(p[1], last) /\ (lastbn < 0 \/ After(p, Edge(lastbn, level)))

Cut(last) == {p \in Paths : CutOff(p, last)}

(* The entries that are cleared: the indirect block, and which of it *)
Cleared(last) ==
  {<<At(SubSeq(p, 1, Len(p) - 1)), p[Len(p)]>> : p \in {q \in Cut(last) : Len(q) > 1}}

ContentCut(last) ==
  [b \in DOMAIN content |->
     [j \in 0 .. PER - 1 |-> IF <<b, j>> \in Cleared(last) THEN 0 ELSE content[b][j]]]

FreedAfter(last) == {At(p) : p \in Cut(last)} \ {0}

Itrunc211(last) ==
  /\ call = Idle /\ kernel = "211" /\ ~TooBig(last)
  /\ content' = ContentCut(last)
  /\ avail' = avail \union FreedAfter(last)
  /\ i_addr' = [i \in 0 .. Naddr - 1 |->
                  IF i < Naddr - 3
                  THEN IF i > last THEN 0 ELSE i_addr[i]
                  ELSE IF Lastiblock(last, i - (Naddr - 3)) < 0 THEN 0 ELSE i_addr[i]]
  /\ seen' = [l \in Asked |-> IF l > last THEN 0 ELSE seen[l]]
  /\ UNCHANGED <<kernel, ilarg, call, forgot>>

-----------------------------------------------------------------------------
Init ==
  /\ kernel \in Kernels
  /\ i_addr = [i \in 0 .. Naddr - 1 |-> 0]
  /\ ilarg = FALSE
  /\ content = [b \in Blocks \union Others |-> NoEntries]
  /\ avail = Blocks
  /\ call = Idle
  /\ seen = [l \in Asked |-> 0]
  /\ forgot = FALSE

Next ==
  \/ \E l \in Asked, write \in BOOLEAN : Ask(l, write)
  \/ Found \/ Down \/ Hole \/ NoSpace
  \/ \E b \in avail : Convert(b) \/ Enter(b)
  \/ Itrunc
  \/ \E last \in -1 .. MaxL : Itrunc211(last)

Spec == Init /\ [][Next]_vars

-----------------------------------------------------------------------------
(* Properties.                                                             *)

(* The block numbers kept in the map, each with its place *)
Kept == {<<p, At(p)>> : p \in {q \in Paths : At(q) # 0}}

(* Between calls, the file keeps every block it was given in one place and *)
(* every other block in none, however far the calls before got before the  *)
(* volume was full, and wherever it was cut: no block is lost, none is     *)
(* freed twice.  (Until the cache forgets a cleared indirect block.)       *)
BlocksAccounted ==
  call = Idle /\ ~forgot =>
    /\ {x[2] : x \in Kept} = Blocks \ avail
    /\ \A x, y \in Kept : x[2] = y[2] => x = y

(* What was written at a logical block is found there again, and there     *)
(* only, until the file is cut before it; what was not, or was cut off,    *)
(* is not there: growing, converting, failing and cutting move nothing.    *)
(* Only the logical blocks that V6's 16 bits do not tell apart are one.    *)
Mapped(l) ==
  IF V6 /\ ~ilarg /\ Bn(l) >= Naddr THEN 0
  ELSE At(Path(Bn(l)))

MappedStays ==
  call = Idle =>
    \A l \in Asked :
      /\ ~TooBig(Bn(l)) /\ (seen[l] # 0 \/ ~forgot) => Mapped(l) = seen[l]
      /\ seen[l] # 0 => \A m \in Asked : seen[m] = seen[l] => Bn(m) = Bn(l)
=============================================================================
