------------------------------ MODULE DirBlocks ------------------------------
(***************************************************************************)
(* Where a 2.11BSD directory keeps its entries: records of different sizes *)
(* that tile blocks of DIRBLKSIZ (bsd211/h/dir.h), the searches of namei,  *)
(* direnter with its compaction and truncation, dirremove, dirrewrite and  *)
(* dirempty (bsd211/sys/ufs_namei.c), and the listing of bsd211fs.c.       *)
(*                                                                         *)
(* A directory is a sequence of blocks, a block a sequence of records in   *)
(* the order of their offsets; sizes are in units of four bytes.  A        *)
(* search that fails to read a block leaves the directory as it is, and is *)
(* left out.  Names211 has what names mean; here is one directory.         *)
(***************************************************************************)
EXTENDS Integers, Sequences, FiniteSetsExt, SequencesExt

CONSTANTS Names,
          Size,          \* DIRSIZ of each name, "." and ".." included
          DIRBLKSIZ,
          Inos, SELF, PARENT,
          MaxBlocks,     \* bound: blocks the directory may have
          None

Dots == {".", ".."}

ASSUME DirBlocksAssumption ==
  /\ Names \intersect Dots = {} /\ 0 \notin Inos \union {SELF, PARENT}
  /\ DIRBLKSIZ \in Nat /\ Size \in [Names \union Dots -> 1 .. DIRBLKSIZ]
  /\ Size["."] + Size[".."] <= DIRBLKSIZ

VARIABLES dir,           \* the blocks
          prev,          \* u_ncache.nc_prevoffset, in blocks
          answer

vars == <<dir, prev, answer>>

-----------------------------------------------------------------------------
(* Records.  One with inode 0 is free; its name is that of its last entry. *)

Record(n, i, len) == [name |-> n, ino |-> i, len |-> len]
Live(r) == r.ino # 0
Trimmed(r) == [r EXCEPT !.len = Size[r.name]]

(* What a record could give to another *)
Slack(r) == r.len - (IF Live(r) THEN Size[r.name] ELSE 0)

Length(block) == FoldSeq(LAMBDA r, n : n + r.len, 0, block)
Slacks(block, k) == FoldSeq(LAMBDA r, n : n + Slack(r), 0, SubSeq(block, 1, k))

(* The places of records in the directory, as <<block, record>> *)
Places == UNION {{<<b, k>> : k \in DOMAIN dir[b]} : b \in DOMAIN dir}
At(p) == dir[p[1]][p[2]]
First(S) ==
  CHOOSE p \in S : \A q \in S : p[1] < q[1] \/ (p[1] = q[1] /\ p[2] <= q[2])

-----------------------------------------------------------------------------
(* namei's search.                                                         *)

Nowhere == <<0, 0>>
Hole == <<-1, 0>>

(* The search of blocks from + 1 .. to; one beyond the end is a hole. *)
Pass(n, from, to) ==
  LET hits == {p \in Places : /\ from < p[1] /\ p[1] <= to
                              /\ Live(At(p)) /\ At(p).name = n} IN
  IF hits # {} THEN First(hits)
  ELSE IF to > Len(dir) THEN Hole
  ELSE Nowhere

StartUnchecked == prev           \* mutant: the directory may be shorter now

Start == IF prev > Len(dir) THEN 0 ELSE prev

(* A lookup starts where the last one ended, and goes round. *)
Found(n) ==
  LET p == Pass(n, Start, Len(dir)) IN
  IF p = Nowhere THEN Pass(n, 0, Start) ELSE p

(* All other searches start at the beginning. *)
Place(n) == Pass(n, 0, Len(dir))

(* The records, from the first to the last of a block, that make room for  *)
(* a new entry: one with enough slack, else those of the first block that  *)
(* has enough in all, else a new block.                                    *)
Slot(need) ==
  LET roomy == {p \in Places : Slack(At(p)) >= need}
      blocks == {b \in DOMAIN dir : Slacks(dir[b], Len(dir[b])) >= need}
      b == Min(blocks) IN
  IF roomy # {}
  THEN LET p == First(roomy) IN [block |-> p[1], first |-> p[2], last |-> p[2]]
  ELSE IF blocks # {}
  THEN [block |-> b,
        first |-> Min({k \in DOMAIN dir[b] : Slack(dir[b][k]) > 0}),
        last |-> Min({k \in DOMAIN dir[b] : Slacks(dir[b], k) >= need})]
  ELSE [block |-> Len(dir) + 1, first |-> 1, last |-> 0]

(* ni_endoff: the blocks up to the last entry, the new one included *)
Useful(block) ==
  Max({block} \union {p[1] : p \in {q \in Places : Live(At(q))}})

-----------------------------------------------------------------------------
(* direnter, dirremove, dirrewrite.                                        *)

(* direnter's loop over the records after the first of the slot: ep is the *)
(* last record taken, kept those before it, free the space gained so far.  *)
(* A live ep is trimmed, a free one overwritten by the next.               *)
Taken(w, next) ==
  [kept |-> IF Live(w.ep) THEN Append(w.kept, Trimmed(w.ep)) ELSE w.kept,
   free |-> w.free + (IF Live(w.ep) THEN 0 ELSE Size[w.ep.name])
                   + next.len - Size[next.name],
   ep |-> next]

InsertedOver(w, n, i) ==         \* mutant: a free record's header is lost
  IF Live(w.ep) THEN w.kept \o <<Trimmed(w.ep), Record(n, i, w.free)>>
  ELSE Append(w.kept, Record(n, i, w.free))

(* The new entry gets all that is free. *)
Inserted(w, n, i) ==
  IF Live(w.ep) THEN w.kept \o <<Trimmed(w.ep), Record(n, i, w.free)>>
  ELSE Append(w.kept, Record(n, i, w.free + Size[w.ep.name]))

Compacted(records, n, i) ==
  LET ep == Head(records) IN
  Inserted(FoldLeft(Taken, [kept |-> <<>>, free |-> ep.len - Size[ep.name], ep |-> ep],
                    Tail(records)), n, i)

Direnter(s, n, i) ==
  LET block == dir[s.block] IN
  IF s.block > Len(dir) THEN Append(dir, <<Record(n, i, DIRBLKSIZ)>>)
  ELSE SubSeq([dir EXCEPT ![s.block] =
                 SubSeq(block, 1, s.first - 1)
                   \o Compacted(SubSeq(block, s.first, s.last), n, i)
                   \o SubSeq(block, s.last + 1, Len(block))],
              1, Useful(s.block))

(* CREATE, for a name that is not there, while the disk has room *)
Enter(n, i) ==
  LET s == Slot(Size[n]) IN
  /\ Place(n) = Nowhere /\ s.block <= MaxBlocks
  /\ dir' = Direnter(s, n, i)
  /\ answer' = None /\ UNCHANGED prev

(* The first record of a block is freed, any other joins the one before. *)
Dirremove(block, k) ==
  IF k = 1 THEN [block EXCEPT ![1].ino = 0]
  ELSE RemoveAt([block EXCEPT ![k - 1].len = @ + block[k].len], k)

Delete(n) ==
  LET p == Place(n) IN
  /\ p # Nowhere
  /\ dir' = [dir EXCEPT ![p[1]] = Dirremove(@, p[2])]
  /\ answer' = None /\ UNCHANGED prev

(* dirrewrite, when a rename replaces another inode that had the name *)
Rewrite(n, i) ==
  LET p == Place(n) IN
  /\ p # Nowhere /\ At(p).ino # i
  /\ dir' = [dir EXCEPT ![p[1]][p[2]].ino = i]
  /\ answer' = None /\ UNCHANGED prev

-----------------------------------------------------------------------------
(* Questions.                                                              *)

Lookup(n) ==
  LET p == Found(n) IN
  /\ answer' = <<"lookup", n, IF p \in Places THEN At(p).ino ELSE p[1]>>
  /\ prev' = IF p \in Places THEN p[1] - 1 ELSE prev
  /\ UNCHANGED dir

Entries == SelectSeq(FlattenSeq(dir), Live)

Dirempty ==
  /\ answer' = <<"empty", \A k \in DOMAIN Entries :
                             Entries[k].name = "."
                               \/ (Entries[k].name = ".." /\ Entries[k].ino = PARENT)>>
  /\ UNCHANGED <<dir, prev>>

(* bsd211fs_enumdir, block by block; "." and ".." are not of the model's names *)
Enumdir ==
  LET named == SelectSeq(Entries, LAMBDA r : r.name \in Names) IN
  /\ answer' = <<"list", [k \in DOMAIN named |-> <<named[k].name, named[k].ino>>]>>
  /\ UNCHANGED <<dir, prev>>

-----------------------------------------------------------------------------
(* mkdir's mastertemplate *)
Init ==
  /\ dir = <<<<Record(".", SELF, Size["."]),
               Record("..", PARENT, DIRBLKSIZ - Size["."])>>>>
  /\ prev = 0
  /\ answer = None

Next ==
  \/ \E n \in Names : \/ \E i \in Inos : Enter(n, i) \/ Rewrite(n, i)
                      \/ Delete(n)
                      \/ Lookup(n)
  \/ Dirempty
  \/ Enumdir

Spec == Init /\ [][Next]_vars

-----------------------------------------------------------------------------
(* Properties.                                                             *)

(* The records of a block tile it, each has room for its name, and only    *)
(* the first may be free, as h/dir.h says; "." and ".." stay in front; no  *)
(* name is there twice.                                                    *)
Tiled ==
  /\ Len(dir) \in 1 .. MaxBlocks /\ prev \in 0 .. MaxBlocks
  /\ \A b \in DOMAIN dir :
       /\ Length(dir[b]) = DIRBLKSIZ
       /\ \A k \in DOMAIN dir[b] : /\ dir[b][k].len >= Size[dir[b][k].name]
                                   /\ k > 1 => Live(dir[b][k])
  /\ dir[1][1] = Record(".", SELF, Size["."])
  /\ dir[1][2].name = ".." /\ dir[1][2].ino = PARENT
  /\ IsInjective([k \in DOMAIN Entries |-> Entries[k].name])

(* Wherever entries are moved to by compactions, and whatever blocks are   *)
(* cut off, a search answers what was entered last and not removed, and a  *)
(* listing has each entry once.                                            *)
D == INSTANCE Directory
       WITH entries <- {<<At(p).name, At(p).ino>> :
                          p \in {q \in Places : Live(At(q)) /\ At(q).name \in Names}}

IsADirectory == D!Spec
==============================================================================
