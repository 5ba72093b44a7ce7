------------------------------ MODULE Namespace ------------------------------
(***************************************************************************)
(* The names of a V6, V7 or 2.9BSD volume: the calls of v6fs.c, v7fs.c and *)
(* bsd29fs.c that make, remove and move files and directories, over the    *)
(* system calls link, mknod and unlink of the kernels (sys2.c, sys4.c) and *)
(* maknode, wdir and namei beneath them.                                   *)
(*                                                                         *)
(* These kernels have no mkdir, rmdir or rename.  v6fs.c makes them of     *)
(* sequences of system calls, each of which resolves its paths again and   *)
(* may fail; op is the call of v6fs.c in progress and stage what it does   *)
(* next.  Paths are the sequences of names that FUSE passes, to which      *)
(* v6fs.c adds "." and "..".  v7fs.c and bsd29fs.c do the same, step by    *)
(* step; it is link and wdir beneath them that differ.                     *)
(*                                                                         *)
(* Files here are closed: an inode is gone with its last link.  Of the     *)
(* errors of the disk only one is here, that it is full.                   *)
(***************************************************************************)
EXTENDS Integers, FiniteSets, Sequences, SequencesExt

CONSTANTS Inos,          \* the inodes, ROOT among them
          ROOT,
          Names,         \* names of files
          MaxDepth,      \* bound: names of a path
          MaxLink,       \* the largest link count: 127 for V6, where link checks it
          EPB            \* entries of a block of a directory (32)

ASSUME NamespaceAssumption ==
  /\ IsFiniteSet(Inos) /\ IsFiniteSet(Names) /\ ROOT \in Inos /\ 0 \notin Inos
  /\ "." \notin Names /\ ".." \notin Names
  /\ MaxDepth \in Nat \ {0} /\ MaxLink \in Nat \ {0, 1} /\ EPB \in Nat \ {0, 1}

Paths == UNION {[1 .. n -> Names] : n \in 1 .. MaxDepth}

Components == Names \union {".", ".."}

VARIABLES
  kind,      \* i_mode: "free", "file" or "dir"
  nlink,     \* i_nlink
  entry,     \* the directories' entries, 0 where there is none
  blocks,    \* the blocks of each directory
  op,        \* the call in progress
  kernel,    \* "v6", or "v7" for V7 and 2.9BSD
  full       \* directories may find no block to grow into

volume == [kind |-> kind, nlink |-> nlink, entry |-> entry, blocks |-> blocks]
vars == <<kind, nlink, entry, blocks, op, kernel, full>>

-----------------------------------------------------------------------------
(* A system call is an operator on a volume v: it returns the volume it    *)
(* leaves and whether it succeeded.                                        *)

Failure(v) == [v |-> v, ok |-> FALSE]
Success(v) == [v |-> v, ok |-> TRUE]

Dirname(p) == Front(p)

(* What namei finds in d, if that is a directory *)
Step(v, d, n) == IF d # 0 /\ v.kind[d] = "dir" THEN v.entry[d][n] ELSE 0

(* namei: the inode at the end of the path, or 0 *)
Namei(v, p) ==
  LET at[k \in 0 .. Len(p)] == IF k = 0 THEN ROOT ELSE Step(v, at[k - 1], p[k])
  IN at[Len(p)]

(* namei of a name to be created or deleted: the directory it is in, or 0 *)
Pdir(v, p) ==
  LET d == Namei(v, Dirname(p)) IN IF d # 0 /\ v.kind[d] = "dir" THEN d ELSE 0

NoEntries == [n \in Components |-> 0]

(* i_nlink is a char, and a short from V7 on. *)
Char(n) == IF n > MaxLink THEN n - 2 * (MaxLink + 1) ELSE n

IputLastName(v, i) ==          \* mutant: the last link is not counted
  IF v.nlink[i] <= 1 /\ i # ROOT
  THEN [v EXCEPT !.kind[i] = "free", !.entry[i] = NoEntries, !.blocks[i] = 0]
  ELSE v

(* iput of an inode nobody else holds.  The root is always held. *)
Iput(v, i) ==
  IF v.nlink[i] <= 0 /\ i # ROOT
  THEN [v EXCEPT !.kind[i] = "free", !.entry[i] = NoEntries, !.blocks[i] = 0]
  ELSE v

(* wdir: the entry goes where one was removed or at the end, which may     *)
(* need another block; whether there is one, grow says.                    *)
Fits(v, d) == Cardinality({n \in Components : v.entry[d][n] # 0}) < EPB * v.blocks[d]

Wdir(v, d, n, i, grow) ==
  CASE Fits(v, d)           -> [v EXCEPT !.entry[d][n] = i]
    [] ~Fits(v, d) /\ grow  -> [v EXCEPT !.entry[d][n] = i, !.blocks[d] = @ + 1]
    [] ~Fits(v, d) /\ ~grow -> v

(* From V7 on, wdir puts nothing into a directory that has no links. *)
Accepts(v, d) == d # 0 /\ (kernel = "v6" \/ v.nlink[d] > 0)

(* namei(create), maknode and iput, as in mknod, with i what ialloc finds. *)
(* What wdir could not name is freed again.                                *)
Maknode(v, p, k, i, grow) ==
  LET d == Pdir(v, p) IN
  IF ~Accepts(v, d) \/ v.entry[d][Last(p)] # 0 \/ i = 0 \/ ~(Fits(v, d) \/ grow) THEN Failure(v)
  ELSE Success([Wdir(v, d, Last(p), i, grow) EXCEPT !.kind[i] = k, !.nlink[i] = 1])

(* link: its two names must let it begin. *)
MayLink(v, i, d, n) ==
  /\ i # 0 /\ d # 0 /\ v.entry[d][n] = 0
  /\ IF kernel = "v6" THEN v.nlink[i] < MaxLink ELSE v.nlink[d] > 0

LinkUncounted(v, old, new, grow) ==   \* mutant: i_nlink stays as it is
  LET i == Namei(v, old)
      d == Pdir(v, new) IN
  IF ~MayLink(v, i, d, Last(new)) THEN Failure(v)
  ELSE [v |-> Wdir(v, d, Last(new), i, grow), ok |-> Fits(v, d) \/ grow]

(* V6 counts the new entry whether or not wdir could write it; V7 after    *)
(* wdir has, and 2.9BSD before, taking it back.                            *)
Link(v, old, new, grow) ==
  LET i == Namei(v, old)
      d == Pdir(v, new)
      written == Fits(v, d) \/ grow
      links == IF kernel = "v6" \/ written THEN Char(v.nlink[i] + 1) ELSE v.nlink[i] IN
  IF ~MayLink(v, i, d, Last(new)) THEN Failure(v)
  ELSE [v |-> Iput([Wdir(v, d, Last(new), i, grow) EXCEPT !.nlink[i] = links], i),
        ok |-> written]

Unlink(v, p) ==
  LET d == Pdir(v, p)
      i == IF d = 0 THEN 0 ELSE v.entry[d][Last(p)] IN
  IF i = 0 THEN Failure(v)
  ELSE Success(Iput([v EXCEPT !.entry[d][Last(p)] = 0, !.nlink[i] = @ - 1], i))

-----------------------------------------------------------------------------
(* The calls of v6fs.c.                                                    *)

(* The names of the volume, but for "." and ".." *)
Tree == {t \in {<<d, n, entry[d][n]>> : d \in Inos, n \in Names} : t[3] # 0}

(* The files and directories that have names.  An inode that lost its last *)
(* name but not its last link is out of sight.                             *)
Visible ==
  [kind |-> [i \in Inos |-> IF i = ROOT \/ \E t \in Tree : t[3] = i
                             THEN kind[i] ELSE "free"],
   tree |-> Tree]

Idle(ok) == [stage |-> "idle", ok |-> ok]

(* A call begins.  Renames have an old path, the others none. *)
Start(stage, old, new, isdir) ==
  [stage |-> stage, old |-> old, new |-> new, isdir |-> isdir, parent |-> 0,
   before |-> Visible]

Become(v) == kind' = v.kind /\ nlink' = v.nlink /\ entry' = v.entry /\ blocks' = v.blocks

Goto(stage) ==
  CASE stage = "done"   -> Idle(TRUE)
    [] stage = "failed" -> Idle(FALSE)
    [] OTHER            -> [op EXCEPT !.stage = stage]

(* A system call made, its error looked at, and where that leads *)
Do(r, then, else) == Become(r.v) /\ op' = Goto(IF r.ok THEN then ELSE else)

Grows == IF full THEN BOOLEAN ELSE {TRUE}

(* What ialloc may find: a free inode, or none *)
Ialloc ==
  LET free == {i \in Inos : kind[i] = "free"} IN IF free = {} THEN {0} ELSE free

(* The calls that are one system call.  The VFS has looked up the paths     *)
(* before: directories are neither linked nor unlinked.                    *)
Mknod(p) ==
  /\ op.stage = "idle"
  /\ \E i \in Ialloc, g \in Grows : Do(Maknode(volume, p, "file", i, g), "done", "failed")

LinkFile(old, new) ==
  /\ op.stage = "idle"
  /\ Namei(volume, old) # 0 /\ kind[Namei(volume, old)] = "file"
  /\ \E g \in Grows : Do(Link(volume, old, new, g), "done", "failed")

UnlinkFile(p) ==
  /\ op.stage = "idle"
  /\ Namei(volume, p) # 0 /\ kind[Namei(volume, p)] = "file"
  /\ Do(Unlink(volume, p), "done", "failed")

-----------------------------------------------------------------------------
(* v6fs_mkdir                                                              *)
Dot(p) == Append(p, ".")
DotDot(p) == Append(p, "..")

Mkdir(p) ==
  /\ op.stage = "idle"
  /\ \E i \in Ialloc, g \in Grows :
       LET r == Maknode(volume, p, "dir", i, g) IN
       /\ Become(r.v)
       /\ op' = IF r.ok THEN Start("mkdir .", <<>>, p, TRUE) ELSE Idle(FALSE)

MkdirDot ==
  /\ op.stage = "mkdir ."
  /\ \E g \in Grows : Do(Link(volume, op.new, Dot(op.new), g), "mkdir ..", "undo ..")

MkdirDotDot ==
  /\ op.stage = "mkdir .."
  /\ \E g \in Grows :
       Do(Link(volume, Dirname(op.new), DotDot(op.new), g), "done", "undo ..")

(* A failed mkdir removes whatever it may have made. *)
UndoDotDot == op.stage = "undo .." /\ Do(Unlink(volume, DotDot(op.new)), "undo .", "undo .")
UndoDot == op.stage = "undo ." /\ Do(Unlink(volume, Dot(op.new)), "undo", "undo")
Undo == op.stage = "undo" /\ Do(Unlink(volume, op.new), "failed", "failed")

-----------------------------------------------------------------------------
(* v6fs_rmdir, by itself or within a rename                                *)
Removable(i) ==
  /\ i # 0 /\ kind[i] = "dir" /\ i # ROOT
  /\ \A n \in Names : entry[i][n] = 0

Rmdir(p) ==
  /\ op.stage = "idle"
  /\ op' = IF Removable(Namei(volume, p)) THEN Start("rmdir ..", <<>>, p, TRUE)
           ELSE Idle(FALSE)
  /\ UNCHANGED <<kind, nlink, entry, blocks>>

RmdirDotDot == op.stage = "rmdir .." /\ Do(Unlink(volume, DotDot(op.new)), "rmdir .", "failed")
RmdirDot == op.stage = "rmdir ." /\ Do(Unlink(volume, Dot(op.new)), "rmdir", "failed")
RmdirDir ==
  /\ op.stage = "rmdir"
  /\ Do(Unlink(volume, op.new), IF op.old = <<>> THEN "done" ELSE "link", "failed")

-----------------------------------------------------------------------------
(* v6fs_rename                                                             *)

(* v6fs_isindir(p, i): a directory above p is i.  If p does not exist, the *)
(* ENOENT of the search for it is still in u_error, every namei of         *)
(* v6fs_isindir stops at that, and the answer is no.                       *)
Isindir(p, i) ==
  /\ Namei(volume, p) # 0
  /\ \E k \in 1 .. Len(p) - 1 : Namei(volume, SubSeq(p, 1, k)) = i

(* What the destination j must be for i to take its name *)
Replaceable(i, j) ==
  j # 0 => /\ kind[j] = kind[i]
           /\ kind[j] = "dir" => Removable(j)

Rename(old, new) ==
  LET i == Namei(volume, old)
      j == Namei(volume, new)
      isdir == i # 0 /\ kind[i] = "dir"
      first == IF j = 0 THEN "link" ELSE IF isdir THEN "rmdir .." ELSE "unlink new" IN
  /\ op.stage = "idle"
  /\ old # new /\ ~IsStrictPrefix(old, new)
  /\ op' = CASE i \in {0, ROOT} -> Idle(FALSE)
             [] i \notin {0, ROOT} /\ i = j -> Idle(TRUE)
             [] OTHER -> IF Replaceable(i, j) /\ ~(isdir /\ Isindir(new, i))
                         THEN Start(first, old, new, isdir) ELSE Idle(FALSE)
  /\ UNCHANGED <<kind, nlink, entry, blocks>>

RenameUnlinkBoth ==            \* mutant: the link is not made first
  op.stage = "unlink new" /\ Do(Unlink(volume, op.new), "unlink old", "failed")

RenameUnlinkNew == op.stage = "unlink new" /\ Do(Unlink(volume, op.new), "link", "failed")

RenameLink ==
  /\ op.stage = "link"
  /\ \E g \in Grows : Do(Link(volume, op.old, op.new, g), "unlink old", "failed")

RenameUnlinkOld ==
  /\ op.stage = "unlink old"
  /\ Do(Unlink(volume, op.old), IF op.isdir THEN "reparent" ELSE "done", "failed")

(* v6fs_reparentdir: the ".." of a directory that was moved, and the links *)
(* of the directory it left and of the one it came to                      *)
Moved == Namei(volume, op.new)
NewParent == Namei(volume, Dirname(op.new))

Reparent ==
  /\ op.stage = "reparent"
  /\ LET old == IF Moved = 0 THEN 0 ELSE entry[Moved][".."] IN
       \/ old = 0 /\ op' = Goto("failed") /\ UNCHANGED nlink
       \/ old # 0 /\ old = NewParent /\ op' = Goto("done") /\ UNCHANGED nlink
       \/ /\ old \notin {0, NewParent}
          /\ op' = [op EXCEPT !.stage = "reparent ..", !.parent = old]
          /\ nlink' = [nlink EXCEPT ![old] = @ - 1]
  /\ UNCHANGED <<kind, entry, blocks>>

ReparentDotDotStale ==         \* mutant: ".." is not rewritten
  /\ op.stage = "reparent .."
  /\ op' = Goto("reparent +")
  /\ UNCHANGED <<kind, nlink, entry, blocks>>

ReparentDotDot ==
  /\ op.stage = "reparent .."
  /\ entry' = [entry EXCEPT ![Moved][".."] = NewParent]
  /\ op' = Goto("reparent +")
  /\ UNCHANGED <<kind, nlink, blocks>>

ReparentCount ==
  /\ op.stage = "reparent +"
  /\ Become(Iput(Iput([volume EXCEPT !.nlink[NewParent] = Char(@ + 1)], NewParent),
                 op.parent))
  /\ op' = Goto("done")

-----------------------------------------------------------------------------
(* mkfs leaves a root directory of one block.                              *)
Init ==
  /\ kind = [i \in Inos |-> IF i = ROOT THEN "dir" ELSE "free"]
  /\ nlink = [i \in Inos |-> IF i = ROOT THEN 2 ELSE 0]
  /\ entry = [i \in Inos |-> [n \in Components |->
                                IF i = ROOT /\ n \in {".", ".."} THEN ROOT ELSE 0]]
  /\ blocks = [i \in Inos |-> IF i = ROOT THEN 1 ELSE 0]
  /\ op = Idle(TRUE)
  /\ kernel \in {"v6", "v7"} /\ full \in BOOLEAN

Call ==
  \/ \E p \in Paths : \/ Mknod(p) \/ UnlinkFile(p) \/ Mkdir(p) \/ Rmdir(p)
                      \/ \E q \in Paths : LinkFile(p, q) \/ Rename(p, q)
  \/ MkdirDot \/ MkdirDotDot \/ UndoDotDot \/ UndoDot \/ Undo
  \/ RmdirDotDot \/ RmdirDot \/ RmdirDir
  \/ RenameUnlinkNew \/ RenameLink \/ RenameUnlinkOld
  \/ Reparent \/ ReparentDotDot \/ ReparentCount

Next == Call /\ UNCHANGED <<kernel, full>>

Spec == Init /\ [][Next]_vars

-----------------------------------------------------------------------------
(* Properties.                                                             *)

EntriesOf(i) == {e \in Inos \X Components : entry[e[1]][e[2]] = i}

(* At any step of any call, whatever failed on a full disk, no directory   *)
(* has an entry for an inode that is free, and no inode has more entries   *)
(* than links: removing them one by one never frees it before the last.    *)
(* (In the middle of v6fs_reparentdir it can.)                             *)
LinksCoverEntries ==
  \A i \in Inos :
    /\ kind[i] = "free" => EntriesOf(i) = {}
    /\ op.stage \notin {"reparent ..", "reparent +"} =>
         Cardinality(EntriesOf(i)) <= nlink[i]

(* inode.h on i_nlink: "directory entries".  Only a V6 volume that was     *)
(* full may have counted one too many.                                     *)
NlinkIsEntries ==
  \A i \in Inos :
    kind[i] # "free" /\ ~(full /\ kernel = "v6") => nlink[i] = Cardinality(EntriesOf(i))

(* Between calls the directories are a tree as fsck wants it: "." names    *)
(* the directory itself, ".." the one that names it, and the links of an   *)
(* inode in use are its entries.                                           *)
TreeShape ==
  op.stage = "idle" =>
    /\ \A d \in Inos : Visible.kind[d] = "dir" =>
         /\ entry[d]["."] = d
         /\ IF d = ROOT THEN entry[d][".."] = ROOT
            ELSE \E n \in Names : Tree \intersect (Inos \X Names \X {d})
                                    = {<<entry[d][".."], n, d>>}
    /\ NlinkIsEntries

(* Seen from the outside, the calls of v6fs.c are those of a FileTree,     *)
(* each all at once when it returns.                                       *)
Outside == IF op.stage = "idle" THEN Visible ELSE op.before

FT == INSTANCE FileTree WITH kind <- Outside.kind, tree <- Outside.tree

IsAFileTree == FT!Spec
=============================================================================
