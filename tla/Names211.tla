------------------------------ MODULE Names211 ------------------------------
(***************************************************************************)
(* The names of a 2.11BSD volume: namei and its name cache                 *)
(* (bsd211/sys/ufs_namei.c), the inode table with its hash and its list of *)
(* free slots (ufs_inode.c), and the system calls on names                 *)
(* (ufs_syscalls.c), which bsd211fs.c calls one for one.                   *)
(*                                                                         *)
(* With one thread a system call runs to its end, so each is one action,   *)
(* made of operators that take a volume v and return the one they leave.   *)
(* What lives on from one call to the next is what the next one trusts:    *)
(* slots keep their inodes after the last iput, and the cache keeps names  *)
(* with the slots they led to and the ids those had.  A slot's id changes  *)
(* when its inode does: a name in the cache is good while its id is the    *)
(* slot's.                                                                 *)
(*                                                                         *)
(* Paths are what FUSE passes: no "." or "..", symbolic links resolved.    *)
(* Names fit the cache's entries.  Where in a directory an entry is kept   *)
(* is left to DirBlocks; a directory may have no room for one.             *)
(***************************************************************************)
EXTENDS Integers, FiniteSets, Sequences, FiniteSetsExt, SequencesExt

CONSTANTS Inos, ROOT,
          Slots,         \* the inode table (128)
          rootslot,      \* the slot of the root, always held
          Names,
          MaxDepth,      \* bound: names of a path
          NCache,        \* entries of the name cache
          FDs,           \* descriptors
          None

ASSUME Names211Assumption ==
  /\ IsFiniteSet(Inos) /\ ROOT \in Inos /\ 0 \notin Inos
  /\ IsFiniteSet(Slots) /\ rootslot \in Slots /\ None \notin Slots
  /\ "." \notin Names /\ ".." \notin Names
  /\ MaxDepth \in Nat \ {0} /\ NCache \in Nat \ {0}

Paths == UNION {[1 .. n -> Names] : n \in 1 .. MaxDepth}
Components == Names \union {".", ".."}
NoEntries == [n \in Components |-> 0]

(* a namecache on no hash chain *)
Unhashed == [dir |-> 0, name |-> None, slot |-> None, id |-> 0]

VARIABLES
  kind,      \* i_mode: "free", "file" or "dir"
  nlink,     \* i_nlink
  entry,     \* the directories' entries, 0 where there is none
  slot,      \* inode[]: i_number, i_id, i_count
  ifree,     \* the slots nobody holds, from ifreeh on
  cache,     \* namecache[], least recently used first
  ofile,     \* the slots descriptors hold
  panicked

(* short: an inode was wanted when no slot was free *)
volume == [kind |-> kind, nlink |-> nlink, entry |-> entry, slot |-> slot,
           ifree |-> ifree, cache |-> cache, panicked |-> panicked, short |-> FALSE]
vars == <<kind, nlink, entry, slot, ifree, cache, ofile, panicked>>

(* A call leaves one of the volumes vs.  The model's table is far smaller  *)
(* than the kernel's: calls that would need more slots are not made.       *)
Leaves(vs) ==
  \E v \in {w \in vs : ~w.short} :
    /\ kind' = v.kind /\ nlink' = v.nlink /\ entry' = v.entry
    /\ slot' = v.slot /\ ifree' = v.ifree /\ cache' = v.cache
    /\ panicked' = v.panicked

-----------------------------------------------------------------------------
(* The inode table.                                                        *)

Ino(v, s) == v.slot[s].number
Incore(v, i) == {s \in Slots : v.slot[s].number = i}

CacheinvalNot(v, s) == v         \* mutant: the slot keeps its id

(* The slot gets an id that no name in the cache has for it: ++nextinodeid *)
(* while it does not wrap.                                                 *)
Cacheinval(v, s) ==
  LET known == {v.cache[c].id : c \in {d \in 1 .. NCache : v.cache[d].slot = s}} IN
  [v EXCEPT !.slot[s].id = Min((1 .. NCache + 1) \ known)]

IgrabKeepsFree(v, s) ==          \* mutant: a held slot stays on the free list
  [v EXCEPT !.slot[s].count = @ + 1]

Igrab(v, s) ==
  [v EXCEPT !.slot[s].count = @ + 1,
            !.ifree = SelectSeq(@, LAMBDA t : t # s)]

(* iget: a slot that has i, or the free one unused for longest, whose last *)
(* inode is then out of core *)
Grabbed(v, s, i) ==
  [v |-> IF Ino(v, s) = i THEN Igrab(v, s)
         ELSE Cacheinval([Igrab(v, s) EXCEPT !.slot[s].number = i], s),
   s |-> s]

Iget(v, i) ==
  IF Incore(v, i) = {} /\ v.ifree = <<>>
  THEN [v |-> [v EXCEPT !.short = TRUE], s |-> rootslot]
  ELSE Grabbed(v, IF Incore(v, i) # {} THEN CHOOSE s \in Incore(v, i) : TRUE
                  ELSE Head(v.ifree), i)

(* irele and iput: the last one frees an inode without links, and leaves   *)
(* the slot as it is at the end of the free list.                          *)
Iput(v, s) ==
  LET i == Ino(v, s)
      last == v.slot[s].count = 1
      w == [v EXCEPT !.slot[s].count = @ - 1,
                     !.ifree = IF last THEN Append(@, s) ELSE @] IN
  IF last /\ v.nlink[i] <= 0
  THEN [w EXCEPT !.kind[i] = "free", !.entry[i] = NoEntries]
  ELSE w

-----------------------------------------------------------------------------
(* namei.                                                                  *)

Hit(v, d, n) == {c \in 1 .. NCache : v.cache[c].dir = d /\ v.cache[c].name = n}

(* Entry c of the cache is used again, or thrown out: head of the list. *)
Used(v, c) == [v EXCEPT !.cache = Append(RemoveAt(@, c), @[c])]
Thrown(v, c) == [v EXCEPT !.cache = <<Unhashed>> \o RemoveAt(@, c)]

(* The name n of directory d leads to slot s. *)
Entered(v, d, n, s) ==
  [v EXCEPT !.cache = Append(Tail(@), [dir |-> d, name |-> n, slot |-> s,
                                       id |-> v.slot[s].id])]

(* A search has come to the slot ip by way of pdir, or to pdir only, in    *)
(* which the last name is to be made; both are held.                       *)
At(v, pdir, ip) == [v |-> v, ok |-> TRUE, pdir |-> pdir, ip |-> ip]
Lost(v) == [v |-> v, ok |-> FALSE, pdir |-> None, ip |-> None]

Good(v, c) == v.cache[c].id = v.slot[v.cache[c].slot].id

(* The directory d in slot dp is read for name n, which leads to g. *)
Came(g, dp, d, n, makeentry) ==
  At(IF makeentry THEN Entered(g.v, d, n, g.s) ELSE g.v, dp, g.s)

Read(v, dp, d, n, makeentry, create) ==
  IF v.entry[d][n] # 0 THEN Came(Iget(v, v.entry[d][n]), dp, d, n, makeentry)
  ELSE IF create /\ v.nlink[d] # 0 THEN At(v, dp, None)
  ELSE Lost(Iput(v, dp))

(* Name n is searched in the directory in slot dp.  makeentry: the answer  *)
(* may come from the cache and stay there; a name that is to be deleted    *)
(* or rewritten is thrown out.  create: the name need not be there.        *)
Component(v, dp, n, makeentry, create) ==
  LET d == Ino(v, dp)
      hit == Hit(v, d, n)
      c == CHOOSE c \in hit : TRUE IN
  IF v.kind[d] # "dir" THEN Lost(Iput(v, dp))
  ELSE IF hit # {} /\ Good(v, c) /\ makeentry
  THEN At(Igrab(Used(v, c), v.cache[c].slot), dp, v.cache[c].slot)
  ELSE Read(IF hit = {} THEN v ELSE Thrown(v, c), dp, d, n, makeentry, create)

(* docache, of LOOKUP and CREATE, of DELETE | LOCKPARENT ("delete") and    *)
(* CREATE | LOCKPARENT | NOCACHE ("rewrite")                               *)
Docache(op) == op \in {"lookup", "create"}

(* The k-th name of path p is searched in slot dp; the directories on the  *)
(* way are released.                                                       *)
RECURSIVE Walk(_, _, _, _, _)
Onward(r, p, k, op) ==
  IF k = Len(p) \/ ~r.ok THEN r
  ELSE Walk(Iput(r.v, r.pdir), r.ip, p, k + 1, op)

Walk(v, dp, p, k, op) ==
  LET last == k = Len(p) IN
  Onward(Component(v, dp, p[k], ~last \/ Docache(op),
                   last /\ op \in {"create", "rewrite"}), p, k, op)

Namei(v, p, op) == Walk(Igrab(v, rootslot), rootslot, p, 1, op)

(* Without LOCKPARENT the parent of what was found is released. *)
Found(r) == r.ok /\ r.ip # None
Unparented(r) == Iput(r.v, r.pdir)

-----------------------------------------------------------------------------
(* Entries.                                                                *)
SetEntry(v, d, n, i) == [v EXCEPT !.entry[d][n] = i]
AddLinks(v, i, k) == [v EXCEPT !.nlink[i] = @ + k]

(* direnter of inode i into the directory that r found, room permitting;   *)
(* it releases the directory                                               *)
Direnter(r, n, i, room) ==
  Iput(IF room THEN SetEntry(r.v, Ino(r.v, r.pdir), n, i) ELSE r.v, r.pdir)

Dirempty(v, d, parent) ==
  v.entry[d][".."] = parent /\ \A n \in Names : v.entry[d][n] = 0

Itrunc(v, d) == [v EXCEPT !.entry[d] = NoEntries]

-----------------------------------------------------------------------------
(* The system calls.                                                       *)

Unused == {i \in Inos : kind[i] = "free"}

(* What was found is let go. *)
Released(r) == IF Found(r) THEN Iput(Unparented(r), r.ip) ELSE r.v

(* stat, chmod and all else that finds an inode and lets it go *)
Stat(p) ==
  /\ Leaves({Released(Namei(volume, p, "lookup"))})
  /\ UNCHANGED ofile

(* FUSE opens files only: no directory is held between calls, and IRENAME, *)
(* which a failed rename leaves set, goes with the last iput.              *)
Opened(r, fd) ==
  /\ r.ok => kind[Ino(r.v, r.ip)] = "file"
  /\ Leaves({IF r.ok THEN Unparented(r) ELSE r.v})
  /\ ofile' = [ofile EXCEPT ![fd] = r.ip]

Open(p, fd) ==
  /\ ofile[fd] = None
  /\ Opened(Namei(volume, p, "lookup"), fd)

Close(fd) ==
  /\ ofile[fd] # None
  /\ Leaves({Iput(volume, ofile[fd])})
  /\ ofile' = [ofile EXCEPT ![fd] = None]

(* The name a call is to make is not there, and can be. *)
Makes(r) == r.ok /\ ~Found(r)

(* Whether there is room for it: it matters only where one is made. *)
Rooms(r) == IF Makes(r) THEN BOOLEAN ELSE {TRUE}

(* maknode: ialloc finds an inode i that nobody uses; direnter finds room  *)
(* for its name, or i is freed again.                                      *)
Maknode(r, g, n, i, room) ==
  LET made == [g.v EXCEPT !.kind[i] = "file", !.nlink[i] = 1]
      entered == Direnter([r EXCEPT !.v = made], n, i, room) IN
  Iput(IF room THEN entered ELSE AddLinks(entered, i, -1), g.s)

Makenod(r, n) ==
  IF Makes(r)
  THEN {Maknode(r, Iget(r.v, i), n, i, room) : i \in Unused, room \in BOOLEAN}
  ELSE {Released(r)}

Mknod(p) ==
  /\ Leaves(Makenod(Namei(volume, p, "create"), Last(p)))
  /\ UNCHANGED ofile

(* The link is counted before the name is looked for, and taken back.      *)
(* FUSE makes no links to directories.                                     *)
Linked(r, n, ip) ==
  LET i == Ino(r.v, ip)
      entered(room) == IF Makes(r) THEN Direnter(r, n, i, room) ELSE Released(r) IN
  {Iput(AddLinks(entered(room), i, IF Makes(r) /\ room THEN 0 ELSE -1), ip) :
     room \in Rooms(r)}

Links(f) ==
  LET i == Ino(f.v, f.ip) IN
  IF ~f.ok THEN {f.v}
  ELSE IF kind[i] = "dir" THEN {}
  ELSE UNION {Linked(Namei(AddLinks(Unparented(f), i, 1), new, "create"), Last(new), f.ip) :
                new \in Paths}

Link(old) ==
  /\ Leaves(Links(Namei(volume, old, "lookup")))
  /\ UNCHANGED ofile

(* FUSE removes directories with rmdir only. *)
Unlinked(r, n) ==
  LET i == Ino(r.v, r.ip)
      removed == AddLinks(SetEntry(r.v, Ino(r.v, r.pdir), n, 0), i, -1) IN
  IF ~r.ok THEN {r.v}
  ELSE IF kind[i] = "dir" THEN {}
  ELSE {Iput(Iput(removed, r.ip), r.pdir)}

Unlink(p) ==
  /\ Leaves(Unlinked(Namei(volume, p, "delete"), Last(p)))
  /\ UNCHANGED ofile

(* Where mkdir finds no room: for "." and "..", or for the name.  The last *)
(* leaves the link of ".." with the parent: mkdir looks that up by the     *)
(* name it could not make.                                                 *)
Made(r, g, p, i, outcome) ==
  LET d == Ino(r.v, r.pdir)
      counted == [g.v EXCEPT !.kind[i] = "dir", !.nlink[i] = 2, !.nlink[d] = @ + 1]
      dots == SetEntry(SetEntry(counted, i, ".", i), i, "..", d)
      entered == Direnter([r EXCEPT !.v = dots], Last(p), i, outcome = "made") IN
  Iput(CASE outcome = "made" -> entered
         [] outcome = "no dots" -> Iput(AddLinks(AddLinks(counted, d, -1), i, -2), r.pdir)
         [] outcome = "no name" -> AddLinks(Namei(entered, p, "lookup").v, i, -2),
       g.s)

Makedir(r, p) ==
  IF Makes(r)
  THEN {Made(r, Iget(r.v, i), p, i, outcome) :
          i \in Unused, outcome \in {"made", "no dots", "no name"}}
  ELSE {Released(r)}

Mkdir(p) ==
  /\ Leaves(Makedir(Namei(volume, p, "create"), p))
  /\ UNCHANGED ofile

Removed(r, n) ==
  LET d == Ino(r.v, r.pdir)
      i == Ino(r.v, r.ip)
      removed == Cacheinval(AddLinks(SetEntry(r.v, d, n, 0), d, -1), r.pdir)
      purged == Cacheinval(Itrunc(AddLinks(Iput(removed, r.pdir), i, -2), i), r.ip) IN
  IF ~r.ok THEN r.v
  ELSE IF kind[i] = "dir" /\ nlink[i] = 2 /\ Dirempty(r.v, i, d)
  THEN Iput(purged, r.ip)
  ELSE Iput(Iput(r.v, r.pdir), r.ip)

Rmdir(p) ==
  /\ Leaves({Removed(Namei(volume, p, "delete"), Last(p))})
  /\ UNCHANGED ofile

-----------------------------------------------------------------------------
(* rename.                                                                 *)

(* checkpath: i is not on the way up from the directory in slot t, which   *)
(* is released                                                             *)
RECURSIVE Checkpath(_, _)
Checkpath(g, i) ==
  LET d == Ino(g.v, g.s)
      up == g.v.entry[d][".."]
      v == Iput(g.v, g.s) IN
  IF d = i \/ (d # ROOT /\ up = i) THEN [v |-> v, ok |-> FALSE]
  ELSE IF d = ROOT \/ up = ROOT THEN [v |-> v, ok |-> TRUE]
  ELSE Checkpath(Iget(v, up), i)

(* The new name is searched again after checkpath released its directory,  *)
(* until that comes back in the same slot.                                 *)
RECURSIVE Search(_, _, _)
Again(c, dp, to, i) ==
  LET r == IF c.ok THEN Namei(c.v, to, "rewrite") ELSE Lost(c.v) IN
  IF ~r.ok \/ r.pdir = dp THEN r ELSE Search(r, to, i)

Search(r, to, i) ==
  Again(Checkpath([v |-> IF Found(r) THEN Iput(r.v, r.ip) ELSE r.v, s |-> r.pdir], i),
        r.pdir, to, i)

(* Step 2, when the new name is there: the directory entry is rewritten.   *)
Squash(r, to, ip) ==
  LET d == Ino(r.v, r.pdir)
      x == Ino(r.v, r.ip)
      dir == r.v.kind[x] = "dir"
      inval == IF dir THEN Cacheinval(r.v, r.pdir) ELSE r.v
      rewritten == Iput(SetEntry(inval, d, Last(to), Ino(r.v, ip)), r.pdir)
      unlinked == AddLinks(rewritten, x, IF dir THEN -2 ELSE -1) IN
  Iput(IF dir THEN [Itrunc(unlinked, x) EXCEPT !.panicked = @ \/ unlinked.nlink[x] # 0]
       ELSE unlinked, r.ip)

SquashUnchecked(v, r, ip) ==     \* mutant: links to the target are not looked at
  LET dir(s) == v.kind[Ino(v, s)] = "dir" IN
  dir(r.ip) = dir(ip)

MaySquash(v, r, ip) ==
  LET x == Ino(v, r.ip)
      dir(s) == v.kind[Ino(v, s)] = "dir" IN
  /\ x # Ino(v, ip)
  /\ dir(r.ip) = dir(ip)
  /\ dir(ip) => Dirempty(v, x, Ino(v, r.pdir)) /\ v.nlink[x] <= 2

DotDotStale(v, i, d) == v        \* mutant: ".." stays

DotDot(v, i, d) == SetEntry(v, i, "..", d)

(* Step 3: the old name goes, if it still is ip's. *)
Unname(r, from, ip, newparent) ==
  LET i == Ino(r.v, ip)
      d == Ino(r.v, r.pdir)
      dir == r.v.kind[i] = "dir"
      moved == IF dir /\ newparent # 0
               THEN Cacheinval(DotDot(AddLinks(r.v, d, -1), i, newparent), r.pdir)
               ELSE r.v
      removed == AddLinks(SetEntry(moved, d, Last(from), 0), i, -1)
      w == IF r.ip = ip THEN removed ELSE [r.v EXCEPT !.panicked = @ \/ dir] IN
  Iput(IF r.ok THEN Iput(Iput(w, r.pdir), r.ip) ELSE r.v, ip)

(* Step 2: the new name, searched by r, is made or rewritten; if that      *)
(* fails, the link is taken back (not that of "..").                       *)
Undone(v, ip) == Iput(AddLinks(v, Ino(v, ip), -1), ip)

Placed(r, to, ip, newparent, room) ==
  LET dotdot == IF newparent # 0 THEN AddLinks(r.v, newparent, 1) ELSE r.v IN
  IF Makes(r) THEN Direnter([r EXCEPT !.v = dotdot], Last(to), Ino(r.v, ip), room)
  ELSE IF ~r.ok THEN r.v
  ELSE IF MaySquash(r.v, r, ip) THEN Squash(r, to, ip)
  ELSE Iput(Iput(r.v, r.pdir), r.ip)

Renaming(r, from, to, ip, newparent) ==
  {LET v == Placed(r, to, ip, newparent, room) IN
   IF r.ok /\ room /\ (Makes(r) \/ MaySquash(r.v, r, ip))
   THEN Unname(Namei(v, from, "delete"), from, ip, newparent)
   ELSE Undone(v, ip) : room \in Rooms(r)}

(* Step 1: the new name is searched, in another directory than oldparent   *)
(* only where that does not lie under ip.                                  *)
Placing(r, from, to, ip, oldparent) ==
  LET newparent == Ino(r.v, r.pdir)
      moves == r.ok /\ r.v.kind[Ino(r.v, ip)] = "dir" /\ newparent # oldparent IN
  Renaming(IF moves THEN Search(r, to, Ino(r.v, ip)) ELSE r, from, to, ip,
           IF moves THEN newparent ELSE 0)

Renamed(f, from) ==
  IF ~f.ok THEN {f.v}
  ELSE UNION {Placing(Namei(AddLinks(Iput(f.v, f.pdir), Ino(f.v, f.ip), 1), to, "rewrite"),
                      from, to, f.ip, Ino(f.v, f.pdir)) : to \in Paths \ {from}}

Rename(from) ==
  /\ Leaves(Renamed(Namei(volume, from, "delete"), from))
  /\ UNCHANGED ofile

-----------------------------------------------------------------------------
Init ==
  /\ kind = [i \in Inos |-> IF i = ROOT THEN "dir" ELSE "free"]
  /\ nlink = [i \in Inos |-> IF i = ROOT THEN 2 ELSE 0]
  /\ entry = [i \in Inos |-> IF i = ROOT
                THEN [n \in Components |-> IF n \in Names THEN 0 ELSE ROOT] ELSE NoEntries]
  /\ slot = [s \in Slots |-> IF s = rootslot THEN [number |-> ROOT, id |-> 1, count |-> 2]
                             ELSE [number |-> 0, id |-> 0, count |-> 0]]
  /\ ifree \in {q \in SetToSeqs(Slots \ {rootslot}) : TRUE}
  /\ cache = [c \in 1 .. NCache |-> Unhashed]
  /\ ofile = [fd \in FDs |-> None]
  /\ panicked = FALSE

Next ==
  /\ ~panicked
  /\ \/ \E p \in Paths : \/ Stat(p) \/ Mknod(p) \/ Link(p) \/ Unlink(p)
                         \/ Mkdir(p) \/ Rmdir(p) \/ Rename(p)
                         \/ \E fd \in FDs : Open(p, fd)
     \/ \E fd \in FDs : Close(fd)

Spec == Init /\ [][Next]_vars

-----------------------------------------------------------------------------
(* Properties.                                                             *)

(* The slots on the free list are those nobody holds, each once; between   *)
(* calls only descriptors hold any (the root twice more); and no inode is  *)
(* in two slots.                                                           *)
SlotsInStep ==
  /\ IsInjective(ifree)
  /\ ToSet(ifree) = {s \in Slots : slot[s].count = 0}
  /\ \A s \in Slots : slot[s].count = Cardinality({fd \in FDs : ofile[fd] = s})
                                       + (IF s = rootslot THEN 2 ELSE 0)
  /\ \A i \in Inos : Cardinality(Incore(volume, i)) <= 1

(* What the cache would answer is what the directory says, after any       *)
(* removals, moves and reuses of inodes and slots.                         *)
CacheAgrees ==
  \A c \in 1 .. NCache :
    cache[c] # Unhashed /\ Good(volume, c) =>
      LET i == slot[cache[c].slot].number IN
      /\ i # 0 /\ kind[cache[c].dir] = "dir"
      /\ entry[cache[c].dir][cache[c].name] = i

Named(i) == {t \in Inos \X Names : entry[t[1]][t[2]] = i}

(* A directory has one name, "." and ".." where they belong; no inode has  *)
(* fewer links than names, and whoever has none is free unless held; so    *)
(* rename never finds the directory it replaced still linked, or the old   *)
(* name of a directory gone, where it panics.                              *)
WellLinked ==
  /\ ~panicked
  /\ \A i \in Inos :
    /\ i # ROOT /\ Named(i) = {} =>
         kind[i] = "free" \/ \E fd \in FDs : ofile[fd] # None /\ slot[ofile[fd]].number = i
    /\ kind[i] = "free" => Named(i) = {}
    /\ nlink[i] >= Cardinality(Named(i))
    /\ kind[i] = "dir" /\ Named(i) # {} =>
         /\ Cardinality(Named(i)) = 1
         /\ entry[i]["."] = i /\ \E t \in Named(i) : entry[i][".."] = t[1]
         /\ nlink[i] >= 2 + Cardinality({n \in Names : entry[i][n] # 0 /\ kind[entry[i][n]] = "dir"})

(* Through the cache and the slots, each call is one step of a file tree.  *)
Tree == {t \in {<<d, n, entry[d][n]>> : d \in Inos, n \in Names} : t[3] # 0}

FT == INSTANCE FileTree
        WITH kind <- [i \in Inos |-> IF i = ROOT \/ \E d \in Inos, n \in Names : entry[d][n] = i
                                     THEN kind[i] ELSE "free"],
             tree <- Tree

IsAFileTree == FT!Spec
=============================================================================
