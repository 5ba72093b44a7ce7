---------------------------- MODULE KernelCalls ----------------------------
(***************************************************************************)
(* The functions of a kernel that take and give back inodes, where V6, V7  *)
(* and 2.9BSD have the same: namei, wdir, maknode, the system calls.       *)
(***************************************************************************)
EXTENDS CallState

CONSTANTS
    iget(_, _, _),      \* (K, number in, inode to)
    onward(_),          \* namei, from a directory to the inode of its entry
    plock(_, _), punlock(_, _),   \* rdwr and closef hold the inode
    FollowsLinks,       \* link and chmod follow a symbolic link
    ReadsChecked,       \* namei stops when a directory's block cannot be read
    LinkLimit,          \* link refuses an inode of too many links
    CountsFirst,        \* link counts the link before it makes the entry
    SavesNew            \* maknode writes the inode before the entry

(***************************************************************************)
(* namei: flag 0 wants the inode, 1 a place for a new name, 2 the          *)
(* directory and its entry.                                                *)
(***************************************************************************)
\* One component, in the directory dp: there ("hit"), not there ("none"), or
\* the search ends in an error ("out").  A block whose number bmap cannot read
\* is searched for all the same, whatever it is.
search(K, n) ==
    LET isdir(S) == On(S, LAMBDA k : IF IsDir(k, k.v["dp"]) THEN {k}
                                     ELSE Fail({k}, "ENOTDIR"))
        found(k) == Found(k.ent, k.v["dp"], n)
        entries(S) == On(S, LAMBDA k :
            IF ReadsChecked /\ k.bad THEN {k}
            ELSE {[k EXCEPT !.seen = IF found(k) = None THEN "none" ELSE "hit",
                            !.v["dent"] = found(k)]}
                 \cup (IF k.err = "" THEN {} ELSE Put({k}, "seen", "none")))
        blocks(S) == entries(brelse(bread(Touch(S, {"dir"}), "dir"), "dir"))
        allowed(S) == IfFine(access(S), blocks)
        asdir(S) == IfFine(isdir(S), allowed)
    IN  IfFine(Put(Put(K, "name", n), "seen", "out"), asdir)

out(K)     == Give(K, "dp")
missing(K) == Give(Fail(K, "ENOENT"), "dp")

down(K, n) ==
    IfHeld(K, "dp", LAMBDA S : Seen(search(S, n), onward, missing, out))

\* The end of the path: what there is, unless something went wrong.
arrive(K) == IfHeld(K, "dp", LAMBDA S : Error(S, out, Same))

\* flag 1: u_pdir is left held and locked, whatever u_error says.
place(K, n) ==
    LET leak(S) == On(S, LAMBDA k : {[k EXCEPT !.left = @ \cup {k.v["pdir"]}]})
        here(S) == Error(Load(Move(S, "dp", "pdir"), "dp", None), leak, Same)
        none(S) == here(S) \cup out(Fail(S, "EACCES"))
        hit(S)  == arrive(onward(S))
    IN  IfHeld(K, "dp", LAMBDA S : Seen(search(S, n), hit, none, out))

\* flag 2: the directory is returned, whatever u_error says.
entry(K, n) ==
    LET hit(S) == S \cup out(Fail(S, "EACCES"))
    IN  IfHeld(K, "dp", LAMBDA S : Seen(search(S, n), hit, missing, out))

fromRoot(K) == iget(Load(K, "dent", ROOT), "dent", "dp")

namei(K, p, flag) ==
    On(K, LAMBDA k :
        LET path == PathOf(k, p)
            dir  == FoldLeft(down, fromRoot({k}), Front(path))
        IN  CASE flag = 0 /\ path = <<>> -> arrive(dir)
              [] flag = 0 /\ path # <<>> -> arrive(down(dir, Last(path)))
              [] flag # 0 /\ path = <<>> -> missing(dir)
              [] flag = 1 /\ path # <<>> -> place(dir, Last(path))
              [] flag = 2 /\ path # <<>> -> entry(dir, Last(path)))

\* namei of the end of a path, where a symbolic link is followed.  Its block
\* is held (u_sbuf) until the last name of the path in it has been fetched;
\* the path begins at the link's directory, which was never put, or at the
\* root.  A link that is too long, or one of too many, is an error.
followed(K) ==
    LET along(k, p) == down(brelse(FoldLeft(down, {k}, Front(p)), "link"), Last(p))
        below(S)    == On(S, LAMBDA k : along(k, LinkText(k)))
        fromTop(S)  == On(S, LAMBDA k : along(k, k.new))
        path(S)     == below(plock(S, "dp")) \cup fromTop(fromRoot(iput(S, "dp")))
        unread(S)   == out(iput(brelse(S, "link"), "tp"))
        enter(S)    == path(iput(S, "tp"))
        link(S)     == out(iput(Fail(S, "ELOOP"), "tp"))
                       \cup Unread(bread(S, "link"), unread, enter)
        plain(S)    == Move(iput(S, "dp"), "tp", "dp")
        taken(S)    == plain({k \in S : k.v["tp"] # LINK})
                       \cup link({k \in S : k.v["tp"] = LINK})
    IN  Null(iget(prele(K, "dp"), "dent", "tp"), "tp", out, taken)

through(K, p) ==
    IF ~ FollowsLinks THEN namei(K, p, 0)
    ELSE On(K, LAMBDA k :
        LET path == PathOf(k, p)
            dir  == FoldLeft(down, fromRoot({k}), Front(path))
            last(S) == Seen(search(S, Last(path)), followed, missing, out)
        IN  arrive(IF path = <<>> THEN dir ELSE IfHeld(dir, "dp", last)))

(***************************************************************************)
(* New inodes and new entries.                                             *)
(***************************************************************************)
\* The entry is written, and u_pdir put.
wdir(K, r) ==
    LET written(S) == On(S, LAMBDA k :
            {[k EXCEPT !.ent = @ \cup {<<k.v["pdir"], k.name, k.v[r]>>}]})
    IN  iput(IfFine(writei(K), written), "pdir")

ialloc(K) ==
    On(Touch(K, {"ilist"}), LAMBDA k :
        Load(Fail({k}, "ENOSPC"), "ip", None)
        \cup iget(Load({k}, "xp", FREE), "xp", "ip"))

putParent(K) == iput(K, "pdir")
putNew(K)    == Give(K, "ip")
saved(K)     == IF SavesNew THEN iupdat(K) ELSE K
entered(K)   == Error(wdir(saved(K), "ip"), putNew, Same)

\* Mutant: the parent stays locked.
maknodeKeepsParent(K) == Null(ialloc(K), "ip", Same, entered)

maknode(K) == Null(ialloc(K), "ip", putParent, entered)

(***************************************************************************)
(* System calls.                                                           *)
(***************************************************************************)
\* Only root may link or unlink a directory.
IfAllowed(K, r, F(_)) ==
    On(K, LAMBDA k : IF k.uid # 0 /\ IsDir(k, k.v[r]) THEN Fail({k}, "EPERM")
                     ELSE F({k}))

\* The old inode keeps its reference and loses its lock: the new name may
\* lead through it.
counted(K) == IF CountsFirst THEN iupdat(K) ELSE K
asideLocked(K) == counted(K)     \* mutant: it stays locked
aside(K) == prele(counted(K), "ip")

link(K, p, q) ==
    LET few(S)   == S \cup (IF LinkLimit THEN Fail(S, "EMLINK") ELSE {})
        there(S) == iput(Fail(S, "EEXIST"), "dp")
        enter(S) == IfFine(S, LAMBDA T : wdir(T, "ip"))
        named(S) == Null(namei(aside(S), q, 1), "dp", enter, there)
        held(S)  == iput(IfFine(few(S), LAMBDA T : IfAllowed(T, "ip", named)), "ip")
    IN  IfHeld(Move(through(K, p), "dp", "ip"), "ip", held)

\* The entry of dp is cleared, unless its block cannot be had.
cleared(K) ==
    On(writei(K), LAMBDA k :
        LET gone == [k EXCEPT !.ent =
                       {e \in @ : <<e[1], e[2]>> # <<k.v["dp"], k.name>>}]
        IN  IF k.err = "" THEN {gone} ELSE {k, gone})

\* V7's and 2.9BSD's unlink, which takes the inode while it holds the
\* directory; with the sticky bit, only the owner may remove it.
unlinkHolding(K, p, sticky) ==
    LET take(S) == On(S, LAMBDA k :
            IF k.v["dp"] = k.v["dent"]
            THEN {[k EXCEPT !.ref[k.v["dp"]] = @ + 1, !.v["ip"] = k.v["dp"]]}
            ELSE iget({k}, "dent", "ip"))
        mine(S) == On(S, LAMBDA k : cleared({k}) \cup
                        (IF sticky /\ k.uid # 0 THEN Fail({k}, "EPERM") ELSE {}))
        remove(S) == iput(IfAllowed(S, "ip", mine), "ip")
        held(S) == iput(IfHeld(take(S), "ip", remove), "dp")
    IN  IfHeld(namei(K, p, 2), "dp", held)

chmod(K, p) ==
    LET owner(S) == On(S, LAMBDA k : {k} \cup (IF k.uid = 0 THEN {}
                                               ELSE Fail({k}, "EPERM")))
    IN  IfHeld(through(K, p), "dp", LAMBDA S : iput(owner(S), "dp"))

(***************************************************************************)
(* Open files.  The inode keeps the reference namei took, without its      *)
(* lock.                                                                   *)
(***************************************************************************)
open1(K, trunc, write) ==
    LET right(S) == On(S, LAMBDA k : IF write /\ IsDir(k, k.v["xp"])
                                     THEN Fail({k}, "EISDIR") ELSE {k})
        cut(S)   == prele(IF trunc THEN itrunc(S) ELSE S, "xp")
        falloc(S) == On(S, LAMBDA k : {k} \cup Fail({k}, "EMFILE"))
        none(S)  == Load(iput(S, "xp"), "fd", None)
        got(S)   == On(Move(S, "xp", "fd"), LAMBDA k :
                        {[k EXCEPT !.open[k.v["fd"]] = @ + 1]})
        opened(S) == IfFine(cut(S), falloc)
        allowed(S) == IfFine(right(S), opened)
    IN  Error(IfFine(access(K), allowed), none, got)

close(K) ==
    LET shut(S) == On(S, LAMBDA k : {[k EXCEPT !.open[k.v["fd"]] = @ - 1]})
    IN  Load(iput(plock(shut(K), "fd"), "fd"), "fd", None)

rdwr(K) ==
    punlock(Touch(plock(K, "fd"), {"dir", "flist"}), "fd") \cup Fail(K, "EBADF")

stat1(K) == Touch(iupdat(K), {"ilist"})

update(K) == Touch(K, {"ilist", "flist", "dir"})
=============================================================================
