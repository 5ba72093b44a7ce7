----------------------------- MODULE Bsd211Calls -----------------------------
(***************************************************************************)
(* The 2.11BSD kernel's functions that take and give back inodes, and the  *)
(* calls of bsd211fs.c, which are system calls of that kernel: mkdir,      *)
(* rmdir and rename too.                                                   *)
(*                                                                         *)
(* Its namei hands back a locked inode, a locked directory, or both, and   *)
(* nothing when it fails.  The other kernels' linger on an error of an     *)
(* earlier function; here blkatoff gives no block while there is one, so   *)
(* the search of the last directory cannot succeed.                        *)
(***************************************************************************)
EXTENDS CallState

(***************************************************************************)
(* References and locks.                                                   *)
(***************************************************************************)
\* A slot whose inode cannot be read is put like any other.
iget(K, ino, r) == igetOr(K, ino, r, Give)

\* An inode known to be in core.
igrab(K, ino, r) ==
    LET counted(S) == On(S, LAMBDA k : {[k EXCEPT !.ref[k.v[ino]] = @ + 1]})
    IN  Move(ilock(counted(K), ino), ino, r)

\* Only a reference is given back, unless it is the last.
irele(K, r) ==
    On(K, LAMBDA k : IF k.v[r] = None THEN Stop(k, "dead")
                     ELSE IF k.ref[k.v[r]] = 1 THEN iput({k}, r)
                     ELSE {[k EXCEPT !.ref[k.v[r]] = @ - 1]})

\* u.u_error = what the function called last returns
Reported(K) == Unread(K, Same, Clean)

(***************************************************************************)
(* namei: to "lookup" an inode, also past a link at the end ("follow") or  *)
(* past the name cache ("nocache"); to "create" an entry, "rewrite" what   *)
(* there is or "delete" it, the last two with the directory held.          *)
(***************************************************************************)
bad(K) == GiveAny(K, "dp")

\* One component, in the directory dp.  A name in the cache is found without
\* a look at the directory.
search(K, n, cached) ==
    LET found(k)   == Found(k.ent, k.v["dp"], n)
        as(k, how) == [k EXCEPT !.seen = how, !.v["dent"] = found(k)]
        known(k)   == IF cached /\ found(k) # None THEN {as(k, "known")} ELSE {}
        entries(S) == On(S, LAMBDA k : {as(k, IF found(k) = None THEN "none" ELSE "hit")})
        blkatoff(k) == IfFine(brelse(bread({k}, "dir"), "dir"), entries)
    IN  On(Put(Put(K, "name", n), "seen", "out"), LAMBDA k :
            IF ~ IsDir(k, k.v["dp"]) THEN Fail({k}, "ENOTDIR")
            ELSE Fail({k}, "EACCES") \cup known(k) \cup blkatoff(k))

\* The entry's inode is taken, then the directory unlocked ("tp"); the other
\* way round on the way up.
onward(K) ==
    LET take(k, S) == IF k.seen = "known" THEN igrab(S, "dent", "dp")
                      ELSE iget(S, "dent", "dp")
        saved(k) == Move({k}, "dp", "tp")
        both(k)  == IF k.name = ".." THEN take(k, prele(saved(k), "tp"))
                    ELSE prele(take(k, saved(k)), "tp")
        bad2(S)  == irele(S, "tp")
    IN  Null(On(K, both), "dp", bad2, Same)

missing(K) == bad(Fail(K, "ENOENT"))

below(K, n, cached) ==
    IfHeld(K, "dp", LAMBDA S : Seen(search(S, n, cached), onward, missing, bad))

above(K) == IfHeld(K, "dp", LAMBDA S : irele(S, "tp"))

down(K, n) == above(below(K, n, TRUE))

fromRoot(K) == igrab(Load(K, "dent", ROOT), "dent", "dp")

\* A link at the end of the path: what it holds is read, and followed from its
\* directory or from the root.
followed(K) ==
    LET bad2(S) == Give(irele(S, "tp"), "dp")
        along(S, path(_)) == On(S, LAMBDA k : FoldLeft(down, {k}, path(k)))
        relative(S) == along(ilock(Move(iput(S, "dp"), "tp", "dp"), "dp"), LinkText)
        absolute(S) == along(fromRoot(irele(iput(S, "dp"), "tp")), LAMBDA k : k.new)
        path(S) == relative(S) \cup absolute(S)
    IN  bad2(Fail(K, "ELOOP"))
        \cup Unread(brelse(bread(K, "link"), "link"), bad2, path)

\* There is no such entry: the directory is handed back, locked.
place(K) == bad(Fail(K, "EACCES")) \cup Load(Move(K, "dp", "pdir"), "dp", None)

\* The directory and what the entry leads to are handed back, both locked.
child(K) ==
    LET none(S) == iput(S, "pdir")
        both(S) == Null(iget(Move(S, "dp", "pdir"), "dent", "dp"), "dp", none, Same)
    IN  bad(Fail(K, "EACCES")) \cup both(K)

\* In a directory with the sticky bit, only an owner may delete.
mine(K) ==
    On(K, LAMBDA k : {k} \cup (IF k.uid = 0 \/ k.v["dp"] = None THEN {}
                               ELSE bad(Fail(iput({k}, "pdir"), "EPERM"))))

last(K, n, op) ==
    LET follow(S) == LET T == below(S, n, TRUE)
                     IN  above({k \in T : k.v["dp"] # LINK})
                         \cup followed({k \in T : k.v["dp"] = LINK})
        there(S) == above(onward(S))
        gone(S)  == mine(child(S))
        create(S)  == Seen(search(S, n, TRUE), there, place, bad)
        rewrite(S) == Seen(search(S, n, FALSE), child, place, bad)
        delete(S)  == Seen(search(S, n, FALSE), gone, missing, bad)
    IN  CASE op = "lookup"  -> down(K, n)
          [] op = "nocache" -> above(below(K, n, FALSE))
          [] op = "follow"  -> follow(K)
          [] op = "create"  -> IfHeld(K, "dp", create)
          [] op = "rewrite" -> IfHeld(K, "dp", rewrite)
          [] op = "delete"  -> IfHeld(K, "dp", delete)

namei(K, p, op) ==
    On(K, LAMBDA k :
        LET path == PathOf(k, p)
        IN  last(FoldLeft(down, fromRoot({k}), Front(path)), Last(path), op))

(***************************************************************************)
(* Entries and new inodes.                                                 *)
(***************************************************************************)
\* The entry is written, whatever the putting of its directory meets.
direnter(K, r) ==
    LET put(S, failed) == Put(iput(S, "pdir"), "bad", failed)
        lost(S)    == put(S, TRUE)
        written(S) == put(On(S, LAMBDA k :
            {[k EXCEPT !.ent = @ \cup {<<k.v["pdir"], k.name, k.v[r]>>}]}), FALSE)
    IN  Error(writei(K), lost, written)

\* With an error about, or one of its own, the entry may stay.
dirremove(K) ==
    LET gone(k) == [k EXCEPT !.ent =
                      {e \in @ : <<e[1], e[2]>> # <<k.v["pdir"], k.name>>}]
        clear(S) == On(Touch(S, {"dir"}), LAMBDA k :
                        IF k.err = "" THEN {gone(k)} ELSE {k, gone(k)})
    IN  IfFine(K, clear)

\* The entry leads to another inode.
dirrewrite(K, from, to) ==
    LET written(S) == On(S, LAMBDA k :
            {[k EXCEPT !.ent = (@ \ {<<k.v["pdir"], k.name, k.v[from]>>})
                                \cup {<<k.v["pdir"], k.name, k.v[to]>>}]})
    IN  iput(IfFine(Touch(K, {"dir"}), written), "pdir")

Vacant(k, i) ==
    \A e \in k.ent : e[1] = i => e[2] \in {".", ".."}

ialloc(K) ==
    On(Touch(K, {"ilist"}), LAMBDA k :
        Load(Fail({k}, "ENOSPC"), "ip", None)
        \cup iget(Load({k}, "xp", FREE), "xp", "ip"))

putParent(K) == iput(K, "pdir")

maknode(K) ==
    LET lost(S)    == Give(S, "ip")
        entered(S) == Unread(Reported(direnter(iupdat(S), "ip")), lost, Same)
    IN  Null(ialloc(K), "ip", putParent, entered)

(***************************************************************************)
(* System calls.                                                           *)
(***************************************************************************)
\* Only root may link or unlink a directory.
Allowed(k, r) == k.uid = 0 \/ ~ IsDir(k, k.v[r])

\* The inode keeps its reference and loses its lock: the new name may lead
\* through it.
link(K, p, q) ==
    LET there(S) == iput(Fail(S, "EEXIST"), "dp")
        enter(S) == IfFine(S, LAMBDA T : Reported(direnter(T, "ip")))
        named(S) == Null(namei(prele(iupdat(S), "ip"), q, "create"), "dp", enter, there)
        held(S)  == On(S, LAMBDA k : IF Allowed(k, "ip") THEN irele(named({k}), "ip")
                                     ELSE iput(Fail({k}, "EPERM"), "ip"))
    IN  IfHeld(Move(namei(K, p, "follow"), "dp", "ip"), "ip", held)

unlink(K, p) ==
    LET remove(S) == On(S, LAMBDA k : IF Allowed(k, "dp") THEN dirremove({k})
                                      ELSE Fail({k}, "EPERM"))
        held(S) == iput(iput(remove(S), "dp"), "pdir")
    IN  IfHeld(namei(K, p, "delete"), "dp", held)

\* An empty directory; the read that finds it so may fail.
rmdir(K, p) ==
    LET end(S)     == iput(iput(S, "pdir"), "dp")
        cut(S)     == iput(itrunc(iput(S, "pdir")), "dp")
        empty(S)   == On(Touch(S, {"dir"}), LAMBDA k :
                          IF k.err = "" /\ Vacant(k, k.v["dp"])
                          THEN Error(dirremove({k}), end, cut)
                          ELSE end(Fail({k}, "ENOTEMPTY")))
        held(S)    == On(S, LAMBDA k : IF IsDir(k, k.v["dp"]) THEN empty({k})
                                       ELSE end(Fail({k}, "ENOTDIR")))
    IN  IfHeld(namei(K, p, "delete"), "dp", held)

\* The inode, then its "." and "..", then its entry.  What has the name already
\* stays held when the giving back of its directory met an error.
mkdir(K, p) ==
    LET there(S) == iput(Fail(S, "EEXIST"), "dp")
        dots(S)  == IfFine(writei(S), LAMBDA T : On(T, LAMBDA k :
                        {[k EXCEPT !.ent = @ \cup Dots(k.v["ip"], k.v["pdir"])]}))
        lost(S)  == iput(iput(S, "pdir"), "ip")
        undo(S)  == iput(bad(namei(S, p, "nocache")), "ip")
        done(S)  == iput(S, "ip")
        enter(S) == Unread(Reported(direnter(S, "ip")), undo, done)
        build(S) == Error(dots(iupdat(S)), lost, enter)
        make(S)  == Null(ialloc(Put(S, "newdir", TRUE)), "ip", putParent, build)
        kept(S)  == IfHeld(S, "dp", LAMBDA T : On(T, LAMBDA k :
                        {[k EXCEPT !.left = {k.v["dp"]}]}))
    IN  Error(namei(K, p, "create"), kept, LAMBDA S : Null(S, "dp", make, there))

readlink(K, p) ==
    LET text(S) == On(S, LAMBDA k : IF k.v["dp"] = LINK THEN Touch({k}, {"link"})
                                    ELSE Fail({k}, "EINVAL"))
    IN  IfHeld(namei(K, p, "lookup"), "dp", LAMBDA S : iput(text(S), "dp"))

symlink(K, p) ==
    LET there(S) == iput(Fail(S, "EEXIST"), "dp")
        write(S) == iput(writei(S), "ip")
        made(S)  == IfHeld(maknode(S), "ip", write)
    IN  Null(namei(K, p, "create"), "dp", LAMBDA S : IfFine(S, made), there)

chmod(K, p) ==
    IfHeld(namei(K, p, "follow"), "dp",
           LAMBDA S : iput(Clean(S) \cup Fail(S, "EPERM"), "dp"))

truncate(K, p) ==
    LET cut(S) == On(S, LAMBDA k : IF IsDir(k, k.v["dp"]) THEN Fail({k}, "EISDIR")
                                   ELSE itrunc({k}))
    IN  IfHeld(namei(K, p, "follow"), "dp",
               LAMBDA S : iput(Fail(S, "EACCES") \cup cut(S), "dp"))

saccess(K, p) ==
    IfHeld(namei(K, p, "follow"), "dp", LAMBDA S : iput(access(S), "dp"))

\* What it tells is about the inode ip.
stat1(K, p) ==
    IfHeld(Move(namei(K, p, "follow"), "dp", "ip"), "ip",
           LAMBDA S : Clean(iput(S, "ip")))

(***************************************************************************)
(* rename.                                                                 *)
(***************************************************************************)
\* Is the inode in a register above the directory pdir?  ".." leads upwards
\* until the root, or until it cannot be read.
checkpath(K, r) ==
    LET stop(k) == Put(iput({k}, "pdir"), "bad", k.err # "")
        up(k)   == LET d == Found(k.ent, k.v["pdir"], "..")
                   IN  IF d = k.v[r] THEN Fail({k}, "EINVAL")
                       ELSE IF d = ROOT THEN {[k EXCEPT !.seen = "none"]}
                       ELSE iget(Load(iput({k}, "pdir"), "dent", d), "dent", "pdir")
        step(S, n) == On(S, LAMBDA k :
            IF k.err # "" \/ k.seen = "none" THEN {k}
            ELSE IfFine(Touch({k}, {"dir"}), LAMBDA T : On(T, up)))
        \* No directory lies deeper than two below the root.
        climb(S) == FoldLeft(step, Put(S, "seen", ""), <<1, 2>>)
        first(k) == IF k.v["pdir"] = k.v[r] THEN Fail({k}, "EEXIST")
                    ELSE IF k.v["pdir"] = ROOT THEN {k} ELSE climb({k})
        end(S)   == On(S, LAMBDA k : Put(GiveAny({k}, "pdir"), "bad", k.err # ""))
    IN  Reported(end(On(K, first)))

\* Whoever was let through to the old name is let through again.
Granted(K) == {k \in K : k.err \notin {"EACCES", "EPERM"}}

\* 3) Unlink the source.
source(K, moved) ==
    LET lost(S) == On(S, LAMBDA k : IF IsDir(k, k.v["ip"]) THEN Stop(k, "dead")
                                    ELSE {k})
        dotdot(S) == On(S, LAMBDA k :
            {[k EXCEPT !.ent = (@ \ {<<k.v["ip"], "..", k.v["oldparentip"]>>})
                                \cup {<<k.v["ip"], "..", k.v["newparentip"]>>}]})
        parent(S) == IF moved THEN IfFine(Touch(S, {"dir"}), LAMBDA T :
                                          IfFine(Touch(T, {"dir"}), dotdot)) ELSE S
        gone(S) == iput(iput(dirremove(parent(S)), "pdir"), "newip")
        again(S) == Granted(namei(S, <<"old">>, "delete"))
    IN  irele(Null(Move(again(K), "dp", "newip"), "newip", lost, gone), "ip")

\* 2) The target is linked to the source, or its entry rewritten.
target(K, isdir, moved) ==
    LET out(S)  == irele(S, "ip")
        bad1(S) == out(GiveAny(S, "newip"))
        bad0(S) == bad1(iput(S, "pdir"))
        on(S)   == source(S, moved)
        counted(S) == IF moved THEN iupdat(S) ELSE S
        enter(S) == Unread(direnter(counted(S), "ip"), out, on)
        squash(S) == on(iput(IF isdir THEN itrunc(S) ELSE S, "newip"))
        rewrite(S) == Error(dirrewrite(S, "newip", "ip"), bad1, squash)
        sticky(S) == On(S, LAMBDA k : IF k.uid = 0 THEN {} ELSE bad0(Fail({k}, "EPERM")))
        empty(S) == On(Touch(S, {"dir"}), LAMBDA k :
            IF k.err = "" /\ Vacant(k, k.v["newip"]) THEN
                IF isdir THEN rewrite({k}) ELSE bad0(Fail({k}, "ENOTDIR"))
            ELSE bad0(Fail({k}, "ENOTEMPTY")))
        replace(S) == sticky(S) \cup On(S, LAMBDA k :
            IF IsDir(k, k.v["newip"]) THEN empty({k})
            ELSE IF isdir THEN bad0(Fail({k}, "EISDIR")) ELSE rewrite({k}))
        same(S) == On(S, LAMBDA k : IF k.v["newip"] = k.v["ip"] THEN bad0({k})
                                    ELSE replace({k}))
    IN  Null(K, "newip", enter, same)

\* A directory with a new parent must not be above it, and must be writable.
rename(K) ==
    LET out(S)    == irele(S, "ip")
        look(S)   == Move(Move(namei(S, <<"new">>, "rewrite"), "dp", "newip"),
                          "pdir", "newparentip")
        refused(S) == out(GiveAny(iput(Fail(S, "EACCES"), "pdir"), "newip"))
        again(S)  == Error(look(S), out, LAMBDA T : target(T, TRUE, TRUE))
        climb(S)  == Error(checkpath(GiveAny(S, "newip"), "ip"), out, again)
        go(S) == On(S, LAMBDA k :
            LET isdir == IsDir(k, k.v["ip"])
                moved == k.v["oldparentip"] # k.v["newparentip"]
            IN  IF isdir /\ moved THEN refused({k}) \cup climb({k})
                ELSE target({k}, isdir, FALSE))
        held(S) == Error(look(prele(iupdat(iput(Move(S, "pdir", "oldparentip"),
                                                "pdir")), "ip")), out, go)
    IN  IfHeld(Move(namei(K, <<"old">>, "delete"), "dp", "ip"), "ip", held)

(***************************************************************************)
(* The calls of bsd211fs.c.                                                *)
(***************************************************************************)
\* The descriptor comes first; open never truncates, whatever its flags.
bsd211fs_open(K, p, write) ==
    LET bad1(S) == Load(iput(S, "dp"), "fd", None)
        got(S)  == On(Move(prele(S, "dp"), "dp", "fd"), LAMBDA k :
                       {[k EXCEPT !.open[k.v["fd"]] = @ + 1]})
        right(S) == On(S, LAMBDA k : IF write /\ IsDir(k, k.v["dp"])
                                     THEN Fail({k}, "EISDIR") ELSE access({k}))
        found(S) == Error(right(S), bad1, LAMBDA T : got(Clean(T)))
    IN  Return(Fail(K, "EMFILE")
               \cup IfHeld(namei(Clean(Load(K, "fd", None)), p, "follow"), "dp", found))

bsd211fs_close(K) ==
    LET shut(S) == On(S, LAMBDA k : {[k EXCEPT !.open[k.v["fd"]] = @ - 1]})
    IN  Put(Load(irele(shut(Clean(K)), "fd"), "fd", None), "res", 0)

bsd211fs_readwrite(K) ==
    Return(Fail(K, "EBADF")
           \cup prele(Touch(ilock(Clean(K), "fd"), {"dir", "flist"}), "fd"))

bsd211fs_fsync(K) ==
    Return(prele(Touch(ilock(Clean(K), "fd"), {"dir", "flist", "ilist"}), "fd"))

\* Its last iput's error is not reported.
bsd211fs_mknod(K, p) ==
    LET there(S) == Refuse(iput(S, "dp"))
        done(S)  == Put(iput(S, "ip"), "res", 0)
        node(S)  == Null(maknode(S), "ip", Return, done)
    IN  Null(namei(Clean(K), p, "create"), "dp",
             LAMBDA S : Error(S, Return, node), there)

\* Too long a file is refused.
bsd211fs_truncate(K, p) == Refuse(K) \cup Return(truncate(Clean(K), p))

bsd211fs_link(K, p, q)  == Return(link(Clean(K), p, q))
bsd211fs_unlink(K, p)   == Return(unlink(Clean(K), p))
bsd211fs_rename(K)      == Return(rename(Clean(K)))
bsd211fs_stat(K, p)     == Return(stat1(Clean(K), p))
bsd211fs_chmod(K, p)    == Return(chmod(Clean(K), p))
bsd211fs_access(K, p)   == Return(saccess(Clean(K), p))
bsd211fs_readlink(K, p) == Return(readlink(Clean(K), p))
bsd211fs_symlink(K, p)  == Return(symlink(Clean(K), p))
bsd211fs_mkdir(K, p)    == Return(mkdir(Clean(K), p))
bsd211fs_rmdir(K, p)    == Return(rmdir(Clean(K), p))

bsd211fs_chown(K, p) ==
    LET owner(S) == On(S, LAMBDA k : {k} \cup
                        (IF k.uid = 0 THEN {} ELSE Fail({k}, "EPERM")))
    IN  IfHeld(Return(namei(Clean(K), p, "lookup")), "dp",
               LAMBDA S : Return(iput(owner(S), "dp")))

\* Nothing to set, or the times reach the disk, or what access returns.
bsd211fs_utimens(K, p) ==
    LET set(S) == Put(S, "res", 0) \cup Return(iupdat(S))
                  \cup On(S, LAMBDA k : IF k.uid = 0 THEN {}
                                        ELSE Put(Fail({k}, "EACCES"), "res", 1))
    IN  IfHeld(Return(namei(Clean(K), p, "follow")), "dp",
               LAMBDA S : iput(set(S), "dp"))

\* One entry of the directory: its inode is taken, told of, and given back.
turn(K) ==
    LET inode(S) == Null(iget(Clean(S), "xp", "ip"), "ip", Return,
                         LAMBDA T : Give(T, "ip"))
        entry(k) == {k} \cup inode({[k EXCEPT !.v["xp"] = i] : i \in
                        {j \in Inodes : \E e \in k.ent : e[1] = k.v["fd"] /\ e[3] = j}})
    IN  IfDone(bsd211fs_readwrite(K), LAMBDA S : On(S, entry))

bsd211fs_enumdir(K, p) ==
    LET list(S) == Keeping(IfDone(turn(S), turn), bsd211fs_close)
    IN  IfDone(Load(bsd211fs_open(K, p, FALSE), "ip", None), list)

\* What ufs_sync cannot read it does not tell of.
bsd211fs_sync(K) == Put(Touch(K, {"ilist"}), "res", 0)

bsd211fs_statfs(K) == Put(K, "res", 0)
=============================================================================
