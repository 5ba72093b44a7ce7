------------------------------ MODULE FrontEnd ------------------------------
(***************************************************************************)
(* The calls of v6fs.c, over the kernel's functions; v7fs.c and bsd29fs.c  *)
(* make the same ones, each of its kernel.                                 *)
(***************************************************************************)
EXTENDS CallState

CONSTANTS
    namei(_, _, _), iget(_, _, _), maknode(_), link(_, _, _), unlink(_, _),
    chmod(_, _), open1(_, _, _), close(_), rdwr(_), stat1(_), update(_),
    ParentFlag      \* how isindir looks a directory up

\* The inode of a path, into a register, from a clean u_error.
Look(K, p, r) == Move(namei(Clean(K), p, 0), "dp", r)

\* What is done with the inode of a path, which is put in the end.
WithInode(K, p, F(_)) ==
    Null(Look(K, p, "ip"), "ip", Return, LAMBDA S : iput(F(S), "ip"))

\* Anybody but root may be refused.
Owner(K) == On(K, LAMBDA k : {k} \cup (IF k.uid = 0 THEN {} ELSE Refuse({k})))

AsRoot(K)  == Put(K, "uid", 0)
Restore(K) == On(K, LAMBDA k : {[k EXCEPT !.uid = k.caller]})

fs_open(K, p, trunc, write) ==
    Return(IfHeld(Load(Look(K, p, "xp"), "fd", None), "xp",
                  LAMBDA S : open1(S, trunc, write)))

fs_close(K) == Put(close(Clean(K)), "res", 0)

\* A read or a write of an open file: some bytes, or an error.
fs_readwrite(K) == Return(rdwr(Clean(K)))

fs_link(K, p, q) == Return(link(Clean(K), p, q))

fs_unlinkQuiet(K, p) == Put(unlink(Clean(K), p), "res", 0)      \* mutant

fs_unlink(K, p) == Return(unlink(Clean(K), p))

fs_chmod(K, p) == Return(chmod(Clean(K), p))

\* The inode of a new name, or why there is none.
New(K, p, make(_)) ==
    Null(namei(Clean(K), p, 1), "dp", LAMBDA S : Error(S, Return, make),
         LAMBDA S : Refuse(iput(S, "dp")))

putIp(K) == Return(iput(K, "ip"))

fs_mknod(K, p) == New(K, p, LAMBDA S : Null(maknode(S), "ip", Return, putIp))

fs_truncate(K, p) == WithInode(K, p, LAMBDA S : Return(itrunc(S)) \cup Refuse(S))

fs_stat(K, p) == WithInode(K, p, LAMBDA S : Return(stat1(S)))

fs_access(K, p) == WithInode(K, p, LAMBDA S : Return(access(S)))

fs_chown(K, p) == WithInode(K, p, LAMBDA S : Owner(Put(S, "res", 0)))

\* Nothing to set, a caller who may not, or the times reach the disk.
fs_utimens(K, p) ==
    WithInode(K, p, LAMBDA S :
        Put(S, "res", 0)
        \cup IfDone(Owner(Put(S, "res", 0)), LAMBDA T : Return(iupdat(T))))

(***************************************************************************)
(* enumdir: one turn reads an entry, takes its inode, hands its status to  *)
(* the caller's function and gives it back; what ends the loop early       *)
(* leaves the inode to the code after it.                                  *)
(***************************************************************************)
Names(k, i) == {n \in {".", "..", "s", "x", "y"} : <<k.v["fd"], n, i>> \in k.ent}

\* The function of readdir goes on; that of rmdir stops at what is no dot.
Stops(f, k, i) == f = "failnonemptydir" /\ Names(k, i) \ {".", ".."} # {}

turn(K, f) ==
    LET filler(S) == On(S, LAMBDA k : IF Stops(f, k, k.v["xp"]) THEN Refuse({k})
                                      ELSE Give({k}, "ip"))
        status(S) == IfDone(Return(stat1(Clean(S))), filler)
        inode(S)  == Null(iget(Clean(S), "xp", "ip"), "ip", Refuse, status)
        entry(S)  == On(S, LAMBDA k :
            {k} \cup inode({[k EXCEPT !.v["xp"] = i] :
                              i \in {j \in Inodes : Names(k, j) # {}}}))
    IN  IfDone(fs_readwrite(K), entry)

fs_enumdir(K, p, f) ==
    LET again(S) == turn(S, f)
        shut(S)  == fs_close(GiveAny(S, "ip"))
        list(S)  == Keeping(IfDone(again(S), again), shut)
    IN  IfDone(Load(fs_open(K, p, FALSE, FALSE), "ip", None), list)

fs_rmdir(K, p) ==
    LET isdir(S)  == On(S, LAMBDA k : IF IsDir(k, k.v["ip"]) THEN {k}
                                      ELSE Refuse({k}))
        empty(S)  == fs_enumdir(S, p, "failnonemptydir")
        parent(S) == fs_unlink(AsRoot(S), Append(p, ".."))
        self(S)   == fs_unlink(S, Append(p, "."))
        name(S)   == fs_unlink(S, p)
    IN  Restore(IfDone(IfDone(IfDone(IfDone(IfDone(
            fs_stat(K, p), isdir), empty), parent), self), name))

fs_mkdir(K, p) ==
    LET self(S)   == fs_link(S, p, Append(p, "."))
        parent(S) == fs_link(S, <<"old^">>, Append(p, ".."))
        owner(S)  == Null(Look(S, p, "ip"), "ip", Return, putIp)
        mode(S)   == fs_chmod(S, p)
        built(S)  == IfDone(IfDone(IfDone(IfDone(putIp(S),
                         self), parent), owner), mode)
        dots(S)   == fs_unlink(fs_unlink(S, Append(p, "..")), Append(p, "."))
        gone(S)   == fs_unlink(dots(S), p)
        undo(S)   == {k \in S : k.res = 0} \cup Refuse(gone({k \in S : k.res # 0}))
        node(S)   == Null(maknode(AsRoot(Put(S, "newdir", TRUE))), "ip", Return,
                          LAMBDA T : undo(built(T)))
    IN  Restore(New(K, p, node))

(***************************************************************************)
(* rename.                                                                 *)
(***************************************************************************)
\* Is the directory in a register above "new"?  dirname, as far as the root;
\* a directory that is not there (in V6 and V7, the name "new" itself) is as
\* good as one that is another.
isindir(K, r) ==
    LET is(S)   == On(iput(S, "dp"), LAMBDA k :
                        IF k.v["dp"] = k.v[r] THEN Put({k}, "res", 1) ELSE {k})
        none(S) == On(S, LAMBDA k : IF k.err = "ENOENT" THEN {k} ELSE Refuse({k}))
        look(S, p) == IfDone(S, LAMBDA T :
                          Null(namei(T, p, ParentFlag), "dp", none, is))
    IN  On(Put(K, "res", 0), LAMBDA k :
            FoldLeft(look, {k}, [n \in 1..Len(k.new) |->
                                   <<"/">> \o SubSeq(k.new, 1, Len(k.new) - n)]))

reparentdir(K) ==
    LET opened(S)  == fs_open(prele(S, "newparentip"), <<"new">>, FALSE, FALSE)
        put(S)     == On(S, LAMBDA k :
            {[k EXCEPT !.ent = (@ \ {<<k.v["fd"], "..", k.v["oldparentip"]>>})
                                 \cup {<<k.v["fd"], "..", k.v["newparentip"]>>}]})
        write(S)   == IfDone(fs_readwrite(S), put)
        count(S)   == Return(iupdat(S))
        rewrite(S) == IfDone(IfDone(count(S), write), count)
        dotdot(S)  == Refuse(S) \cup On(S, LAMBDA k :
            LET d == Found(k.ent, k.v["fd"], "..")
            IN  IF d = k.v["newparentip"] THEN {k}
                ELSE Null(iget(Load({k}, "xp", d), "xp", "oldparentip"),
                          "oldparentip", Refuse, rewrite))
        shut(S)    == IfHeld(S, "fd", fs_close)
        end(S)     == GiveAny(iput(Keeping(S, shut), "newparentip"), "oldparentip")
        parent(S)  == end(IfDone(IfDone(opened(S), fs_readwrite), dotdot))
        above(S)   == namei(Load(S, "oldparentip", None), <<"new^">>, 0)
    IN  Null(Move(above(K), "dp", "newparentip"), "newparentip", Return, parent)

\* The old inode gets the new name, then loses the old one.
carriedUnlinkedFirst(K) ==      \* mutant
    IfDone(fs_unlink(AsRoot(K), <<"old">>),
           LAMBDA S : fs_link(S, <<"old">>, <<"new">>))

carried(K) ==
    IfDone(fs_link(AsRoot(K), <<"old">>, <<"new">>),
           LAMBDA S : fs_unlink(S, <<"old">>))

\* What has the new name is removed, the file is carried over, and a directory
\* gets its new parent.
move(K, isdir, there) ==
    LET outside(S) == IF isdir THEN On(isindir(S, "oldip"), LAMBDA k :
                                         IF k.res = 0 THEN {k} ELSE Refuse({k}))
                      ELSE S
        vacate(S)  == IF ~ there THEN Give(S, "oldip")
                      ELSE IF isdir THEN fs_rmdir(Give(S, "oldip"), <<"new">>)
                      ELSE fs_unlink(Give(S, "oldip"), <<"new">>)
        parent(S)  == IF isdir THEN reparentdir(S) ELSE S
    IN  IfDone(IfDone(IfDone(outside(K), vacate), carried), parent)

fs_rename(K) ==
    LET target(S) == Move(namei(prele(S, "oldip"), <<"new">>, 0), "dp", "newip")
        decide(S) == On(S, LAMBDA k :
            LET isdir == IsDir(k, k.v["oldip"])
                there == k.v["newip"] # None
            IN  IF k.v["newip"] = k.v["oldip"] THEN {k}
                ELSE IF there /\ isdir # IsDir(k, k.v["newip"]) THEN Refuse({k})
                ELSE move(GiveAny({k}, "newip"), isdir, there))
        end(S) == GiveAny(GiveAny(S, "oldip"), "newip")
        found(S) == end(decide(Put(target(S), "res", 0)))
    IN  Restore(Null(Load(Look(K, <<"old">>, "oldip"), "newip", None),
                     "oldip", Return, found))

fs_sync(K) == Return(update(Clean(K)))

\* The free list's blocks, then the inodes', after an update whose error is
\* still there: the one that cannot be read is never released.
fs_statfs(K) ==
    LET kept(S)   == Put(S, "left", {Buffer})
        last(S)   == brelse(S, "ilist")
        inodes(S) == Error(bread(S, "ilist"), kept, last)
        free(S)   == inodes(brelse(S, "flist"))
        list(S)   == Error(bread(S, "flist"), kept, free)
    IN  Return(On(update(Clean(K)), LAMBDA k : list({k}) \cup inodes({k})))
=============================================================================
