------------------------------ MODULE Bsd29Calls ------------------------------
(***************************************************************************)
(* The 2.9BSD kernel's own ways, and the calls of bsd29fs.c.               *)
(***************************************************************************)
EXTENDS CallState

\* A slot whose inode cannot be read is free again at once.
freed(K, r) ==
    Load(On(K, LAMBDA k : {[k EXCEPT !.ref[k.v[r]] = 0, !.lock = @ \ {k.v[r]}]}),
         r, None)

iget(K, ino, r) == igetOr(K, ino, r, freed)

\* The next inode is taken while the directory is referenced, not locked.
onward(K) ==
    LET onto(S) == Move(iput(S, "dp"), "tp", "dp")
        none(S) == Give(S, "dp")
    IN  Null(iget(prele(K, "dp"), "dent", "tp"), "tp", none, onto)

plock(K, r)   == ilock(K, r)
punlock(K, r) == prele(K, r)

FollowsLinks == TRUE
ReadsChecked == TRUE
LinkLimit    == FALSE
CountsFirst  == TRUE
SavesNew     == TRUE

Kernel == INSTANCE KernelCalls

namei(K, p, flag) == Kernel!namei(K, p, flag)
maknode(K)        == Kernel!maknode(K)
link(K, p, q)     == Kernel!link(K, p, q)
chmod(K, p)       == Kernel!chmod(K, p)
open1(K, trunc, write) == Kernel!open1(K, trunc, write)
close(K)          == Kernel!close(K)
rdwr(K)           == Kernel!rdwr(K)
stat1(K)          == Kernel!stat1(K)
update(K)         == Kernel!update(K)

unlink(K, p) == Kernel!unlinkHolding(K, p, TRUE)

\* The path of a link is read like a file.
readlink(K, p) ==
    LET text(S) == On(S, LAMBDA k : IF k.v["ip"] = LINK THEN Touch({k}, {"link"})
                                    ELSE Fail({k}, "ENXIO"))
    IN  IfHeld(Move(namei(K, p, 0), "dp", "ip"), "ip",
               LAMBDA S : iput(text(S), "ip"))

symlink(K, p) ==
    LET there(S) == Fail(iput(S, "dp"), "EEXIST")
        write(S) == iput(writei(S), "ip")
        made(S)  == IfHeld(maknode(S), "ip", write)
    IN  Null(namei(K, p, 1), "dp", LAMBDA S : IfFine(S, made), there)

ParentFlag == 0

FE == INSTANCE FrontEnd

bsd29fs_open(K, p, trunc, write) == FE!fs_open(K, p, trunc, write)
bsd29fs_close(K) == FE!fs_close(K)
bsd29fs_readwrite(K) == FE!fs_readwrite(K)
bsd29fs_link(K, p, q) == FE!fs_link(K, p, q)
bsd29fs_mknod(K, p) == FE!fs_mknod(K, p)
bsd29fs_truncate(K, p) == FE!fs_truncate(K, p)
bsd29fs_stat(K, p) == FE!fs_stat(K, p)
bsd29fs_unlink(K, p) == FE!fs_unlink(K, p)
bsd29fs_rename(K) == FE!fs_rename(K)
bsd29fs_chmod(K, p) == FE!fs_chmod(K, p)
bsd29fs_chown(K, p) == FE!fs_chown(K, p)
bsd29fs_utimens(K, p) == FE!fs_utimens(K, p)
bsd29fs_access(K, p) == FE!fs_access(K, p)
bsd29fs_mkdir(K, p) == FE!fs_mkdir(K, p)
bsd29fs_rmdir(K, p) == FE!fs_rmdir(K, p)
bsd29fs_enumdir(K, p, f) == FE!fs_enumdir(K, p, f)
bsd29fs_sync(K) == FE!fs_sync(K)
bsd29fs_statfs(K) == FE!fs_statfs(K)
bsd29fs_readlink(K, p) == Return(readlink(Clean(K), p))
bsd29fs_symlink(K, p)  == Return(symlink(Clean(K), p))
==============================================================================
