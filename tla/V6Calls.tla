------------------------------- MODULE V6Calls -------------------------------
(***************************************************************************)
(* The V6 kernel's own ways, and the calls of v6fs.c.                      *)
(***************************************************************************)
EXTENDS CallState

\* A slot whose inode cannot be read is put like any other.
iget(K, ino, r) == igetOr(K, ino, r, Give)

\* The directory is put before the next inode is taken.
onward(K) == iget(iput(K, "dp"), "dent", "dp")

\* rdwr and closef do not hold the inode.
plock(K, r)   == K
punlock(K, r) == K

FollowsLinks == FALSE
ReadsChecked == FALSE
LinkLimit    == TRUE
CountsFirst  == FALSE
SavesNew     == FALSE

Kernel == INSTANCE KernelCalls

namei(K, p, flag) == Kernel!namei(K, p, flag)
maknode(K)        == Kernel!maknode(K)
link(K, p, q)     == Kernel!link(K, p, q)
chmod(K, p)       == Kernel!chmod(K, p)
open1(K, trunc, write) == Kernel!open1(K, trunc, write)
close(K)          == Kernel!close(K)
rdwr(K)           == Kernel!rdwr(K)
stat1(K)          == Kernel!stat1(K)
update(K)         == Kernel!update(K)

\* The directory loses its lock before the inode is taken: it may be the
\* inode, or its parent.  An inode that cannot be had is a panic.
unlink(K, p) ==
    LET panic(S) == Put(S, "over", "dead")
        allowed(S) == Kernel!IfAllowed(S, "ip", Kernel!cleared)
        remove(S) == iput(iput(allowed(S), "dp"), "ip")
    IN  IfHeld(namei(K, p, 2), "dp", LAMBDA S :
            Null(iget(prele(S, "dp"), "dent", "ip"), "ip", panic, remove))

ParentFlag == 1

FE == INSTANCE FrontEnd

v6fs_open(K, p, trunc, write) == FE!fs_open(K, p, trunc, write)
v6fs_close(K) == FE!fs_close(K)
v6fs_readwrite(K) == FE!fs_readwrite(K)
v6fs_link(K, p, q) == FE!fs_link(K, p, q)
v6fs_mknod(K, p) == FE!fs_mknod(K, p)
v6fs_truncate(K, p) == FE!fs_truncate(K, p)
v6fs_stat(K, p) == FE!fs_stat(K, p)
v6fs_unlink(K, p) == FE!fs_unlink(K, p)
v6fs_rename(K) == FE!fs_rename(K)
v6fs_chmod(K, p) == FE!fs_chmod(K, p)
v6fs_chown(K, p) == FE!fs_chown(K, p)
v6fs_utimens(K, p) == FE!fs_utimens(K, p)
v6fs_access(K, p) == FE!fs_access(K, p)
v6fs_mkdir(K, p) == FE!fs_mkdir(K, p)
v6fs_rmdir(K, p) == FE!fs_rmdir(K, p)
v6fs_enumdir(K, p, f) == FE!fs_enumdir(K, p, f)
v6fs_sync(K) == FE!fs_sync(K)
v6fs_statfs(K) == FE!fs_statfs(K)
==============================================================================
