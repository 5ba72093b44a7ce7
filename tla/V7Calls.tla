------------------------------- MODULE V7Calls -------------------------------
(***************************************************************************)
(* The V7 kernel's own ways, and the calls of v7fs.c.                      *)
(***************************************************************************)
EXTENDS CallState

\* A slot whose inode cannot be read is put like any other.
iget(K, ino, r) == igetOr(K, ino, r, Give)

\* The directory is put before the next inode is taken.
onward(K) == iget(iput(K, "dp"), "dent", "dp")

\* plock does nothing (v7adapt.c).
plock(K, r)   == K
punlock(K, r) == prele(K, r)

FollowsLinks == FALSE
ReadsChecked == TRUE
LinkLimit    == FALSE
CountsFirst  == FALSE
SavesNew     == FALSE

Kernel == INSTANCE KernelCalls

namei(K, p, flag) == Kernel!namei(K, p, flag)
maknode(K)        == Kernel!maknode(K)
link(K, p, q)     == Kernel!link(K, p, q)
chmod(K, p)       == Kernel!chmod(K, p)
open1(K, trunc, write) == Kernel!open1(K, trunc, write)
close(K)          == Kernel!close(K)
rdwr(K)           == Kernel!rdwr(K)
stat1(K)          == Kernel!stat1(K)
update(K)         == Kernel!update(K)

unlink(K, p) == Kernel!unlinkHolding(K, p, FALSE)

ParentFlag == 1

FE == INSTANCE FrontEnd

v7fs_open(K, p, trunc, write) == FE!fs_open(K, p, trunc, write)
v7fs_close(K) == FE!fs_close(K)
v7fs_readwrite(K) == FE!fs_readwrite(K)
v7fs_link(K, p, q) == FE!fs_link(K, p, q)
v7fs_mknod(K, p) == FE!fs_mknod(K, p)
v7fs_truncate(K, p) == FE!fs_truncate(K, p)
v7fs_stat(K, p) == FE!fs_stat(K, p)
v7fs_unlink(K, p) == FE!fs_unlink(K, p)
v7fs_rename(K) == FE!fs_rename(K)
v7fs_chmod(K, p) == FE!fs_chmod(K, p)
v7fs_chown(K, p) == FE!fs_chown(K, p)
v7fs_utimens(K, p) == FE!fs_utimens(K, p)
v7fs_access(K, p) == FE!fs_access(K, p)
v7fs_mkdir(K, p) == FE!fs_mkdir(K, p)
v7fs_rmdir(K, p) == FE!fs_rmdir(K, p)
v7fs_enumdir(K, p, f) == FE!fs_enumdir(K, p, f)
v7fs_sync(K) == FE!fs_sync(K)
v7fs_statfs(K) == FE!fs_statfs(K)
==============================================================================
