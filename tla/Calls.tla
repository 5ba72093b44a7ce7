-------------------------------- MODULE Calls --------------------------------
(***************************************************************************)
(* The calls the host makes of a mounted volume, one after the other, for  *)
(* whoever asks, and what each of them leaves behind: on a volume of each  *)
(* of the four kernels, with any read failing and the disk full at any     *)
(* moment.                                                                 *)
(***************************************************************************)
EXTENDS CallState

CONSTANTS MaxOpen, Users     \* descriptors open at once; who asks

V6     == INSTANCE V6Calls
V7     == INSTANCE V7Calls
Bsd29  == INSTANCE Bsd29Calls
Bsd211 == INSTANCE Bsd211Calls

Bsd     == {"bsd29", "bsd211"}
Kernels == {"v6", "v7"} \cup Bsd

VARIABLES
    kernel,    \* the kernel of the volume
    asked,     \* the call that has returned, and the tree it found
    k          \* what is held

vars == <<kernel, asked, k>>

idle == [call |-> "", ent |-> {}]

\* The root's references: V6 makes one directory of it and of "/", the others
\* make two.
roots == IF kernel = "v6" THEN 1 ELSE 2

Init ==
    /\ kernel \in Kernels
    /\ asked = idle
    /\ k = Idle(roots)

(***************************************************************************)
(* The trees a call may find: where "x" is, what it leads to, where "y"    *)
(* is, what it leads to.                                                   *)
(***************************************************************************)
Dirs == {ROOT, SUB}

OnePath == {<<po, x, ROOT, None>> : po \in Dirs, x \in {None, FILE, DIR}}
TwoPaths == {<<po, x, pn, y>> : po \in Dirs, x \in {None, FILE, DIR},
                                  pn \in Dirs, y \in {None, FILE, FILE2, DIR2}}

\* With a symbolic link, which only the BSDs have.
LinkPaths == {<<po, LINK, pn, y>> : po \in Dirs, pn \in Dirs, y \in {None, FILE2}}

\* A directory that is to move into itself.  The host never asks this.  No
\* isindir sees it where the new name does not exist (u_error still says that
\* it does not), so the calls here are of one that does.
Inside == {<<po, DIR, DIR, DIR2>> : po \in Dirs}

NoPath    == {<<ROOT, None, ROOT, None>>}
FilePath  == {<<po, FILE, ROOT, None>> : po \in Dirs}
AnyPath   == OnePath \cup LinkPaths
AnyPaths  == TwoPaths \cup LinkPaths
AnyRename == AnyPaths \cup Inside

Suits(names) == kernel \in Bsd \/ names[2] # LINK

\* What is open can be closed, the BSDs have calls for symbolic
\* links, and 2.11BSD has fsync.
Ready(name) ==
    /\ name = "open" => k.open[FILE] < MaxOpen
    /\ name \in {"release", "readwrite"} => k.open[FILE] > 0
    /\ name \in {"readlink", "symlink"} => kernel \in Bsd
    /\ name = "fsync" => k.open[FILE] > 0 /\ kernel = "bsd211"

\* A call, made by somebody of one of the trees, returns in one of the states
\* its kernel's way of it leads to.
Call(name, trees, v6(_), v7(_), bsd29(_), bsd211(_)) ==
    /\ asked = idle /\ k.over = "" /\ k.left = {} /\ Ready(name)
    /\ \E names \in trees, uid \in Users :
         /\ Suits(names)
         /\ asked' = [call |-> name, ent |-> Tree(names).ent]
         /\ k' \in LET K == Begin(k, Tree(names), uid)
                   IN  CASE kernel = "v6" -> v6(K) [] kernel = "v7" -> v7(K)
                         [] kernel = "bsd29" -> bsd29(K)
                         [] kernel = "bsd211" -> bsd211(K)
    /\ UNCHANGED kernel

Returned ==
    /\ asked # idle /\ k.over = ""
    /\ asked' = idle
    /\ k' = Ended(k)
    /\ UNCHANGED kernel

old == <<"old">>
new == <<"new">>

Stat ==
    LET v6(K) == V6!v6fs_stat(K, old)
        v7(K) == V7!v7fs_stat(K, old)
        bsd29(K) == Bsd29!bsd29fs_stat(K, old)
        bsd211(K) == Bsd211!bsd211fs_stat(K, old)
    IN  Call("stat", AnyPath, v6, v7, bsd29, bsd211)

Access ==
    LET v6(K) == V6!v6fs_access(K, old)
        v7(K) == V7!v7fs_access(K, old)
        bsd29(K) == Bsd29!bsd29fs_access(K, old)
        bsd211(K) == Bsd211!bsd211fs_access(K, old)
    IN  Call("access", AnyPath, v6, v7, bsd29, bsd211)

Chmod ==
    LET v6(K) == V6!v6fs_chmod(K, old)
        v7(K) == V7!v7fs_chmod(K, old)
        bsd29(K) == Bsd29!bsd29fs_chmod(K, old)
        bsd211(K) == Bsd211!bsd211fs_chmod(K, old)
    IN  Call("chmod", AnyPath, v6, v7, bsd29, bsd211)

Chown ==
    LET v6(K) == V6!v6fs_chown(K, old)
        v7(K) == V7!v7fs_chown(K, old)
        bsd29(K) == Bsd29!bsd29fs_chown(K, old)
        bsd211(K) == Bsd211!bsd211fs_chown(K, old)
    IN  Call("chown", AnyPath, v6, v7, bsd29, bsd211)

Utimens ==
    LET v6(K) == V6!v6fs_utimens(K, old)
        v7(K) == V7!v7fs_utimens(K, old)
        bsd29(K) == Bsd29!bsd29fs_utimens(K, old)
        bsd211(K) == Bsd211!bsd211fs_utimens(K, old)
    IN  Call("utimens", AnyPath, v6, v7, bsd29, bsd211)

Truncate ==
    LET v6(K) == V6!v6fs_truncate(K, old)
        v7(K) == V7!v7fs_truncate(K, old)
        bsd29(K) == Bsd29!bsd29fs_truncate(K, old)
        bsd211(K) == Bsd211!bsd211fs_truncate(K, old)
    IN  Call("truncate", AnyPath, v6, v7, bsd29, bsd211)

\* Of open files, the model keeps those of FILE.
Open ==
    \E trunc, write \in BOOLEAN :
        LET v6(K) == V6!v6fs_open(K, old, trunc, write)
            v7(K) == V7!v7fs_open(K, old, trunc, write)
            bsd29(K) == Bsd29!bsd29fs_open(K, old, trunc, write)
            bsd211(K) == Bsd211!bsd211fs_open(K, old, write)
        IN  Call("open", FilePath, v6, v7, bsd29, bsd211)

\* Calls of an open file find it by its descriptor, in whatever tree.
Of(K) == Load(K, "fd", FILE)

Release ==
    LET v6(K) == V6!v6fs_close(Of(K))
        v7(K) == V7!v7fs_close(Of(K))
        bsd29(K) == Bsd29!bsd29fs_close(Of(K))
        bsd211(K) == Bsd211!bsd211fs_close(Of(K))
    IN  Call("release", NoPath, v6, v7, bsd29, bsd211)

ReadWrite ==
    LET v6(K) == V6!v6fs_readwrite(Of(K))
        v7(K) == V7!v7fs_readwrite(Of(K))
        bsd29(K) == Bsd29!bsd29fs_readwrite(Of(K))
        bsd211(K) == Bsd211!bsd211fs_readwrite(Of(K))
    IN  Call("readwrite", NoPath, v6, v7, bsd29, bsd211)

Readdir ==
    LET v6(K) == V6!v6fs_enumdir(K, old, "filldir")
        v7(K) == V7!v7fs_enumdir(K, old, "filldir")
        bsd29(K) == Bsd29!bsd29fs_enumdir(K, old, "filldir")
        bsd211(K) == Bsd211!bsd211fs_enumdir(K, old)
    IN  Call("readdir", OnePath, v6, v7, bsd29, bsd211)

Mknod ==
    LET v6(K) == V6!v6fs_mknod(K, old)
        v7(K) == V7!v7fs_mknod(K, old)
        bsd29(K) == Bsd29!bsd29fs_mknod(K, old)
        bsd211(K) == Bsd211!bsd211fs_mknod(K, old)
    IN  Call("mknod", OnePath, v6, v7, bsd29, bsd211)

Mkdir ==
    LET v6(K) == V6!v6fs_mkdir(K, old)
        v7(K) == V7!v7fs_mkdir(K, old)
        bsd29(K) == Bsd29!bsd29fs_mkdir(K, old)
        bsd211(K) == Bsd211!bsd211fs_mkdir(K, old)
    IN  Call("mkdir", OnePath, v6, v7, bsd29, bsd211)

Unlink ==
    LET v6(K) == V6!v6fs_unlink(K, old)
        v7(K) == V7!v7fs_unlink(K, old)
        bsd29(K) == Bsd29!bsd29fs_unlink(K, old)
        bsd211(K) == Bsd211!bsd211fs_unlink(K, old)
    IN  Call("unlink", AnyPath, v6, v7, bsd29, bsd211)

Rmdir ==
    LET v6(K) == V6!v6fs_rmdir(K, old)
        v7(K) == V7!v7fs_rmdir(K, old)
        bsd29(K) == Bsd29!bsd29fs_rmdir(K, old)
        bsd211(K) == Bsd211!bsd211fs_rmdir(K, old)
    IN  Call("rmdir", OnePath, v6, v7, bsd29, bsd211)

Link ==
    LET v6(K) == V6!v6fs_link(K, old, new)
        v7(K) == V7!v7fs_link(K, old, new)
        bsd29(K) == Bsd29!bsd29fs_link(K, old, new)
        bsd211(K) == Bsd211!bsd211fs_link(K, old, new)
    IN  Call("link", AnyPaths, v6, v7, bsd29, bsd211)

Rename ==
    LET v6(K) == V6!v6fs_rename(K)
        v7(K) == V7!v7fs_rename(K)
        bsd29(K) == Bsd29!bsd29fs_rename(K)
        bsd211(K) == Bsd211!bsd211fs_rename(K)
    IN  Call("rename", AnyRename, v6, v7, bsd29, bsd211)

Sync ==
    LET v6(K) == V6!v6fs_sync(K)
        v7(K) == V7!v7fs_sync(K)
        bsd29(K) == Bsd29!bsd29fs_sync(K)
        bsd211(K) == Bsd211!bsd211fs_sync(K)
    IN  Call("sync", NoPath, v6, v7, bsd29, bsd211)

Statfs ==
    LET v6(K) == V6!v6fs_statfs(K)
        v7(K) == V7!v7fs_statfs(K)
        bsd29(K) == Bsd29!bsd29fs_statfs(K)
        bsd211(K) == Bsd211!bsd211fs_statfs(K)
    IN  Call("statfs", NoPath, v6, v7, bsd29, bsd211)

\* What only some have.
none(K) == {}

Fsync ==
    LET bsd211(K) == Bsd211!bsd211fs_fsync(Of(K))
    IN  Call("fsync", NoPath, none, none, none, bsd211)

Readlink ==
    LET bsd29(K) == Bsd29!bsd29fs_readlink(K, old)
        bsd211(K) == Bsd211!bsd211fs_readlink(K, old)
    IN  Call("readlink", AnyPath, none, none, bsd29, bsd211)

Symlink ==
    LET bsd29(K) == Bsd29!bsd29fs_symlink(K, old)
        bsd211(K) == Bsd211!bsd211fs_symlink(K, old)
    IN  Call("symlink", OnePath, none, none, bsd29, bsd211)

Next ==
    \/ Stat \/ Access \/ Chmod \/ Chown \/ Utimens \/ Truncate
    \/ Open \/ Release \/ ReadWrite \/ Readdir
    \/ Mknod \/ Mkdir \/ Unlink \/ Rmdir \/ Link \/ Rename
    \/ Sync \/ Fsync \/ Statfs \/ Readlink \/ Symlink \/ Returned

Spec == Init /\ [][Next]_vars

(***************************************************************************)
(* Properties.                                                             *)
(***************************************************************************)
\* A call that has returned has given back every reference, lock and buffer
\* it took, except the reference of each open file, and runs as its caller
\* again; what it keeps, it keeps because a read failed, and of 2.11BSD's
\* calls only mkdir does, of a name that exists.
NothingKept ==
    k.over = "" =>
        /\ k.left # {} => k.hurt /\ (kernel = "bsd211" => asked.call \in {"mkdir", ""})
        /\ k.lock \subseteq k.left
        /\ \A i \in Inodes :
             k.ref[i] = k.open[i] + (IF i = ROOT THEN roots ELSE 0)
                                  + (IF i \in k.left THEN 1 ELSE 0)
        /\ Buffer \notin k.left => \A b \in Kinds : k.bufs[b] = 0
        /\ k.uid = k.caller

\* Every call ends.  One that waits for itself waits for what a failed read
\* has left locked in the same call; only the V6 kernel panics, and 2.11BSD's
\* when it cannot find a directory again that it renames.
EveryCallEnds ==
    k.over # "" => /\ k.hurt
                   /\ k.over = "hung" => k.left # {}
                   /\ k.over = "dead" =>
                        \/ kernel = "v6"
                        \/ kernel = "bsd211" /\ asked.call = "rename"
                           /\ LeadsTo(asked.ent, k.old) = DIR

was   == LeadsTo(asked.ent, k.old)
isnow(path, i) == LeadsTo(k.ent, path) = i

\* 2.9BSD's rename of a symbolic link carries the name to what it leads to.
Kept == was = LINK => kernel # "bsd29"

\* A call that succeeds has done what it was asked; link follows a symbolic link.
SuccessIsDone ==
    asked # idle /\ k.over = "" /\ k.res = 0 =>
        /\ asked.call \in {"mknod", "mkdir", "symlink"} => isnow(k.old, FREE)
        /\ asked.call = "mkdir" =>
             Dots(FREE, LeadsTo(k.ent, Front(k.old))) \subseteq k.ent
        /\ asked.call \in {"unlink", "rmdir"} => isnow(k.old, None)
        /\ asked.call = "link" /\ was # LINK => isnow(k.new, was)
        /\ asked.call = "rename" /\ Kept =>
             /\ isnow(k.new, was)
             /\ LeadsTo(asked.ent, k.new) # was => isnow(k.old, None)
             /\ was = DIR => Dots(DIR, LeadsTo(k.ent, Front(k.new))) \subseteq k.ent

\* A rename never leaves its file without a name, wherever it stops: at a full
\* disk, at a failed read, or in the middle of one of its calls.
RenameKeepsItsFile ==
    asked.call = "rename" /\ was # None /\ Kept =>
        \E e \in k.ent : e[3] = was /\ e[2] \notin {".", ".."}
=============================================================================
