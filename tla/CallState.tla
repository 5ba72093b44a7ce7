----------------------------- MODULE CallState -----------------------------
(***************************************************************************)
(* What a call of a kernel holds while it runs: references to in-core      *)
(* inodes, their locks, buffers, descriptors, and the words of "u" its     *)
(* functions hand each other.  One thread runs, so a call is one step: its *)
(* functions are operators from the set of states a call may be in to the  *)
(* set it may be in afterwards, a branch is a partition of the set, and    *)
(* "goto out" is a union.                                                  *)
(*                                                                         *)
(* sleep() returns at once: a function that waits for a lock or a buffer   *)
(* its own call holds goes round its loop for ever ("hung").  A panic or a *)
(* NULL pointer ends the program ("dead").                                 *)
(***************************************************************************)
EXTENDS Integers, Sequences, SequencesExt

(***************************************************************************)
(* The tree a call works on.  The names it is given are "x" and "y", each  *)
(* in the root or in the directory SUB, or "y" in "x"; they lead to a      *)
(* file, a directory, a symbolic link or nothing.  The host resolves a     *)
(* path before it passes it on, so none leads through a link, or through   *)
(* "." or "..", except where the front end appends them.                   *)
(***************************************************************************)
None  == 0
ROOT  == 1
SUB   == 2
FILE  == 3
FILE2 == 4
DIR   == 5
DIR2  == 6
LINK  == 7         \* it holds the path of "y"
FREE  == 8         \* the free inode ialloc finds

Inodes == ROOT..FREE

Buffer == 9        \* among what is left behind: a buffer of no inode

PathTo(d) == IF d = ROOT THEN <<>> ELSE <<"s">>

Dots(d, p) == {<<d, ".", d>>, <<d, "..", p>>}

\* "x" in the first leads to the second, "y" in the third to the fourth.
Tree(names) ==
    LET po == names[1]  x == names[2]  pn == names[3]  y == names[4]
    IN  [old |-> Append(PathTo(po), "x"),
         new |-> Append(IF pn = DIR THEN Append(PathTo(po), "x") ELSE PathTo(pn), "y"),
         ent |-> UNION {Dots(ROOT, ROOT), Dots(SUB, ROOT), {<<ROOT, "s", SUB>>},
                        IF x = None THEN {} ELSE {<<po, "x", x>>},
                        IF x = DIR THEN Dots(DIR, po) ELSE {},
                        IF y = None THEN {} ELSE {<<pn, "y", y>>},
                        IF y = DIR2 THEN Dots(DIR2, pn) ELSE {}}]

Registers == {"dp", "dent", "pdir", "ip", "tp", "xp", "fd", "oldip", "newip",
              "newparentip", "oldparentip"}
Kinds == {"ilist", "flist", "dir", "link"}     \* whose block a buffer holds

(***************************************************************************)
(* Between two calls: what is referenced, locked and held, the descriptors *)
(* of each inode, who is running, and what a failed read is known to have  *)
(* left behind.  The root is referenced for as long as the volume is       *)
(* mounted.                                                                *)
(***************************************************************************)
Idle(roots) ==
    [ref |-> [i \in Inodes |-> IF i = ROOT THEN roots ELSE 0], lock |-> {},
     bufs |-> [b \in Kinds |-> 0], open |-> [i \in Inodes |-> 0],
     uid |-> 0, caller |-> 0, over |-> "", left |-> {}, hurt |-> FALSE,
     err |-> "", res |-> 0, name |-> "", seen |-> "", bad |-> FALSE,
     newdir |-> FALSE, v |-> [r \in Registers |-> None], old |-> <<>>, new |-> <<>>, ent |-> {}]

\* A call begins: somebody (setfscontext) asks for something about a tree.
Begin(k, tree, uid) ==
    {[k EXCEPT !.uid = uid, !.caller = uid, !.old = tree.old,
               !.new = tree.new, !.ent = tree.ent]}

\* It returns: what was the call's own is gone.
Ended(k) ==
    [k EXCEPT !.err = "", !.res = 0, !.name = "", !.seen = "", !.bad = FALSE,
              !.newdir = FALSE, !.v = [r \in Registers |-> None],
              !.old = <<>>, !.new = <<>>, !.ent = {}, !.hurt = @ /\ (k.over # "" \/ k.left # {})]

(***************************************************************************)
(* Sets of states.  A call that is over stays as it is.                    *)
(***************************************************************************)
On(K, F(_)) == UNION {IF k.over = "" THEN F(k) ELSE {k} : k \in K}

Put(K, f, x)  == {IF k.over = "" THEN [k EXCEPT ![f] = x] ELSE k : k \in K}
Load(K, r, i) == {IF k.over = "" THEN [k EXCEPT !.v[r] = i] ELSE k : k \in K}
Move(K, r, s) == {IF k.over = "" THEN [k EXCEPT !.v[s] = k.v[r]] ELSE k : k \in K}
Fail(K, e)    == Put(K, "err", e)
Clean(K)      == Put(K, "err", "")

Stop(k, how) == {[k EXCEPT !.over = how]}

\* "if (r == NULL) F else G"; "if (r == NULL) return; F".
Null(K, r, F(_), G(_)) ==
    F({k \in K : k.v[r] = None}) \cup G({k \in K : k.v[r] # None})
IfHeld(K, r, F(_)) == {k \in K : k.v[r] = None} \cup F({k \in K : k.v[r] # None})

\* "if (u.u_error) F else G"; "if (u.u_error) return; F".
Error(K, F(_), G(_)) == F({k \in K : k.err # ""}) \cup G({k \in K : k.err = ""})
IfFine(K, F(_)) == {k \in K : k.err # ""} \cup F({k \in K : k.err = ""})

Refuse(K) == Put(K, "res", -1)

\* return -u.u_error
Return(K) == {IF k.over = "" THEN [k EXCEPT !.res = IF k.err = "" THEN 0 ELSE -1]
                             ELSE k : k \in K}

\* The result a function keeps while it calls another.
Keeping(K, F(_)) ==
    UNION {Put(F({k \in K : k.res = r}), "res", r) : r \in {-1, 0, 1}}

\* "if (res < 0) goto exit; F", and "if (b_flags & B_ERROR) F else G".
IfDone(K, F(_)) == {k \in K : k.res # 0} \cup F({k \in K : k.res = 0})
Unread(K, F(_), G(_)) == F({k \in K : k.bad}) \cup G({k \in K : ~ k.bad})

Same(K) == K

(***************************************************************************)
(* Buffers.  Any block may fail to be read.  A block that is read again    *)
(* while its buffer is held is waited for; another of the same kind is     *)
(* not.                                                                    *)
(***************************************************************************)
bread(K, kind) ==
    On(K, LAMBDA k :
        LET got == [k EXCEPT !.bufs[kind] = @ + 1, !.bad = FALSE]
        IN  {got, [got EXCEPT !.bad = TRUE, !.err = "EIO", !.hurt = TRUE]}
            \cup (IF k.bufs[kind] > 0 THEN Stop(k, "hung") ELSE {}))

brelse(K, kind) == On(K, LAMBDA k : {[k EXCEPT !.bufs[kind] = @ - 1]})

\* Blocks that are read and released again by a function whose way does not
\* depend on them: alloc, free, bmap, iupdat, update.
Touch(K, kinds) ==
    On(K, LAMBDA k : {k, [k EXCEPT !.err = "EIO", !.hurt = TRUE]}
                     \cup (IF \E b \in kinds : k.bufs[b] > 0
                           THEN Stop(k, "hung") ELSE {}))

(***************************************************************************)
(* Inodes.                                                                 *)
(***************************************************************************)
IsDir(k, i) == i \in {ROOT, SUB, DIR, DIR2} \/ (i = FREE /\ k.newdir)

prele(K, r) == On(K, LAMBDA k : IF k.v[r] = None THEN Stop(k, "dead")
                                ELSE {[k EXCEPT !.lock = @ \ {k.v[r]}]})

iupdat(K) == Touch(K, {"ilist"})

itrunc(K) == Touch(K, {"flist"})

\* The last reference takes the inode to the disk, or frees it.
iput(K, r) ==
    On(K, LAMBDA k :
        LET i == k.v[r]
            gone == [k EXCEPT !.ref[i] = @ - 1, !.lock = @ \ {i}]
        IN  IF i = None THEN Stop(k, "dead")
            ELSE IF k.ref[i] = 1 THEN Touch({gone}, {"ilist", "flist"})
            ELSE {gone})

Give(K, r) == Load(iput(K, r), r, None)
GiveAny(K, r) == IfHeld(K, r, LAMBDA S : Give(S, r))

\* Wait for the lock of an inode.
ilock(K, r) ==
    On(K, LAMBDA k : IF k.v[r] \in k.lock THEN Stop(k, "hung")
                     ELSE {[k EXCEPT !.lock = @ \cup {k.v[r]}]})

\* The inode a number stands for, referenced and locked; "lost" is what is
\* done with the slot when the inode cannot be read.
igetOr(K, ino, r, lost(_, _)) ==
    LET take(S) == On(S, LAMBDA k :
            IF k.v[ino] \in k.lock THEN Stop(k, "hung")
            ELSE {[k EXCEPT !.ref[k.v[ino]] = @ + 1, !.lock = @ \cup {k.v[ino]},
                            !.v[r] = k.v[ino]]})
        drop(S) == lost(S, r)
    IN  On(take(K), LAMBDA k :
            IF k.ref[k.v[r]] > 1 THEN {k}
            ELSE Unread(brelse(bread({k}, "ilist"), "ilist"), drop, Same))

\* The permissions, or a volume mounted read-only, may refuse anybody.
access(K) == K \cup Fail(K, "EACCES")

\* An entry or a link's path is written, or the disk is full.
writei(K) ==
    On(Touch(K, {"dir", "flist"}), LAMBDA k : {k} \cup Fail({k}, "ENOSPC"))

(***************************************************************************)
(* Names.                                                                  *)
(***************************************************************************)
Found(ent, d, n) ==
    IF \E i \in Inodes : <<d, n, i>> \in ent
    THEN CHOOSE i \in Inodes : <<d, n, i>> \in ent ELSE None

\* What a search says: the name is there, it is not, or it ended in an error.
Seen(K, hit(_), none(_), out(_)) ==
    UNION {hit({k \in K : k.seen \in {"hit", "known"}}),
           none({k \in K : k.seen = "none"}), out({k \in K : k.seen = "out"})}

\* What the link holds: the path of "y" from the link's directory, dp.
LinkText(k) ==
    IF k.v["dp"] = ROOT THEN k.new
    ELSE IF Len(k.new) = 1 THEN <<"..">> \o k.new
    ELSE <<Last(k.new)>>

LeadsTo(ent, path) == FoldLeft(LAMBDA d, n : Found(ent, d, n), ROOT, path)

\* A path of a call: one of its arguments, or the directory above one ("x^"),
\* with what the front end appends.
PathOf(k, p) ==
    (CASE p[1] = "old" -> k.old [] p[1] = "old^" -> Front(k.old)
       [] p[1] = "new" -> k.new [] p[1] = "new^" -> Front(k.new)
       [] p[1] = "/" -> <<>>) \o Tail(p)
=============================================================================
